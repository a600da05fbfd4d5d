-------------------------------- MODULE TTI --------------------------------
(***************************************************************************)
(* The arithmetic on transmission time intervals of ngscope_util.cc and    *)
(* ngscope_reTx.cc.  A TTI is a millisecond's number modulo MaxTTI, kept   *)
(* in a uint16_t: with MaxTTI = 10240 no sum below reaches 2^16.           *)
(***************************************************************************)
EXTENDS Integers

CONSTANT MaxTTI   \* 10240

ASSUME TTIAssumption == MaxTTI \in Nat /\ MaxTTI >= 2

Abs(n) == IF n >= 0 THEN n ELSE -n

wrap_tti(t) == t % MaxTTI

(* The largest and smallest value of a function with a finite domain. *)
max_in_array(a) ==
  CHOOSE m \in {a[i] : i \in DOMAIN a} : \A i \in DOMAIN a : a[i] <= m

min_in_array(a) ==
  CHOOSE m \in {a[i] : i \in DOMAIN a} : \A i \in DOMAIN a : m <= a[i]

(* Elements that are nearer to the largest one when counted a cycle later  *)
(* are moved there.                                                        *)
unwrap_tti_array(a) ==
  LET max_tti == max_in_array(a)
  IN  [i \in DOMAIN a |->
         IF Abs(max_tti - a[i]) > Abs(max_tti - (a[i] + MaxTTI))
           THEN a[i] + MaxTTI
           ELSE a[i]]

max_tti_in_array(a) == wrap_tti(max_in_array(unwrap_tti_array(a)))

(* From start to end, both included; a whole cycle and one when they are   *)
(* the same.                                                               *)
tti_distance(start, end) ==
  IF start < end THEN end - start + 1 ELSE end + MaxTTI - start + 1

tti_a_l_b(a, b) ==
  LET u == unwrap_tti_array([i \in {1, 2} |-> IF i = 1 THEN a ELSE b])
  IN  u[1] > u[2]

tti_a_se_b(a, b) ==
  LET u == unwrap_tti_array([i \in {1, 2} |-> IF i = 1 THEN a ELSE b])
  IN  u[1] <= u[2]

(* The index of a TTI in a trace that begins at tail_tti. *)
tti_to_idx(tti, tail_tti) == (tti - tail_tti + MaxTTI) % MaxTTI

=============================================================================
