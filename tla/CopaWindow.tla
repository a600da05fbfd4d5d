----------------------------- MODULE CopaWindow -----------------------------
(***************************************************************************)
(* What class MarkovianCC makes of delay and loss: update_delta,           *)
(* update_intersend_time and ReduceOnLoss, in the order onACK calls them.  *)
(*                                                                         *)
(* The controller is a record and a method an operator from the record     *)
(* before to the set of records after.  Windows are whole packets and      *)
(* delta is held as its inverse; where the code has a fraction the model   *)
(* rounds it down or up.  A point in time is its age in ticks, which       *)
(* saturates where no guard tells the difference.  The RTT statistics      *)
(* (module RTTWindow) are inputs: the minimum is not above the unjittered  *)
(* RTT, nor that above the sample.                                         *)
(***************************************************************************)
EXTENDS Integers

CONSTANTS
  UtilityMode,   \* "constant", "auto" or "tcp_coop"
  DoSlowStart,   \* did the configuration string start with do_ss: ?
  InvConfigured, \* 1 / delta of "constant_delta:"
  InvDefault,    \* 1 / default_delta
  NumProbe,      \* num_probe_pkts
  ReduceMin,     \* 20: ReduceOnLoss looks at more packets than this
  MaxRTT,        \* bound: the RTT of a sample, in ticks
  Losses,        \* how many packets one acknowledgement may show as lost
  MaxWindow,     \* bound: the window
  MaxInvDelta,   \* bound: 1 / delta
  MaxNet,        \* bound: net steps one way in an RTT
  MaxPkts        \* bound: packets per loss window

ASSUME CopaAssumption ==
  /\ UtilityMode \in {"constant", "auto", "tcp_coop"}
  /\ DoSlowStart \in BOOLEAN
  /\ {InvConfigured, InvDefault} \subseteq Nat \ {0}
  /\ MaxRTT \in Nat \ {0} /\ Losses \subseteq Nat
  /\ {ReduceMin, MaxWindow, MaxInvDelta, MaxNet, MaxPkts} \subseteq Nat
  /\ NumProbe \in 2 .. MaxWindow

VARIABLES
  cc,        \* the controller
  aborted,   \* assert(false) was reached
  last_net   \* history: the way the window went in the last full RTT

vars == <<cc, aborted, last_net>>

Max2(a, b) == IF a >= b THEN a ELSE b
Saturate(n, cap) == IF n < cap THEN n ELSE cap
Sign(n) == IF n > 0 THEN 1 ELSE IF n < 0 THEN -1 ELSE 0
Rounded(a, b) == {a \div b, (a + b - 1) \div b}

RTTs == 1 .. MaxRTT
AgeCap == MaxRTT + 1          \* where ages saturate,
WinCap == 2 * MaxRTT + 1      \* that of the loss window
AckCap == Max2(2 * NumProbe, ReduceMin + 1)
LostCap == ReduceMin + 1

(* An intersend time is the window w it was computed from, as rtt / 2w;    *)
(* 0 is no delay between packets.                                          *)
Controller ==
  [clock : 0 .. MaxRTT, the_window : 2 .. MaxWindow, slow_start : BOOLEAN,
   cur_intersend_time : 0 .. MaxWindow, intersend_time : 0 .. MaxWindow,
   inv_delta : Nat \ {0}, delta_updated : BOOLEAN,
   since_delta : 0 .. AgeCap, since_loss : 0 .. AgeCap,
   update_amt : Nat \ {0}, update_dir : Int, prev_update_dir : {-1, 1},
   since_update : 0 .. AgeCap,
   num_lost : Nat, num_pkts : Nat, since_win : 0 .. WinCap,
   num_pkts_acked : 0 .. AckCap, num_pkts_lost : 0 .. LostCap]

(* MarkovianCC::init at flow time clock; external: is external_min_rtt set? *)
init(c, clock, external) ==
  [clock |-> Saturate(clock, MaxRTT), the_window |-> NumProbe, slow_start |-> TRUE,
   cur_intersend_time |-> 0, intersend_time |-> IF external THEN NumProbe ELSE 0,
   inv_delta |-> IF UtilityMode = "constant" THEN c.inv_delta ELSE 1,
   delta_updated |-> FALSE,
   since_delta |-> Saturate(clock, AgeCap), since_loss |-> Saturate(clock, AgeCap),
   update_amt |-> 1, update_dir |-> 1, prev_update_dir |-> 1,
   since_update |-> Saturate(clock, AgeCap),
   num_lost |-> 0, num_pkts |-> 0, since_win |-> clock,
   num_pkts_acked |-> 0, num_pkts_lost |-> 0]

(* interpret_config_str, and the init before the first flow. *)
Configured ==
  [inv_delta |-> IF UtilityMode = "constant" THEN InvConfigured ELSE 1]

Init ==
  /\ cc \in {init(Configured, 0, external) : external \in BOOLEAN}
  /\ aborted = FALSE
  /\ last_net = 0
-----------------------------------------------------------------------------
(* The branch of update_delta for DEFAULT_MODE. *)
DefaultDelta(c, rtt) ==
  IF ~c.delta_updated \/ c.since_loss > rtt
    THEN [c EXCEPT !.inv_delta = InvDefault,
                   !.delta_updated = TRUE, !.since_delta = 0]
    ELSE c

(* Mutant: delta is not capped at default_delta. *)
LossSensitiveUncapped(c, pkt_lost, rtt) ==
  IF pkt_lost /\ c.since_loss > rtt
    THEN {[c EXCEPT !.inv_delta = Max2(k, 1), !.since_loss = 0] :
            k \in Rounded(c.inv_delta, 2)}
    ELSE IF c.since_delta > rtt
    THEN {[c EXCEPT !.inv_delta = @ + 1, !.delta_updated = TRUE, !.since_delta = 0]}
    ELSE {c}

(* The branch for LOSS_SENSITIVE_MODE and TCP_COOP: 1 / delta is halved by *)
(* a loss and grows by one per RTT, like the window of TCP.                *)
LossSensitiveDelta(c, pkt_lost, rtt) ==
  LET inv == IF c.delta_updated THEN c.inv_delta ELSE InvDefault
  IN  IF pkt_lost /\ c.since_loss > rtt
        THEN {[c EXCEPT !.inv_delta = Max2(k, InvDefault), !.since_loss = 0] :
                k \in Rounded(inv, 2)}
        ELSE IF c.since_delta > rtt
        THEN {[c EXCEPT !.inv_delta = Max2(inv + 1, InvDefault),
                        !.delta_updated = TRUE, !.since_delta = 0]}
        ELSE {[c EXCEPT !.inv_delta = Max2(inv, InvDefault)]}

(* MarkovianCC::update_delta. *)
update_delta(c, pkt_lost, rtt, is_copa) ==
  IF UtilityMode = "tcp_coop" \/ (UtilityMode = "auto" /\ ~is_copa)
    THEN LossSensitiveDelta(c, pkt_lost, rtt)
    ELSE {DefaultDelta(c, rtt)}

(* _the_window < target_window, which is unj / (delta * (unj - min)). *)
BelowTarget(c, unj, min) ==
  unj = min \/ c.the_window * (unj - min) < unj * c.inv_delta

SlowStart(c, unj, min) ==
  LET grown == [c EXCEPT !.the_window = @ + 1]
  IN  [grown EXCEPT !.slow_start = BelowTarget(grown, unj, min)]

(* Mutant: the direction is forgotten, not reversed. *)
NewRTTNoTurn(c) ==
  [c EXCEPT !.update_amt = IF c.prev_update_dir * c.update_dir > 0 THEN @ * 2 ELSE 1,
            !.since_update = 0, !.update_dir = 0]

(* An RTT is over: the velocity doubles when the window went on the way it *)
(* had gone.  (update_amt is never below 1, so never below 0.006.)         *)
NewRTT(c) ==
  LET agreed == c.prev_update_dir * c.update_dir > 0
  IN  [c EXCEPT !.update_amt      = IF agreed THEN @ * 2 ELSE 1,
                !.prev_update_dir = IF agreed THEN @ ELSE -@,
                !.since_update    = 0,
                !.update_dir      = 0]

(* Mutant: the velocity may fall to zero. *)
LimitVelocityToZero(c) ==
  [c EXCEPT !.update_amt = IF @ * c.inv_delta > c.the_window THEN @ \div 2 ELSE @]

(* The velocity is halved, once per acknowledgement, when a step with it   *)
(* would be more than one packet, but not below 1.                         *)
LimitVelocity(c) ==
  [c EXCEPT !.update_amt = IF @ * c.inv_delta > c.the_window
                             THEN Max2(@ \div 2, 1) ELSE @]

(* The window goes update_amt / (delta * _the_window) towards the target. *)
Step(c, unj, min) ==
  LET below == BelowTarget(c, unj, min)
  IN  {[c EXCEPT !.update_dir = @ + (IF below THEN 1 ELSE -1),
                 !.the_window = @ + (IF below THEN step ELSE -step)] :
         step \in Rounded(c.update_amt * c.inv_delta, c.the_window)}

RTTOver(c, rtt) == ~c.slow_start /\ c.since_update > rtt

Probing(c) == c.num_pkts_acked < 2 * NumProbe - 1

Unhandled(c, unj, min) ==
  ~Probing(c) /\ c.slow_start /\ ~DoSlowStart /\ unj # min

(* MarkovianCC::update_intersend_time, when it does not abort. *)
update_intersend_time(c, rtt, unj, min) ==
  IF Probing(c) THEN {c}
  ELSE {[d EXCEPT !.the_window         = Max2(2, @),
                  !.cur_intersend_time = Max2(2, d.the_window),
                  !.intersend_time     = Max2(2, d.the_window)] :
          d \in IF c.slow_start
                  THEN {SlowStart(c, unj, min)}
                  ELSE Step(LimitVelocity(IF RTTOver(c, rtt) THEN NewRTT(c) ELSE c),
                            unj, min)}
-----------------------------------------------------------------------------
(* Mutant: the window is reduced, the pacing is not. *)
ReduceWindowOnly(c) ==
  {[c EXCEPT !.the_window = Max2(2, w)] : w \in Rounded(7 * c.the_window, 10)}

Reduce(c) ==
  {[c EXCEPT !.the_window         = Max2(2, w),
             !.cur_intersend_time = Max2(2, w),
             !.intersend_time     = Max2(2, w)] : w \in Rounded(7 * c.the_window, 10)}

(* Mutant: a single packet is enough. *)
EnoughAtOnce(c) == 1

(* Of the packets of this acknowledgement, the one with which more than    *)
(* ReduceMin have been counted.                                            *)
EnoughAt(c) == Max2(ReduceMin + 1 - c.num_pkts, 1)

(* ReduceOnLoss::update for each of the lost packets and then for the      *)
(* acknowledged one: the controller after it and whether to reduce, which  *)
(* is decided once in two RTTs, by a loss rate over 0.3.                   *)
reduce_on_loss(c, lost, rtt) ==
  LET n == EnoughAt(c)
      lostByThen == IF n < lost THEN n ELSE lost
  IN  IF c.since_win > 2 * rtt /\ n <= lost + 1
        THEN [cc     |-> [c EXCEPT !.num_lost  = lost - lostByThen,
                                   !.num_pkts  = lost + 1 - n,
                                   !.since_win = 0],
              reduce |-> 10 * (c.num_lost + lostByThen) > 3 * (c.num_pkts + n)]
        ELSE [cc     |-> [c EXCEPT !.num_lost = @ + lost,
                                   !.num_pkts = @ + lost + 1],
              reduce |-> FALSE]

(* MarkovianCC::onACK: a sample, then the losses the acknowledgement shows.*)
(* The second update_delta is called without an RTT, which is then 0.      *)
onACK(rtt, unj, min, is_copa, lost) ==
  \E c1 \in update_delta(cc, FALSE, rtt, is_copa) :
  \E c2 \in update_intersend_time(c1, rtt, unj, min) :
  \E c3 \in IF lost > 0 THEN update_delta(c2, TRUE, 0, is_copa) ELSE {c2} :
  \E r \in {reduce_on_loss(c3, lost, rtt)} :
  \E c4 \in IF r.reduce THEN Reduce(r.cc) ELSE {r.cc} :
    /\ c2.the_window <= MaxWindow /\ c4.inv_delta <= MaxInvDelta
    /\ c4.update_dir \in -MaxNet .. MaxNet /\ c4.num_pkts <= MaxPkts
    /\ cc' = [c4 EXCEPT !.num_pkts_acked = Saturate(@ + 1, AckCap),
                        !.num_pkts_lost  = Saturate(@ + lost, LostCap)]

OnACK ==
  /\ ~aborted
  /\ \E rtt \in RTTs, is_copa \in BOOLEAN, lost \in Losses :
     \E unj \in RTTs : \E min \in RTTs :
       /\ min <= unj /\ unj <= rtt /\ rtt <= cc.clock
       /\ IF Unhandled(cc, unj, min)
            THEN aborted' = TRUE /\ UNCHANGED <<cc, last_net>>
            ELSE /\ onACK(rtt, unj, min, is_copa, lost)
                 /\ last_net' = IF ~Probing(cc) /\ RTTOver(cc, rtt)
                                  THEN Sign(cc.update_dir) ELSE last_net
                 /\ UNCHANGED aborted

(* MarkovianCC::onPktSent takes the pacing back from cur_intersend_time. *)
OnPktSent ==
  /\ ~aborted
  /\ cc' = [cc EXCEPT !.intersend_time = cc.cur_intersend_time]
  /\ UNCHANGED <<aborted, last_net>>

(* init again: a new flow at time 0, or an idle timeout, later than any    *)
(* guard can tell.                                                         *)
Restart ==
  /\ ~aborted
  /\ \E clock \in {0, WinCap}, external \in BOOLEAN : cc' = init(cc, clock, external)
  /\ last_net' = 0
  /\ UNCHANGED aborted

Tick ==
  /\ ~aborted
  /\ cc' = [cc EXCEPT !.clock        = Saturate(@ + 1, MaxRTT),
                      !.since_delta  = Saturate(@ + 1, AgeCap),
                      !.since_loss   = Saturate(@ + 1, AgeCap),
                      !.since_update = Saturate(@ + 1, AgeCap),
                      !.since_win    = Saturate(@ + 1, WinCap)]
  /\ UNCHANGED <<aborted, last_net>>

Next == OnACK \/ OnPktSent \/ Restart \/ Tick

Spec == Init /\ [][Next]_vars
-----------------------------------------------------------------------------
(* The fields of the controller have the types of their declarations; past *)
(* init, windows are at least 2 and the velocity is at least 1.            *)
TypeOK ==
  /\ cc \in Controller
  /\ aborted \in BOOLEAN
  /\ last_net \in {-1, 0, 1}

(* Copa competes by lowering delta and never raises it above the default,  *)
(* in whatever order losses and mode switches come, from the first         *)
(* acknowledgement after init, which leaves 1 in it.                       *)
DeltaAtMostDefault == cc.num_pkts_acked > 0 => cc.inv_delta >= InvDefault

(* The velocity grows only when the window went the same way for two RTTs, *)
(* or the first of them was balanced.                                      *)
VelocityNeedsAgreement ==
  [][cc'.update_amt > cc.update_amt => last_net # -Sign(cc.update_dir)]_vars

(* After the probing phase packets are paced by the present window: what   *)
(* onPktSent takes from cur_intersend_time is not left over from a larger  *)
(* window, nor the zero init leaves in it.                                 *)
PacingFollowsWindow ==
  cc.num_pkts_acked >= 2 * NumProbe =>
    cc.intersend_time = cc.the_window /\ cc.cur_intersend_time = cc.the_window

(* The view of the controller the modules of CTCP take. *)
View == INSTANCE MarkovianCC WITH WindowSizes <- 2 .. MaxWindow

(* Between two inits the window changes only where MarkovianCC says it may:*)
(* after the probing phase, or when enough packets showed a loss.          *)
WindowAsCtcpAssumes ==
  [][cc'.num_pkts_acked > 0 =>
       cc'.the_window \in View!NextWindow(cc, cc'.num_pkts_lost)]_vars

=============================================================================
