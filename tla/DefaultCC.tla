----------------------------- MODULE DefaultCC -----------------------------
(***************************************************************************)
(* DefaultCC (congctrls.hh), the sender's cctype=tcp.  The window is       *)
(* rounded down: the increase by 1/w may or may not reach the next whole   *)
(* packet.                                                                 *)
(***************************************************************************)
EXTENDS Integers

NewTcp == [the_window |-> 2, ssthresh |-> 83333, slow_start |-> TRUE,
           dup_count |-> 0, last_ack |-> 0]

(* DefaultCC::init: the values meant for m_issthresh and m_bSlowStart are  *)
(* assigned to each other; the duplicate count stays.                      *)
TcpInit(cc) == [cc EXCEPT !.the_window = 2, !.ssthresh = 1, !.slow_start = TRUE]

(* Mutant: the window is halved and not bounded below. *)
HalfOfNoFloor(w) == w \div 2

(* m_issthresh after a loss. *)
HalfOf(w) == IF w \div 2 < 2 THEN 2 ELSE w \div 2

TcpOnTimeout(cc) ==
  [cc EXCEPT !.the_window = 2, !.ssthresh = HalfOf(cc.the_window), !.slow_start = TRUE]

(* ACKAction: what the object may become. *)
ACKAction(cc) ==
  IF cc.slow_start
    THEN {[cc EXCEPT !.the_window = @ + 1, !.slow_start = cc.the_window + 1 < cc.ssthresh]}
    ELSE {cc, [cc EXCEPT !.the_window = @ + 1]}

DupACKAction(cc) ==
  [cc EXCEPT !.slow_start = FALSE,
             !.ssthresh   = HalfOf(cc.the_window),
             !.the_window = HalfOf(cc.the_window) + 3]

TcpOnACK(cc, ack) ==
  IF ack = cc.last_ack
    THEN LET c == [cc EXCEPT !.dup_count = @ + 1]
         IN  CASE c.dup_count = 3 -> {DupACKAction(c)}
               [] c.dup_count > 3 -> {[c EXCEPT !.the_window = @ + 1]}
               [] OTHER           -> ACKAction(c)
    ELSE ACKAction([cc EXCEPT !.last_ack   = ack,
                              !.dup_count  = 1,
                              !.the_window = IF cc.dup_count >= 3 THEN cc.ssthresh ELSE @])

=============================================================================
