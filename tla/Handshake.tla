----------------------------- MODULE Handshake -----------------------------
(***************************************************************************)
(* CTCP<MarkovianCC>::tcp_handshake (ctcp.hh), run at the start of every   *)
(* flow, with the external minimum RTT it sets in the controller           *)
(* (set_min_rtt, markoviancc.hh).                                          *)
(*                                                                         *)
(* All handshake headers are alike, so the network is the set of the ages  *)
(* of the ones that were not lost; an echo can arrive when its header is   *)
(* MinRTT ticks old or older, twice, or after the next flow has begun.     *)
(* Ages saturate at AgeCap.                                                *)
(***************************************************************************)
EXTENDS Integers

CONSTANTS
  NumFlows,       \* bound: handshakes made
  Resend,         \* the 200 ms of the resend test and of the poll, in ticks
  MinRTT,         \* the network's smallest round trip, in ticks
  MaxLost,        \* bound: handshake headers the network loses
  RemoteUnknown   \* is the remote address 0.0, to be learnt by NAT punching?

ASSUME HandshakeAssumption ==
  /\ NumFlows \in Nat \ {0}
  /\ Resend \in Nat \ {0}
  /\ MinRTT \in Nat \ {0}
  /\ MaxLost \in Nat
  /\ RemoteUnknown \in BOOLEAN

AgeCap == Resend + MinRTT + 1

VARIABLES
  pc,                \* "flow", "punch", "top" of the loop, or "wait" in poll
  made,              \* handshakes completed
  remote_known,
  last_send,         \* cur_time - last_send_time
  first,             \* last_send_time is still -1e9
  multi_send,
  waited,            \* time in this poll
  own_buf,           \* buf holds a handshake header
  net,               \* ages of the handshake headers on their way
  lost,
  external_min_rtt,  \* 0 when unset
  failed             \* history: receivedata has returned -1

vars == <<pc, made, remote_known, last_send, first, multi_send, waited, own_buf,
          net, lost, external_min_rtt, failed>>

Older(n) == IF n < AgeCap THEN n + 1 ELSE n

Init ==
  /\ pc = "flow"
  /\ made = 0
  /\ remote_known = ~RemoteUnknown
  /\ last_send = AgeCap
  /\ first = TRUE
  /\ multi_send = FALSE
  /\ waited = 0
  /\ own_buf = FALSE
  /\ net = {}
  /\ lost = 0
  /\ external_min_rtt = 0
  /\ failed = FALSE

Begin ==
  /\ pc = "flow" /\ made < NumFlows
  /\ pc' = IF remote_known THEN "top" ELSE "punch"
  /\ last_send' = AgeCap
  /\ first' = TRUE
  /\ multi_send' = FALSE
  /\ own_buf' = FALSE
  /\ UNCHANGED <<made, remote_known, waited, net, lost, external_min_rtt,
                 failed>>

(* A datagram of the client tells its address. *)
Punched ==
  /\ pc = "punch"
  /\ pc' = "top"
  /\ remote_known' = TRUE
  /\ UNCHANGED <<made, last_send, first, multi_send, waited, own_buf, net, lost,
                 external_min_rtt, failed>>

(* Mutant: the handshake header is sent once. *)
ResendNever == first

(* Is it more than Resend since the last header? *)
ResendDue == first \/ last_send > Resend

(* The top of the loop, into the poll. *)
Send ==
  /\ pc = "top"
  /\ pc' = "wait"
  /\ waited' = 0
  /\ IF ResendDue
       THEN /\ own_buf' = TRUE
            /\ multi_send' = (multi_send \/ ~first)
            /\ first' = FALSE
            /\ last_send' = 0
            /\ \/ net' = net \cup {0} /\ UNCHANGED lost
               \/ lost < MaxLost /\ lost' = lost + 1 /\ UNCHANGED net
       ELSE UNCHANGED <<own_buf, multi_send, first, last_send, net, lost>>
  /\ UNCHANGED <<made, remote_known, external_min_rtt, failed>>

PollTimeout ==
  /\ pc = "wait" /\ waited >= Resend
  /\ pc' = "top"
  /\ UNCHANGED <<made, remote_known, last_send, first, multi_send, waited,
                 own_buf, net, lost, external_min_rtt, failed>>

(* MarkovianCC::set_min_rtt. *)
set_min_rtt(x) ==
  external_min_rtt' =
    IF external_min_rtt = 0 \/ x < external_min_rtt THEN x ELSE external_min_rtt

(* Mutant: multi_send is not looked at. *)
EstablishAlways ==
  /\ pc' = "flow"
  /\ made' = made + 1
  /\ set_min_rtt(last_send)

(* What follows the test of ack_header: the RTT is measured from the last  *)
(* header sent.                                                            *)
Establish ==
  /\ pc' = "flow"
  /\ made' = made + 1
  /\ IF multi_send THEN UNCHANGED external_min_rtt ELSE set_min_rtt(last_send)

(* The echo of a handshake header that is age ticks old. *)
RecvEcho(age) ==
  /\ pc = "wait" /\ age >= MinRTT
  /\ own_buf' = TRUE
  /\ Establish
  /\ UNCHANGED <<remote_known, last_send, first, multi_send, waited, net, lost,
                 failed>>

(* The echo of a packet of an earlier flow, or one more punching datagram. *)
RecvOther ==
  /\ pc = "wait"
  /\ own_buf' = FALSE
  /\ pc' = "top"
  /\ UNCHANGED <<made, remote_known, last_send, first, multi_send, waited, net,
                 lost, external_min_rtt, failed>>

(* receivedata returned -1 without touching buf: not 0, so buf is tested.  *)
RecvError ==
  /\ pc = "wait"
  /\ failed' = TRUE
  /\ IF own_buf THEN Establish
                ELSE pc' = "top" /\ UNCHANGED <<made, external_min_rtt>>
  /\ UNCHANGED <<remote_known, last_send, first, multi_send, waited, own_buf,
                 net, lost>>

Tick ==
  /\ last_send' = Older(last_send)
  /\ waited' = Older(waited)
  /\ net' = {Older(a) : a \in net}
  /\ UNCHANGED <<pc, made, remote_known, first, multi_send, own_buf, lost,
                 external_min_rtt, failed>>

Next ==
  \/ Begin \/ Punched \/ Send \/ PollTimeout
  \/ \E age \in net : RecvEcho(age)
  \/ RecvOther \/ RecvError \/ Tick

Spec == Init /\ [][Next]_vars

(* The sender's thread runs, time passes, the client punches the NAT, and  *)
(* an echo that keeps being deliverable is delivered.                      *)
FairSpec ==
  /\ Spec
  /\ WF_vars(Send \/ PollTimeout)
  /\ WF_vars(Tick)
  /\ WF_vars(Punched)
  /\ SF_vars(\E age \in net : RecvEcho(age))
-----------------------------------------------------------------------------
(* The variables have the types of their declarations in tcp_handshake.    *)
TypeOK ==
  /\ pc \in {"flow", "punch", "top", "wait"}
  /\ made \in 0 .. NumFlows
  /\ {remote_known, first, multi_send, own_buf, failed} \subseteq BOOLEAN
  /\ {last_send, waited, external_min_rtt} \subseteq 0 .. AgeCap
  /\ net \subseteq 0 .. AgeCap
  /\ lost \in 0 .. MaxLost

(* "Set min_rtt only if we are sure we have the right rtt": however often  *)
(* the handshake was repeated, the external minimum RTT is one the network *)
(* can have shown, provided receivedata never failed.                      *)
RightRTT == external_min_rtt # 0 /\ ~failed => external_min_rtt >= MinRTT

(* A handshake survives the loss of its headers: the resend gets it done.  *)
Established == pc \in {"punch", "top", "wait"} ~> pc = "flow"

=============================================================================
