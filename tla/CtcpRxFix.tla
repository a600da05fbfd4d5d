----------------------------- MODULE CtcpRxFix -----------------------------
(***************************************************************************)
(* CTCP talking to the batching receiver of copa_rx_fix.cc.  For a         *)
(* millisecond it collects the headers that arrive; then it sends them     *)
(* back, or, when none has arrived, sends a dummy: whatever header it      *)
(* handled last, with another sequence number.                             *)
(***************************************************************************)
EXTENDS Ctcp, Sequences

CONSTANT BatchCap   \* bound: headers per millisecond (header_list holds 1000)


VARIABLES
  header_list,   \* the batch being collected
  buff,          \* what the buffer holds: the empty set before any header
  returned       \* headers on the wire back to the sender

rxVars == <<header_list, buff, returned>>
vars == <<ctcpVars, rxVars>>

DummySeq == -1111

Init == CtcpInit /\ header_list = <<>> /\ buff = {} /\ returned = {}

(* receivedata_w_time did not return 0: a datagram arrived, or, with -1,   *)
(* the receive failed and the header that buff holds counts once more.     *)
Collect(m) ==
  /\ Len(header_list) < BatchCap
  /\ header_list' = Append(header_list, m)
  /\ buff' = {m}
  /\ UNCHANGED returned

(* The millisecond is over.  Before the first datagram sender_addr is not  *)
(* the sender's, and the dummy reaches nobody.                             *)
Flush ==
  /\ header_list' = <<>>
  /\ IF header_list = <<>>
       THEN /\ buff' = {[m EXCEPT !.seq = DummySeq] : m \in buff}
            /\ returned' = returned \cup buff'
       ELSE /\ buff' = {header_list[Len(header_list)]}
            /\ returned' = returned \cup
                 {m \in {header_list[i] : i \in DOMAIN header_list} : m.seq # DummySeq}

Next ==
  \/ CtcpNext(returned) /\ UNCHANGED rxVars
  \/ (\E m \in sent \cup buff : Collect(m)) /\ UNCHANGED ctcpVars
  \/ Flush /\ UNCHANGED ctcpVars

Spec == Init /\ [][Next]_vars
-----------------------------------------------------------------------------
(* The comment on echo_packets of copa_rx_fix.cc: the receiver             *)
(* acknowledges packets it received.  No header it sends is taken by CTCP  *)
(* for the acknowledgement of anything but a packet of this flow.          *)
OnlyPacketsAcknowledged == CurrentAcks(returned)

=============================================================================
