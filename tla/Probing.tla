------------------------------ MODULE Probing ------------------------------
(***************************************************************************)
(* The two programs that measure by what copa_recv echoes: the sender's    *)
(* handshake (ctcp.hh), which measures the round trip, and prober.cc,      *)
(* which measures the rate.  Both use UDPSocket::receivedata and take its  *)
(* -1 for a datagram, because they only test for 0.  One of them runs.     *)
(***************************************************************************)
EXTENDS Handshake, Prober

VARIABLE program  \* the one started

probingVars == <<program, vars, proberVars>>

ProbingInit == Init /\ ProberInit /\ program \in {"sender", "prober"}

ProbingNext ==
  \/ program = "sender" /\ Next /\ UNCHANGED <<program, proberVars>>
  \/ program = "prober" /\ ProberNext /\ UNCHANGED <<program, vars>>

(* The fairness of Handshake for the sender; none is needed of the prober, *)
(* which may wait for a lost echo for ever.                                *)
ProbingSpec ==
  /\ ProbingInit /\ [][ProbingNext]_probingVars
  /\ program = "sender" =>
       /\ WF_vars(Send \/ PollTimeout)
       /\ WF_vars(Tick)
       /\ WF_vars(Punched)
       /\ SF_vars(\E age \in net : RecvEcho(age))

=============================================================================
