----------------------------- MODULE Markovian -----------------------------
(***************************************************************************)
(* The state a MarkovianCC (markoviancc.hh) has beside CTCP's view of it:  *)
(* the statistics over the RTTs (RTTWindow) and what it makes of them      *)
(* (CopaWindow), which takes any statistics in order as its input.  A      *)
(* behaviour is about one of the two.                                      *)
(***************************************************************************)
EXTENDS RTTWindow, CopaWindow

VARIABLE part

markovianVars == <<windowsVars, vars, part>>

MarkovianInit ==
  /\ part \in {"rtt_window", "window"}
  /\ WindowsInit
  /\ Init

MarkovianNext ==
  \/ part = "rtt_window" /\ WindowsNext /\ UNCHANGED <<vars, part>>
  \/ part = "window" /\ Next /\ UNCHANGED <<windowsVars, part>>

MarkovianSpec == MarkovianInit /\ [][MarkovianNext]_markovianVars
-----------------------------------------------------------------------------
(* The windows are deques of samples, and the fields of the controller have*)
(* the types of their declarations (rtt-window.hh, markoviancc.hh).        *)
MarkovianTypeOK == WindowsTypeOK /\ TypeOK

=============================================================================
