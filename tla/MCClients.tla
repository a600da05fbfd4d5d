----------------------------- MODULE MCClients -----------------------------
(* ClockSync with one candidate on either side of 0. *)
EXTENDS ClockSync

MCOffsets == -1 .. 1

=============================================================================
