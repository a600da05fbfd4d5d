----------------------------- MODULE MCTraining -----------------------------
EXTENDS Training

(* One rule and no changes to it: only splits matter here. *)
OneRule == [f \in RuleFields |-> [min |-> 1, max |-> 1, changes |-> {}, default |-> 1]]

(* The signals every build of the code has. *)
CommonSignals == {{21, 22, 23}}
=============================================================================
