--------------------------- MODULE SlidingExtreme ---------------------------
(***************************************************************************)
(* What an ExtremeWindow promises, without the deque: the set of samples   *)
(* that have not expired since the last clear, and their extreme.          *)
(***************************************************************************)
EXTENDS Integers

CONSTANTS
  FindMin,   \* TRUE for a minimum, FALSE for a maximum
  NoExtreme  \* the extreme of an empty window

VARIABLES
  live,      \* the samples not yet expired
  extreme    \* the value the window answers

vars == <<live, extreme>>

IsExtreme(x, S) ==
  /\ \E s \in S : s.val = x
  /\ \A s \in S : IF FindMin THEN x <= s.val ELSE x >= s.val

Init ==
  /\ live = {}
  /\ extreme = NoExtreme

(* A sample at least as recent as all others arrives and is kept; expired  *)
(* samples are strictly older than every one that stays.                   *)
NewSample ==
  /\ \E s \in live' :
       /\ live' \subseteq live \cup {s}
       /\ \A o \in live : o.time <= s.time
  /\ \A o \in live \ live', k \in live' : o.time < k.time
  /\ IsExtreme(extreme', live')

Clear ==
  /\ live' = {}
  /\ extreme' = NoExtreme

Next == NewSample \/ Clear

Spec == Init /\ [][Next]_vars

=============================================================================
