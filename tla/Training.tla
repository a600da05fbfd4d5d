------------------------------ MODULE Training ------------------------------
(***************************************************************************)
(* Remy trains a tree of rules: it looks memories up, and improves or      *)
(* splits the whisker used most.  The operations are those the library of  *)
(* this repository has (WhiskerTree); which whisker they are applied to    *)
(* follows Remy, which is outside of it.                                   *)
(***************************************************************************)
EXTENDS WhiskerTree

CONSTANTS
  Builds,        \* the builds whose programs run
  Points,        \* the values signals take in lookups
  MaxUses,       \* bound: lookups
  MaxSteps,      \* bound: improvements and splits
  MaxGeneration  \* bound: generations of a whisker

ASSUME TrainingAssumption ==
  /\ \A b \in Builds : b \subseteq 21 .. 25
  /\ Points \subseteq 0 .. Limit - 1

VARIABLES
  build,   \* of the program that is running
  tree,
  status,  \* "running"; "ended", "exited" or "aborted" when the program stopped
  steps,   \* improvements and splits so far
  uses,    \* lookups so far
  through, \* history: the builds the tree has been in
  exact    \* history: has every leaf replaced had the range of the whisker it was replaced for?

trainingVars == <<build, tree, status, steps, uses, through, exact>>

Queries(b) == [b -> Points]

TrainingInit ==
  /\ build \in Builds
  /\ tree = DefaultTree(build)
  /\ status = "running"
  /\ steps = 0 /\ uses = 0
  /\ through = {build}
  /\ exact = TRUE

(* A tree is trained in one build. *)
InTraining == status = "running" /\ through = {build}

(* use_whisker: a memory outside of the tree ends the program.  Lookups are*)
(* tracked in training (without, a median is 0, which it may be anyway),   *)
(* and not in a sender (rat.hh).                                           *)
use_whisker(q) ==
  LET found == whisker(tree, q)
      w     == tree.leaf[found.path]
      range == [(IF InTraining THEN track(w.domain, q) ELSE w.domain) EXCEPT !.count = @ + 1]
  IN  /\ status = "running" /\ uses < MaxUses
      /\ status' = CASE found.is = "none"  -> "exited"
                     [] found.is = "abort" -> "aborted"
                     [] OTHER              -> "running"
      /\ tree' = IF found.is = "found"
                   THEN PutLeaf(tree, found.path, [w EXCEPT !.domain = range]) ELSE tree
      /\ uses' = uses + 1
      /\ UNCHANGED <<build, steps, through, exact>>

SameBounds(a, b) == a.lower = b.lower /\ a.upper = b.upper

(* What replace's search for the leaf of w found becomes the tree new; it  *)
(* may fail an assertion.                                                  *)
Replace(w, found, new) ==
  /\ tree' = IF found.is = "found" THEN new ELSE tree
  /\ status' = IF found.is = "abort" THEN "aborted" ELSE "running"
  /\ exact' = (exact /\ (found.is = "found" =>
                           SameBounds(w.domain, tree.leaf[found.path].domain)))
  /\ steps' = steps + 1
  /\ UNCHANGED <<build, uses, through>>

(* replace with one of next_generation, which asserts that every part of   *)
(* the rule is eligible.                                                   *)
Improve(g) ==
  /\ InTraining /\ steps < MaxSteps
  /\ \E path \in most_used(tree, g) :
       LET w     == tree.leaf[path]
           found == replaced(tree, w.domain)
       IN  IF \A f \in RuleFields : eligible_value(f, w.rule[f])
             THEN /\ w.generation < MaxGeneration
                  /\ \E new \in next_generation(w) :
                       Replace(w, found, PutLeaf(tree, found.path, new))
             ELSE /\ status' = "aborted"
                  /\ UNCHANGED <<build, tree, steps, uses, through, exact>>

(* replace with the tree of the whisker bisected. *)
Split(g) ==
  /\ InTraining /\ steps < MaxSteps
  /\ \E path \in most_used(tree, g) :
       LET w     == tree.leaf[path]
           found == replaced(tree, w.domain)
       IN  \E median \in [build -> UNION {Medians(w.domain, n) : n \in build}] :
             /\ \A n \in build : median[n] \in Medians(w.domain, n)
             /\ Replace(w, found, Put(tree, found.path, BisectedTree(w, median)))

ResetCounts ==
  /\ InTraining /\ uses > 0
  /\ tree' = reset_counts(tree)
  /\ UNCHANGED <<build, status, steps, uses, through, exact>>

ResetGeneration ==
  /\ InTraining
  /\ tree' = reset_generation(tree)
  /\ UNCHANGED <<build, status, steps, uses, through, exact>>

Promote(g) ==
  /\ InTraining
  /\ tree' = promote(tree, g)
  /\ UNCHANGED <<build, status, steps, uses, through, exact>>

Replacing == \E g \in 0 .. MaxGeneration : Improve(g) \/ Split(g)

(* What leaves the ranges and the rules alone. *)
Keeping ==
  \/ \E q \in Queries(build) : use_whisker(q)
  \/ ResetCounts
  \/ ResetGeneration
  \/ \E g \in 0 .. MaxGeneration : Promote(g)

TrainingNext == Replacing \/ Keeping

TrainingSpec == TrainingInit /\ [][TrainingNext]_trainingVars
-----------------------------------------------------------------------------
(* replace asserts that the whisker it was given has the domain of the leaf*)
(* it overwrites (whiskertree.cc), and operator== is said to compare all   *)
(* tracked values of a memory (memory-default.hh): what is overwritten is  *)
(* the leaf of the very range the new whisker, or tree, is made for.       *)
ReplacesItsOwn == exact

(* However ranges were split, also at a median outside of them, a lookup   *)
(* within the limits finds a rule: neither exit(1) nor assert(false) of    *)
(* whiskertree.cc is reached.  It is stated for trees that are in order,   *)
(* which the code's are not always: see ReplacesItsOwn.                    *)
LookupFinds ==
  status = "running" /\ exact => \A q \in Queries(build) : whisker(tree, q).is = "found"

(* In the build that trained it the rule does not depend on the order of   *)
(* the children: the leaves partition the memories.  Without exact some    *)
(* memories would be in two leaves.                                        *)
OneLeafEach ==
  InTraining /\ exact =>
    \A q \in Queries(build) : \E path \in DOMAIN tree.leaf :
      Holding(tree, q) \cap DOMAIN tree.leaf = {path}

=============================================================================
