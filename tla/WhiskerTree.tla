---------------------------- MODULE WhiskerTree ----------------------------
(***************************************************************************)
(* RemyCC's rules (whiskertree.cc, whisker.cc, memoryrange.cc): a tree of  *)
(* ranges of the congestion signals, with a rule for the window and the    *)
(* intersend time in each leaf.                                            *)
(*                                                                         *)
(* A build is the set of the signals' field numbers in dna.proto; a memory *)
(* is a function from it to naturals, the code's doubles in some unit.     *)
(*                                                                         *)
(* A node is named by the path to it, the numbers of the children from the *)
(* root; a tree has the domains of its nodes and the whiskers of its       *)
(* leaves.  The code's recursive searches are over the nodes they visit.   *)
(* Where the code returns a null pointer, fails an assertion or returns a  *)
(* leaf, the operators return a record that says which.                    *)
(***************************************************************************)
EXTENDS Integers, Sequences

CONSTANTS
  Limit,     \* 163840, the end of the range of a signal
  Optimizer  \* get_optimizer: for each part of a rule its bounds and changes

RuleFields == 31 .. 33

ASSUME WhiskerAssumption ==
  /\ Limit \in Nat \ {0}
  /\ Optimizer \in [RuleFields -> [min : Nat, max : Nat, changes : SUBSET Nat, default : Nat]]
-----------------------------------------------------------------------------
(* Ranges.  seen stands for the median estimators of the axes. *)

NewRange(lower, upper) ==
  [lower |-> lower, upper |-> upper, seen |-> [n \in DOMAIN lower |-> {}], count |-> 0]

contains(range, q) ==
  \A n \in DOMAIN q : range.lower[n] <= q[n] /\ q[n] < range.upper[n]

track(range, q) == [range EXCEPT !.seen = [n \in DOMAIN q |-> @[n] \cup {q[n]}]]

range_median(range) ==
  [n \in DOMAIN range.lower |-> (range.lower[n] + range.upper[n]) \div 2]

(* Memory::operator==: _rec_rec_ewma is compared with itself. *)
SameMemory(a, b) == \A n \in DOMAIN a \ {22} : a[n] = b[n]

SameRange(a, b) == SameMemory(a.lower, b.lower) /\ SameMemory(a.upper, b.upper)

(* boost's estimate of a median lies among what it saw; it starts from 0. *)
Medians(range, n) == {0} \cup range.seen[n]

(* Mutant: the upper half starts after the median. *)
HalvesGap(x, n, median) ==
  <<NewRange(x.lower, [x.upper EXCEPT ![n] = median]),
    NewRange([x.lower EXCEPT ![n] = median + 1], x.upper)>>

(* Mutant: the upper half keeps the old lower end. *)
HalvesOverlap(x, n, median) ==
  <<NewRange(x.lower, [x.upper EXCEPT ![n] = median]), x>>

(* The body of bisect's loop over the axes, for one range: split it at the *)
(* median, or at its middle if that would leave the lower half empty, or   *)
(* not at all; the comparison is of whole memories.  The two assertions on *)
(* a range that is not split hold in the code's builds: a range bisected   *)
(* has been used, so that no axis of it is empty before it is cut.         *)
Halves(x, n, median) ==
  LET emptyLower(m) == SameMemory(x.lower, [x.upper EXCEPT ![n] = m])
      at == IF emptyLower(median) THEN (x.lower[n] + x.upper[n]) \div 2 ELSE median
  IN  IF emptyLower(at)
        THEN <<x>>
        ELSE <<NewRange(x.lower, [x.upper EXCEPT ![n] = at]),
               NewRange([x.lower EXCEPT ![n] = at], x.upper)>>

(* That loop, for all ranges; a part of a range has a number for its place. *)
Cut(parts, n, median) ==
  IF n \notin DOMAIN median THEN parts
  ELSE UNION {LET halves == Halves(x.range, n, median[n])
              IN  {[at |-> 2 * x.at + h, range |-> halves[h]] : h \in DOMAIN halves} : x \in parts}

(* MemoryRange::bisect, given the medians of its axes. *)
bisectRange(range, median) ==
  LET whole == {[at |-> 0, range |-> range]}
  IN  Cut(Cut(Cut(Cut(Cut(whole, 21, median), 22, median), 23, median), 24, median), 25, median)
-----------------------------------------------------------------------------
(* Whiskers. *)

NewWhisker(rule, domain) == [generation |-> 0, rule |-> rule, domain |-> domain]

DefaultRule == [f \in RuleFields |-> Optimizer[f].default]

bisectWhisker(w, median) ==
  {[at |-> x.at, whisker |-> [w EXCEPT !.domain = x.range]] : x \in bisectRange(w.domain, median)}

eligible_value(f, value) == Optimizer[f].min <= value /\ value <= Optimizer[f].max

(* OptimizationSetting::alternatives; the value itself is one of them. *)
alternatives(f, value) ==
  {value} \cup {v \in {value + c : c \in Optimizer[f].changes}
                        \cup {value - c : c \in Optimizer[f].changes} : eligible_value(f, v)}

(* next_generation: every combination of alternatives.  round() keeps the  *)
(* values, which are multiples of its 1/10000.                             *)
next_generation(w) ==
  {[w EXCEPT !.generation = @ + 1, !.rule = r] :
     r \in {x \in [RuleFields -> UNION {alternatives(f, w.rule[f]) : f \in RuleFields}] :
              \A f \in RuleFields : x[f] \in alternatives(f, w.rule[f])}}
-----------------------------------------------------------------------------
(* Trees. *)

DefaultTree(build) ==
  LET range == NewRange([n \in build |-> 0], [n \in build |-> Limit])
  IN  [domain |-> [path \in {<<>>} |-> range],
       leaf   |-> [path \in {<<>>} |-> NewWhisker(DefaultRule, range)]]

(* WhiskerTree(whisker, true): a leaf for each part of the whisker. *)
BisectedTree(w, median) ==
  LET ws       == bisectWhisker(w, median)
      children == {<<x.at>> : x \in ws}
      Of(path) == (CHOOSE x \in ws : x.at = path[1]).whisker
  IN  [domain |-> [path \in {<<>>} \cup children |->
                     IF path = <<>> THEN w.domain ELSE Of(path).domain],
       leaf   |-> [path \in children |-> Of(path)]]

(* A path and those to the nodes above it. *)
Above(path) == {SubSeq(path, 1, n) : n \in 0 .. Len(path)}

(* Are these on branches that part, the first at an earlier child? *)
Earlier(a, b) ==
  \E n \in 1 .. Len(a) : /\ n <= Len(b) /\ SubSeq(a, 1, n - 1) = SubSeq(b, 1, n - 1)
                         /\ a[n] < b[n]

(* The nodes that contain q, as all nodes above them do. *)
Holding(t, q) == {path \in DOMAIN t.domain : \A a \in Above(path) : contains(t.domain[a], q)}

(* The result of a search: "none" (null, false), "abort" (an assertion     *)
(* failed), or "found" with the path to the leaf.                          *)
None  == [is |-> "none", path |-> <<>>]
Abort == [is |-> "abort", path |-> <<>>]

(* whisker: of the children that contain q the search goes down the first; *)
(* a node that is no leaf and has no such child fails assert(false).       *)
whisker(t, q) ==
  LET holding == Holding(t, q)
      visited == {path \in holding : \A other \in holding : ~Earlier(other, path)}
      leaves  == visited \cap DOMAIN t.leaf
  IN  IF holding = {} THEN None
      ELSE IF leaves = {} THEN Abort
      ELSE [is |-> "found", path |-> CHOOSE path \in leaves : TRUE]

(* The search of both replace functions, for the leaf of a domain. *)
replaced(t, domain) ==
  LET found == whisker(t, range_median(domain))
  IN  IF found.is = "found" /\ ~SameRange(domain, t.leaf[found.path].domain) THEN Abort ELSE found

PutLeaf(t, path, w) == [domain |-> t.domain, leaf |-> [t.leaf EXCEPT ![path] = w]]

(* A leaf becomes the tree new. *)
Put(t, path, new) ==
  LET Inside(p)   == path \in Above(p)
      Rest(p)     == SubSeq(p, Len(path) + 1, Len(p))
      Paths(f, g) == (DOMAIN f \ {path}) \cup {path \o p : p \in DOMAIN g}
  IN  [domain |-> [p \in Paths(t.domain, new.domain) |->
                     IF Inside(p) THEN new.domain[Rest(p)] ELSE t.domain[p]],
       leaf   |-> [p \in Paths(t.leaf, new.leaf) |->
                     IF Inside(p) THEN new.leaf[Rest(p)] ELSE t.leaf[p]]]

(* reset_counts, promote and reset_generation change every leaf's whisker. *)
reset_counts(t) ==
  [domain |-> t.domain,
   leaf   |-> [p \in DOMAIN t.leaf |-> [t.leaf[p] EXCEPT !.domain.count = 0]]]

reset_generation(t) ==
  [domain |-> t.domain,
   leaf   |-> [p \in DOMAIN t.leaf |-> [t.leaf[p] EXCEPT !.generation = 0]]]

promote(t, g) ==
  [domain |-> t.domain,
   leaf   |-> [p \in DOMAIN t.leaf |-> [t.leaf[p] EXCEPT !.generation = IF @ >= g THEN @ ELSE g]]]

(* most_used: of the leaves used and not past max_generation the one used  *)
(* most, the last of these; the set is empty where the code returns null.  *)
most_used(t, max_generation) ==
  LET Used     == {p \in DOMAIN t.leaf :
                     t.leaf[p].generation <= max_generation /\ t.leaf[p].domain.count > 0}
      Count(p) == t.leaf[p].domain.count
  IN  {p \in Used : \A r \in Used : \/ Count(r) < Count(p)
                                    \/ Count(r) = Count(p) /\ ~Earlier(p, r)}

=============================================================================
