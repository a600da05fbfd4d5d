------------------------------ MODULE RemyTree ------------------------------
(***************************************************************************)
(* The life of a tree of rules: Remy trains it (Training), saves it to a   *)
(* file, and a program of the same or of another build, such as the sender *)
(* (sender.cc, if=), loads it and looks rules up in it.  A tree and its    *)
(* parts are converted to and from messages (memory-*.cc, memoryrange.cc,  *)
(* whisker.cc, whiskertree.cc), whose wire format is the module Dna's.     *)
(***************************************************************************)
EXTENDS Training, Dna

CONSTANT Notes  \* what Remy adds to the root: sequences of fields 4 and 5

ASSUME RemyTreeAssumption ==
  \A b \in Builds : \E memory \in {MemoryDefault, MemoryLossSignal, MemoryWithoutSlowRewma} :
    b \subseteq memory
-----------------------------------------------------------------------------
(* Conversion to and from messages. *)

MemoryDNA(mem)   == [Empty EXCEPT !.fields = mem]
RangeDNA(range)  ==
  [Empty EXCEPT !.fields = (11 :> MergeMemory(Empty, MemoryDNA(range.lower)))
                        @@ (12 :> MergeMemory(Empty, MemoryDNA(range.upper)))]
WhiskerDNA(w) ==
  [Empty EXCEPT !.fields = (34 :> MergeMemoryRange(Empty, RangeDNA(w.domain))) @@ w.rule]

(* DNA of the node at a path, with its children in their order. *)
RECURSIVE NodeDNA(_, _)
NodeDNA(t, path) ==
  LET below    == {p \in DOMAIN t.domain : p # <<>> /\ Front(p) = path}
      children == SetToSortSeq({Last(p) : p \in below}, <)
  IN  [Empty EXCEPT !.fields =
         (1 :> MergeMemoryRange(Empty, RangeDNA(t.domain[path]))) @@
         (IF path \in DOMAIN t.leaf
            THEN 3 :> MergeWhisker(Empty, WhiskerDNA(t.leaf[path]))
            ELSE 2 :> [i \in DOMAIN children |->
                         MergeWhiskerTree(Empty, NodeDNA(t, path \o <<children[i]>>))])]

TreeDNA(t) == NodeDNA(t, <<>>)

(* get_val_or_default: a missing limit is a wildcard. *)
MemoryOf(b, is_lower_limit, m) ==
  [n \in b |-> get(m, n, IF is_lower_limit THEN 0 ELSE Limit)]

RangeOf(b, m) == NewRange(MemoryOf(b, TRUE, get(m, 11, Empty)),
                          MemoryOf(b, FALSE, get(m, 12, Empty)))

WhiskerOf(b, m) ==
  NewWhisker([f \in RuleFields |-> get(m, f, 0)], RangeOf(b, get(m, 34, Empty)))

(* The assertions of WhiskerTree(dna). *)
RECURSIVE WellFormed(_)
WellFormed(m) ==
  LET children == get(m, 2, <<>>)
  IN  IF has(m, 3) THEN children = <<>>
      ELSE children # <<>> /\ \A i \in DOMAIN children : WellFormed(children[i])

(* WhiskerTree(dna): the children are numbered as they come. *)
RECURSIVE TreeOf(_, _)
TreeOf(b, m) ==
  LET children   == get(m, 2, <<>>)
      below      == [i \in DOMAIN children |-> TreeOf(b, children[i])]
      Paths(part) == UNION {{<<i>> \o p : p \in DOMAIN below[i][part]} : i \in DOMAIN below}
  IN  [domain |-> [p \in {<<>>} \cup Paths("domain") |->
                     IF p = <<>> THEN RangeOf(b, get(m, 1, Empty))
                                 ELSE below[Head(p)].domain[Tail(p)]],
       leaf   |-> [p \in (IF has(m, 3) THEN {<<>>} ELSE {}) \cup Paths("leaf") |->
                     IF p = <<>> THEN WhiskerOf(b, m.fields[3])
                                 ELSE below[Head(p)].leaf[Tail(p)]]]
-----------------------------------------------------------------------------
VARIABLES
  file,    \* the saved tree on the wire, << >> before the first save
  saved    \* history: the rules saved last, if the tree has them still

vars == <<trainingVars, file, saved>>

Nothing == <<>>

RuleFor(t, q) == t.leaf[whisker(t, q).path].rule
Rules(b, t)   == [q \in Queries(b) |-> RuleFor(t, q)]

Init ==
  /\ TrainingInit
  /\ file = <<>>
  /\ saved = Nothing

(* Remy, outside of this repository, writes the tree's DNA with a note and *)
(* ends.                                                                   *)
Save ==
  /\ status = "running"
  /\ status' = "ended"
  /\ \E note \in Notes : file' = WriteWhiskerTree(build, TreeDNA(tree)) \o note
  /\ saved' = Rules(build, tree)
  /\ UNCHANGED <<build, tree, steps, uses, through, exact>>

(* A program of some build starts with the file; file is no longer needed, *)
(* as what one program does with it is not seen by another.                *)
Load(b) ==
  /\ status = "ended"
  /\ build' = b
  /\ LET m == ReadWhiskerTree(b, Empty, file)
     IN  IF WellFormed(m)
           THEN tree' = TreeOf(b, m) /\ status' = "running"
           ELSE tree' = DefaultTree(b) /\ status' = "aborted"
  /\ through' = through \cup {b}
  /\ file' = <<>>
  /\ UNCHANGED <<steps, uses, exact, saved>>

Next ==
  \/ Replacing /\ saved' = Nothing /\ UNCHANGED file
  \/ Keeping /\ UNCHANGED <<file, saved>>
  \/ Save
  \/ \E b \in Builds : Load(b)

Spec == Init /\ [][Next]_vars
-----------------------------------------------------------------------------
(* A tree read back from its file, notes and all, has the rules it was     *)
(* saved with.                                                             *)
RulesSurviveFile ==
  status = "running" /\ saved # Nothing /\ through = {build} => Rules(build, tree) = saved

=============================================================================
