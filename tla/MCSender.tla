------------------------------ MODULE MCSender ------------------------------
EXTENDS Sender

SmallOptimizer ==
  [f \in RuleFields |->
     IF f = 31 THEN [min |-> 1, max |-> 2, changes |-> {1}, default |-> 1]
               ELSE [min |-> 0, max |-> 1, changes |-> {}, default |-> 1]]

ConfigNote == <<[num |-> 4, wire |-> "bytes",
                 val |-> <<[num |-> 81, wire |-> "fixed64", val |-> 1]>>]>>
SmallNotes == {ConfigNote}

SmallBuilds == {{21, 22}, {21, 24}, {21, 25}, {21}}

(* A tree of the build that has no fast average of the receiver's times,   *)
(* split at 1, the upper half of rules with a larger increment.            *)
Split24 ==
  LET t    == BisectedTree(DefaultTree({21, 24}).leaf[<<>>], [n \in {21, 24} |-> 1])
      last == CHOOSE path \in DOMAIN t.leaf : \A other \in DOMAIN t.leaf : ~Earlier(path, other)
  IN  PutLeaf(t, last, [t.leaf[last] EXCEPT !.rule[31] = 2])
SmallFiles == {WriteWhiskerTree({21, 24}, TreeDNA(Split24)) \o ConfigNote}

SmallRules == {DefaultRule}

(* What programs make: every field of the build, or some. *)
Filled(fields) == [Empty EXCEPT !.fields = [n \in fields |-> n % 10]]
Composed(fields) == [Empty EXCEPT !.fields = fields]
Nets(b) == {Filled(DOMAIN NetConfigWire(b)), Filled({3})}

Configured(b) ==
  LET ranges == [n \in ConfigRanges \cap DOMAIN ConfigRangeWire(b) |-> Filled(DOMAIN RangeWire)]
      settings == [n \in 51 .. 53 |-> Filled(41 .. 46)]
  IN  Composed((4 :> Composed(ranges @@ [n \in {81, 82} |-> 1])) @@ (5 :> Composed(settings)) @@
               TreeDNA(BisectedTree(DefaultTree(b).leaf[<<>>], [n \in b |-> 1])).fields)

SmallMessages(k, b) ==
  IF k = "problem"
    THEN {Composed((1 :> Filled({11, 12})) @@ (2 :> <<net, other>>) @@ (3 :> rules)) :
            net \in Nets(b), other \in Nets(b), rules \in {Configured(b), TreeDNA(DefaultTree(b))}}
    ELSE {Composed((32 :> <<Composed((21 :> net) @@ (22 :> <<Filled({11, 12}), Filled({12})>>)),
                            Composed(21 :> other)>>) @@ (33 :> score)) :
            net \in Nets(b), other \in Nets(b), score \in 0 .. 1}
=============================================================================
