-------------------------------- MODULE Dna --------------------------------
(***************************************************************************)
(* The messages of dna.proto as protoc generated them (dna.pb.cc), in      *)
(* which RemyCC's rules are kept in a file.                                *)
(*                                                                         *)
(* A message is the partial function of its fields that are set and the    *)
(* sequence of what its reader did not know.  On the wire it is a sequence *)
(* of fields: number, wire type and either a scalar or, for a message      *)
(* within it, another such sequence.  Sizes and bytes are left out.        *)
(*                                                                         *)
(* The three builds of RemyCC differ in the fields of Memory; the default  *)
(* one also has drop rates.  The generated code of the two others is in the*)
(* repository; the default build generates its own from                    *)
(* protobufs-default/dna.proto.                                            *)
(***************************************************************************)
EXTENDS Integers, Sequences, SequencesExt

Empty == [fields |-> <<>>, unknown |-> <<>>]

has(m, n) == n \in DOMAIN m.fields
get(m, n, default) == IF has(m, n) THEN m.fields[n] ELSE default
set(m, n, v) == [m EXCEPT !.fields = (n :> v) @@ @]

(* The tag loop of every MergePartialFromCodedStream: a field of the class *)
(* with the wire type of its kind goes to Sub(number, message, payload),   *)
(* all others are kept as unknown.                                         *)
Read(wire, Sub(_, _, _), m, s) ==
  LET Field(msg, t) ==
        IF t.num \in DOMAIN wire /\ wire[t.num] = t.wire
          THEN set(msg, t.num, Sub(t.num, msg, t.val))
          ELSE [msg EXCEPT !.unknown = Append(@, t)]
  IN  FoldLeft(Field, m, s)

(* SerializeWithCachedSizes: the fields that are set, by number, then the  *)
(* unknown ones.  Payloads(number, value) has one payload, or one for each *)
(* element of a repeated field.                                            *)
Write(wire, Payloads(_, _), m) ==
  LET Tokens(n) == LET p == Payloads(n, m.fields[n])
                   IN  [i \in DOMAIN p |-> [num |-> n, wire |-> wire[n], val |-> p[i]]]
      numbers   == SetToSortSeq(DOMAIN m.fields, <)
  IN  FlattenSeq([i \in DOMAIN numbers |-> Tokens(numbers[i])]) \o m.unknown

(* MergeFrom: Sub(number, message, value) for every field set in from. *)
Merge(Sub(_, _, _), to, from) ==
  [fields  |-> [n \in DOMAIN to.fields \cup DOMAIN from.fields |->
                  IF has(from, n) THEN Sub(n, to, from.fields[n]) ELSE to.fields[n]],
   unknown |-> to.unknown \o from.unknown]

Scalar(n, m, v) == v
-----------------------------------------------------------------------------
(* Memory: doubles.  One field differs between the builds. *)

MemoryDefault          == {21, 22, 23, 24} \* slow_rec_rec_ewma
MemoryLossSignal       == {21, 22, 23, 25} \* loss_rate
MemoryWithoutSlowRewma == {21, 22, 23}

MemoryWire(build) == [n \in build |-> "fixed64"]

ReadMemory(build, m, s) == Read(MemoryWire(build), Scalar, m, s)

WriteMemory(build, m) == Write(MemoryWire(build), LAMBDA n, v : <<v>>, m)

MergeMemory(to, from) == Merge(Scalar, to, from)

(* MemoryRange: lower and upper. *)

MemoryRangeWire == [n \in {11, 12} |-> "bytes"]

ReadMemoryRange(build, m, s) ==
  Read(MemoryRangeWire,
       LAMBDA n, old, p : ReadMemory(build, get(old, n, Empty), p), m, s)

WriteMemoryRange(build, m) ==
  Write(MemoryRangeWire, LAMBDA n, v : <<WriteMemory(build, v)>>, m)

MergeMemoryRange(to, from) ==
  Merge(LAMBDA n, old, v : MergeMemory(get(old, n, Empty), v), to, from)

(* Whisker: window_increment, window_multiple, intersend, domain. *)

WhiskerWire == [n \in 31 .. 34 |-> CASE n = 31 -> "varint"
                                     [] n = 34 -> "bytes"
                                     [] OTHER  -> "fixed64"]

(* Mutant: window_increment is expected as a double. *)
ReadWhiskerDoubles(build, m, s) ==
  Read([WhiskerWire EXCEPT ![31] = "fixed64"],
       LAMBDA n, old, p : IF n = 34 THEN ReadMemoryRange(build, get(old, n, Empty), p)
                                    ELSE p, m, s)

ReadWhisker(build, m, s) ==
  Read(WhiskerWire,
       LAMBDA n, old, p : IF n = 34 THEN ReadMemoryRange(build, get(old, n, Empty), p)
                                    ELSE p, m, s)

WriteWhisker(build, m) ==
  Write(WhiskerWire,
        LAMBDA n, v : <<IF n = 34 THEN WriteMemoryRange(build, v) ELSE v>>, m)

MergeWhisker(to, from) ==
  Merge(LAMBDA n, old, v : IF n = 34 THEN MergeMemoryRange(get(old, n, Empty), v)
                                     ELSE v, to, from)

(* OptimizationSetting: six doubles.  OptimizationSettings: one for each   *)
(* of the increment, the multiple and the intersend time.                  *)

OptimizationSettingWire == [n \in 41 .. 46 |-> "fixed64"]

ReadOptimizationSetting(m, s) == Read(OptimizationSettingWire, Scalar, m, s)

WriteOptimizationSetting(m) ==
  Write(OptimizationSettingWire, LAMBDA n, v : <<v>>, m)

MergeOptimizationSetting(to, from) == Merge(Scalar, to, from)

OptimizationSettingsWire == [n \in 51 .. 53 |-> "bytes"]

ReadOptimizationSettings(m, s) ==
  Read(OptimizationSettingsWire,
       LAMBDA n, old, p : ReadOptimizationSetting(get(old, n, Empty), p), m, s)

WriteOptimizationSettings(m) ==
  Write(OptimizationSettingsWire, LAMBDA n, v : <<WriteOptimizationSetting(v)>>, m)

MergeOptimizationSettings(to, from) ==
  Merge(LAMBDA n, old, v : MergeOptimizationSetting(get(old, n, Empty), v), to, from)

(* Range: low and high.  ConfigRange: the ranges of link rate, rtt, senders*)
(* and link limit (71 to 74), the mean off and on durations (81, 82), and  *)
(* the range of the drop rate (83) in the default build.                   *)

RangeWire == [n \in {61, 62} |-> "fixed64"]

ReadRange(m, s) == Read(RangeWire, Scalar, m, s)

WriteRange(m) == Write(RangeWire, LAMBDA n, v : <<v>>, m)

MergeRange(to, from) == Merge(Scalar, to, from)

HasDropRate(build) == build \ MemoryLossSignal # {}

ConfigRanges == 71 .. 74 \cup {83}
ConfigRangeWire(build) ==
  [n \in 71 .. 74 \cup {81, 82} \cup (IF HasDropRate(build) THEN {83} ELSE {}) |->
     IF n \in ConfigRanges THEN "bytes" ELSE "fixed64"]

ReadConfigRange(build, m, s) ==
  Read(ConfigRangeWire(build),
       LAMBDA n, old, p : IF n \in ConfigRanges THEN ReadRange(get(old, n, Empty), p)
                                                ELSE p, m, s)

WriteConfigRange(build, m) ==
  Write(ConfigRangeWire(build),
        LAMBDA n, v : <<IF n \in ConfigRanges THEN WriteRange(v) ELSE v>>, m)

MergeConfigRange(to, from) ==
  Merge(LAMBDA n, old, v : IF n \in ConfigRanges THEN MergeRange(get(old, n, Empty), v)
                                                 ELSE v, to, from)

(* NetConfig: one network; its drop rate (7) is the default build's too.   *)

NetConfigWire(build) ==
  [n \in 1 .. 6 \cup (IF HasDropRate(build) THEN {7} ELSE {}) |->
     IF n \in {3, 6} THEN "varint" ELSE "fixed64"]

ReadNetConfig(build, m, s) == Read(NetConfigWire(build), Scalar, m, s)

WriteNetConfig(build, m) == Write(NetConfigWire(build), LAMBDA n, v : <<v>>, m)

(* Mutant: what was not known is not merged. *)
MergeNetConfigKnown(to, from) == [Merge(Scalar, to, from) EXCEPT !.unknown = to.unknown]

MergeNetConfig(to, from) == Merge(Scalar, to, from)
-----------------------------------------------------------------------------
(* WhiskerTree: domain, children (repeated), leaf, config, optimizer. *)

WhiskerTreeWire == [n \in 1 .. 5 |-> "bytes"]

RECURSIVE ReadWhiskerTree(_, _, _)
ReadWhiskerTree(build, m, s) ==
  Read(WhiskerTreeWire,
       LAMBDA n, old, p :
         CASE n = 1 -> ReadMemoryRange(build, get(old, n, Empty), p)
           [] n = 2 -> Append(get(old, n, <<>>), ReadWhiskerTree(build, Empty, p))
           [] n = 3 -> ReadWhisker(build, get(old, n, Empty), p)
           [] n = 4 -> ReadConfigRange(build, get(old, n, Empty), p)
           [] n = 5 -> ReadOptimizationSettings(get(old, n, Empty), p), m, s)

RECURSIVE WriteWhiskerTree(_, _)
WriteWhiskerTree(build, m) ==
  Write(WhiskerTreeWire,
        LAMBDA n, v :
          CASE n = 1 -> <<WriteMemoryRange(build, v)>>
            [] n = 2 -> [i \in DOMAIN v |-> WriteWhiskerTree(build, v[i])]
            [] n = 3 -> <<WriteWhisker(build, v)>>
            [] n = 4 -> <<WriteConfigRange(build, v)>>
            [] n = 5 -> <<WriteOptimizationSettings(v)>>, m)

RECURSIVE MergeWhiskerTree(_, _)
MergeWhiskerTree(to, from) ==
  Merge(LAMBDA n, old, v :
          CASE n = 1 -> MergeMemoryRange(get(old, n, Empty), v)
            [] n = 2 -> get(old, n, <<>>) \o
                          [i \in DOMAIN v |-> MergeWhiskerTree(Empty, v[i])]
            [] n = 3 -> MergeWhisker(get(old, n, Empty), v)
            [] n = 4 -> MergeConfigRange(get(old, n, Empty), v)
            [] n = 5 -> MergeOptimizationSettings(get(old, n, Empty), v), to, from)

=============================================================================
