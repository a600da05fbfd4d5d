------------------------------- MODULE Relay -------------------------------
(***************************************************************************)
(* The messages of problem.proto and answer.proto, which are made of those *)
(* of dna.proto: what Remy's trainer asks of an evaluating process and what*)
(* that answers.  The library is built with them; both programs are outside*)
(* of this repository, and may be of different builds, so that a message   *)
(* passes through programs that do not know all of its fields.             *)
(***************************************************************************)
EXTENDS Dna

CONSTANTS
  RelayBuilds,  \* the builds of the programs
  Made(_, _),   \* messages of a kind that a program of a build makes
  MaxHops       \* bound: how often a message is parsed

Kinds == {"problem", "outcome"}

ASSUME RelayAssumption ==
  /\ \A b \in RelayBuilds : \E memory \in {MemoryDefault, MemoryLossSignal,
                                           MemoryWithoutSlowRewma} : b \subseteq memory
  /\ MaxHops \in Nat
-----------------------------------------------------------------------------
(* answer.proto.  SenderResults: throughput, delay. *)

SenderResultsWire == [n \in {11, 12} |-> "fixed64"]

ReadSenderResults(m, s) == Read(SenderResultsWire, Scalar, m, s)

WriteSenderResults(m) == Write(SenderResultsWire, LAMBDA n, v : <<v>>, m)

MergeSenderResults(to, from) == Merge(Scalar, to, from)

(* ThroughputsDelays: the network, and results of its senders. *)

ThroughputsDelaysWire == [n \in {21, 22} |-> "bytes"]

ReadThroughputsDelays(build, m, s) ==
  Read(ThroughputsDelaysWire,
       LAMBDA n, old, p :
         CASE n = 21 -> ReadNetConfig(build, get(old, n, Empty), p)
           [] n = 22 -> Append(get(old, n, <<>>), ReadSenderResults(Empty, p)), m, s)

WriteThroughputsDelays(build, m) ==
  Write(ThroughputsDelaysWire,
        LAMBDA n, v : CASE n = 21 -> <<WriteNetConfig(build, v)>>
                        [] n = 22 -> [i \in DOMAIN v |-> WriteSenderResults(v[i])], m)

MergeThroughputsDelays(to, from) ==
  Merge(LAMBDA n, old, v :
          CASE n = 21 -> MergeNetConfig(get(old, n, Empty), v)
            [] n = 22 -> get(old, n, <<>>) \o
                           [i \in DOMAIN v |-> MergeSenderResults(Empty, v[i])], to, from)

(* Outcome: one of these for each network, and the score of the rules. *)

OutcomeWire == 32 :> "bytes" @@ 33 :> "fixed64"

ReadOutcome(build, m, s) ==
  Read(OutcomeWire,
       LAMBDA n, old, p :
         CASE n = 32 -> Append(get(old, n, <<>>), ReadThroughputsDelays(build, Empty, p))
           [] n = 33 -> p, m, s)

WriteOutcome(build, m) ==
  Write(OutcomeWire,
        LAMBDA n, v :
          CASE n = 32 -> [i \in DOMAIN v |-> WriteThroughputsDelays(build, v[i])]
            [] n = 33 -> <<v>>, m)

MergeOutcome(to, from) ==
  Merge(LAMBDA n, old, v :
          CASE n = 32 -> get(old, n, <<>>) \o
                           [i \in DOMAIN v |-> MergeThroughputsDelays(Empty, v[i])]
            [] n = 33 -> v, to, from)
-----------------------------------------------------------------------------
(* problem.proto.  ProblemSettings: prng_seed, tick_count. *)

ProblemSettingsWire == [n \in {11, 12} |-> "varint"]

ReadProblemSettings(m, s) == Read(ProblemSettingsWire, Scalar, m, s)

WriteProblemSettings(m) == Write(ProblemSettingsWire, LAMBDA n, v : <<v>>, m)

MergeProblemSettings(to, from) == Merge(Scalar, to, from)

(* Problem: the settings, the networks, and the rules to evaluate. *)

ProblemWire == [n \in 1 .. 3 |-> "bytes"]

ReadProblem(build, m, s) ==
  Read(ProblemWire,
       LAMBDA n, old, p :
         CASE n = 1 -> ReadProblemSettings(get(old, n, Empty), p)
           [] n = 2 -> Append(get(old, n, <<>>), ReadNetConfig(build, Empty, p))
           [] n = 3 -> ReadWhiskerTree(build, get(old, n, Empty), p), m, s)

WriteProblem(build, m) ==
  Write(ProblemWire,
        LAMBDA n, v : CASE n = 1 -> <<WriteProblemSettings(v)>>
                        [] n = 2 -> [i \in DOMAIN v |-> WriteNetConfig(build, v[i])]
                        [] n = 3 -> <<WriteWhiskerTree(build, v)>>, m)

MergeProblem(to, from) ==
  Merge(LAMBDA n, old, v :
          CASE n = 1 -> MergeProblemSettings(get(old, n, Empty), v)
            [] n = 2 -> get(old, n, <<>>) \o
                          [i \in DOMAIN v |-> MergeNetConfig(Empty, v[i])]
            [] n = 3 -> MergeWhiskerTree(get(old, n, Empty), v), to, from)
-----------------------------------------------------------------------------
(* The way of a message. *)

VARIABLES
  kind,
  holder,   \* the build of the program that has the message, or had it last
  sent,     \* is the message on its way?
  message,  \* the program's, or what is on the wire
  hops,     \* how often it was parsed
  origin,   \* history: the build that made it
  original  \* history: the message as it was made

relayVars == <<kind, holder, sent, message, hops, origin, original>>

RelayInit ==
  /\ kind \in Kinds
  /\ holder \in RelayBuilds
  /\ sent = FALSE
  /\ message \in Made(kind, holder)
  /\ hops = 0
  /\ origin = holder
  /\ original = message

(* SerializeToString, of the message or of a CopyFrom of it. *)
Serialize ==
  /\ ~sent /\ sent' = TRUE
  /\ \E m \in {message, CASE kind = "problem" -> MergeProblem(Empty, message)
                          [] kind = "outcome" -> MergeOutcome(Empty, message)} :
       message' = CASE kind = "problem" -> WriteProblem(holder, m)
                    [] kind = "outcome" -> WriteOutcome(holder, m)
  /\ UNCHANGED <<kind, holder, hops, origin, original>>

(* ParseFromString, in a program of build b. *)
Parse(b) ==
  /\ sent /\ sent' = FALSE
  /\ hops < MaxHops /\ hops' = hops + 1
  /\ holder' = b
  /\ message' = CASE kind = "problem" -> ReadProblem(b, Empty, message)
                  [] kind = "outcome" -> ReadOutcome(b, Empty, message)
  /\ UNCHANGED <<kind, origin, original>>

RelayNext == Serialize \/ \E b \in RelayBuilds : Parse(b)
-----------------------------------------------------------------------------
(* A program of the build that made a message gets back all of it, also    *)
(* what the programs in between did not know (unknown_fields).             *)
ForwardedWhole == ~sent /\ holder = origin => message = original

=============================================================================
