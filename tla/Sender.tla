------------------------------- MODULE Sender -------------------------------
(***************************************************************************)
(* The programs that use RemyCC's rules: Remy, which trains a tree and     *)
(* saves it (RemyTree), the processes it has them evaluated by (Relay), and*)
(* this repository's sender (sender.cc), which loads a tree, or runs TCP,  *)
(* and whose RemyCC looks its memory up in it (Controllers).  A build of   *)
(* the sender with the loss signal keeps one more memory (LossMemory).  A  *)
(* behaviour is about one of these; the sender's tree may have been written*)
(* by another build.                                                       *)
(***************************************************************************)
EXTENDS RemyTree, Controllers, LossMemory, Relay

CONSTANTS
  SenderBuild,  \* the build of the sender, without loss_rate
  SenderFiles   \* files of rules it may be given

ASSUME SenderAssumption ==
  /\ SenderBuild \subseteq MemoryDefault
  /\ SignalLimit = Limit

VARIABLE program

senderVars == <<vars, ccVars, lossVars, relayVars, program>>

(* The signals of a memory, by field. *)
Signals(mem, b) ==
  [n \in b |-> CASE n = 21 -> mem.rec_send_ewma
                 [] n = 23 -> mem.rtt_ratio
                 [] OTHER  -> mem.rec_rec_ewma]

(* use_whisker of Rat: the rule of the leaf found, or none. *)
RuleOf(t, mem) ==
  LET found == whisker(t, Signals(mem, build))
  IN  IF found.is = "found" THEN {t.leaf[found.path].rule} ELSE {}

(* sender.cc, if=: the file is read and has to be a tree. *)
LoadRules ==
  \E f \in SenderFiles :
    LET m == ReadWhiskerTree(build, Empty, f)
    IN  WellFormed(m) /\ tree = TreeOf(build, m)

(* The state of the programs a behaviour is not about. *)
NoTraining ==
  /\ file = <<>> /\ status = "ended" /\ steps = 0 /\ uses = 0 /\ saved = Nothing
  /\ through = Builds /\ exact = TRUE

NoRelay ==
  /\ kind = "outcome" /\ sent = TRUE /\ message = <<>> /\ hops = MaxHops
  /\ holder = {} /\ origin = {} /\ original = Empty

NoSender == CCStart /\ cctype = "remy"

NoLossMemory == LossInit

SenderInit ==
  \/ program = "trainer" /\ Init /\ NoSender /\ NoLossMemory /\ NoRelay
  \/ /\ program = "sender" /\ CCStart
     /\ build = SenderBuild
     /\ IF cctype = "remy" THEN LoadRules ELSE tree = DefaultTree(build)
     /\ NoTraining /\ NoLossMemory /\ NoRelay
  \/ /\ program = "evaluator" /\ RelayInit
     /\ build = SenderBuild /\ tree = DefaultTree(build)
     /\ NoTraining /\ NoSender /\ NoLossMemory
  \/ /\ program = "loss memory" /\ LossInit
     /\ build = SenderBuild /\ tree = DefaultTree(build)
     /\ NoTraining /\ NoSender /\ NoRelay

SenderNext ==
  \/ program = "trainer" /\ Next /\ UNCHANGED <<ccVars, lossVars, relayVars, program>>
  \/ /\ program = "sender"
     /\ \/ CCCalls
        \/ \E e \in Arriving : \E mem \in Memories(e) : RecvAck(e, mem, RuleOf(tree, mem))
     /\ UNCHANGED <<vars, lossVars, relayVars, program>>
  \/ program = "evaluator" /\ RelayNext /\ UNCHANGED <<vars, ccVars, lossVars, program>>
  \/ program = "loss memory" /\ LossNext /\ UNCHANGED <<vars, ccVars, relayVars, program>>

SenderSpec == SenderInit /\ [][SenderNext]_senderVars
-----------------------------------------------------------------------------
(* Neither a program in between nor a file loses a message's content: the  *)
(* rules are read as they were saved, and a forwarded problem or outcome   *)
(* comes back whole to the build that made it (the generated parsers,      *)
(* serialisers and MergeFroms).                                            *)
MessagesSurvive == RulesSurviveFile /\ ForwardedWhole

=============================================================================
