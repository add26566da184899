------------------------ MODULE AddFlowBundle_proofs ------------------------
(***************************************************************************)
(* Proofs about FlowBundle, for any flows and any bounds, about shellPipe  *)
(* (ShellPipe), for any pipes and commands, and about AddFlowBundle over   *)
(* both.  The composition implements each of its two parts, so it inherits *)
(* what is proved about them.                                              *)
(***************************************************************************)
EXTENDS AddFlowBundle, SequenceTheorems, FiniteSetTheorems, TLAPS

-----------------------------------------------------------------------------
(* The bundle by itself (FlowBundle) *)

(* Until a flow is rejected, the transaction holds what fn has asked for. *)
Faithful == ~txErr => txFlows = wanted

(* A commit finds no rejected flow, and is the last thing fn does. *)
CommitSound == CommitIsLast /\ committed => ~txErr

BundleSound ==
    bundle.piped => /\ fnState # "running" /\ committed
                    /\ bundle.lines = txFlows

BundleIInv == Faithful /\ CommitSound /\ BundleSound

(* push never takes more flows than it is given, ... *)
LEMMA AcceptedBounds ==
    ASSUME NEW flows \in Seq(Flow)
    PROVE  Accepted(flows) \in 0 .. Len(flows)
<1> DEFINE Prefix == {i \in 1 .. Len(flows) : \A j \in 1 .. i : flows[j] \in Valid}
<1>1. Len(flows) \in Nat
  BY LenProperties
<1>2. IsFiniteSet(1 .. Len(flows)) /\ Cardinality(1 .. Len(flows)) = Len(flows)
  BY <1>1, FS_Interval
<1>3. Prefix \subseteq 1 .. Len(flows)
  OBVIOUS
<1>4. IsFiniteSet(Prefix) /\ Cardinality(Prefix) <= Len(flows)
  BY <1>2, <1>3, FS_Subset
<1>5. Cardinality(Prefix) \in Nat
  BY <1>4, FS_CardinalityType
<1> QED BY <1>1, <1>4, <1>5 DEF Accepted

(* ... and takes all of them if none is invalid. *)
LEMMA AcceptedAll ==
    ASSUME NEW flows \in Seq(Flow), ~Rejects(flows)
    PROVE  Accepted(flows) = Len(flows)
<1>1. Len(flows) \in Nat /\ \A i \in 1 .. Len(flows) : flows[i] \in Valid
  BY ElementOfSeq, LenProperties DEF Flow, Rejects
<1>2. {i \in 1 .. Len(flows) : \A j \in 1 .. i : flows[j] \in Valid} = 1 .. Len(flows)
  BY <1>1
<1>3. Cardinality(1 .. Len(flows)) = Len(flows)
  BY <1>1, FS_Interval
<1> QED BY <1>2, <1>3 DEF Accepted

(* What Add and Delete are called with is a sequence of flows. *)
LEMMA BatchIsSeq == Batch \subseteq Seq(Flow)
<1> SUFFICES ASSUME NEW n \in 0 .. MaxBatch, NEW f \in [1 .. n -> Flow]
             PROVE  f \in Seq(Flow)
  BY DEF Batch
<1>1. n \in Nat
  BY BundleAssumption
<1> QED BY <1>1

(* push makes one directive of each flow. *)
LEMMA DirectivesSeq ==
    ASSUME NEW flows \in Seq(Flow), NEW d \in {"add", "delete"}
    PROVE  /\ Directives(d, flows) \in Seq(Directive)
           /\ Len(Directives(d, flows)) = Len(flows)
<1>1. Len(flows) \in Nat /\ \A i \in 1 .. Len(flows) : flows[i] \in Flow
  BY ElementOfSeq, LenProperties
<1>2. Directives(d, flows) \in [1 .. Len(flows) -> Directive]
  BY <1>1 DEF Directives, Directive
<1> QED BY <1>1, <1>2

(* So a batch without invalid flows gives one directive for each flow. *)
LEMMA PushWhole ==
    ASSUME NEW flows \in Seq(Flow), NEW d \in {"add", "delete"}, ~Rejects(flows)
    PROVE  SubSeq(Directives(d, flows), 1, Accepted(flows)) = Directives(d, flows)
<1>1. Accepted(flows) = Len(Directives(d, flows))
  BY AcceptedAll, DirectivesSeq
<1> QED BY <1>1, DirectivesSeq, SubSeqFull

(* Every call of fn and the end of AddFlowBundle keep the invariant. *)
LEMMA BundleStep == BundleIInv /\ [BundleNext]_bundleVars => BundleIInv'
<1> SUFFICES ASSUME BundleIInv PROVE [BundleNext]_bundleVars => BundleIInv'
  OBVIOUS
<1>0. SUFFICES ASSUME [BundleNext]_bundleVars PROVE BundleIInv'
  OBVIOUS
<1> USE DEF BundleIInv, Faithful, CommitSound, BundleSound, txVars, endVars
<1>1. ASSUME NEW d \in {"add", "delete"}, NEW flows \in Batch, Push(d, flows)
      PROVE  BundleIInv'
  <2>1. ~Rejects(flows) =>
           SubSeq(Directives(d, flows), 1, Accepted(flows)) = Directives(d, flows)
    BY BatchIsSeq, PushWhole
  <2>2. CASE txErr
    BY <1>1, <2>2 DEF Push
  <2>3. CASE ~txErr
    <3>1. push(d, flows)
      BY <1>1, <2>3 DEF Push
    <3>2. Faithful'
      BY <1>1, <2>1, <2>3, <3>1 DEF Push, push
    <3>3. CommitSound' /\ BundleSound'
      BY <1>1, <3>1 DEF Push, push, Running
    <3> QED BY <3>2, <3>3
  <2> QED BY <2>2, <2>3
<1>2. CASE Commit
  BY <1>2 DEF Commit, Running
<1>3. CASE Discard
  BY <1>3 DEF Discard, Running
<1>4. CASE FnReturns
  BY <1>4 DEF FnReturns
<1>5. CASE ReturnEarly
  BY <1>5 DEF ReturnEarly
<1>6. CASE PipeBundle
  BY <1>6 DEF PipeBundle
<1>7. ASSUME NEW failed \in BOOLEAN, ReturnPiped(failed) PROVE BundleIInv'
  BY <1>7 DEF ReturnPiped
<1>8. CASE UNCHANGED bundleVars
  BY <1>8 DEF bundleVars
<1> QED BY <1>0, <1>1, <1>2, <1>3, <1>4, <1>5, <1>6, <1>7, <1>8
        DEF BundleNext, FnNext, Add, Delete

(* If fn returns once Commit has succeeded, a bundle is all or nothing. *)
THEOREM AtomicBundle ==
    ASSUME CommitIsLast
    PROVE  BundleSpec => []AllOrNothing
<1>1. BundleInit => BundleIInv
  BY DEF BundleInit, BundleIInv, Faithful, CommitSound, BundleSound, NoBundle
<1>2. BundleIInv => AllOrNothing
  BY DEF BundleIInv, Faithful, CommitSound, BundleSound, AllOrNothing
<1> QED BY <1>1, <1>2, BundleStep, PTL DEF BundleSpec

(* What push appends are directives. *)
LEMMA PushedSeq ==
    ASSUME NEW flows \in Seq(Flow), NEW d \in {"add", "delete"}
    PROVE  SubSeq(Directives(d, flows), 1, Accepted(flows)) \in Seq(Directive)
<1>1. Accepted(flows) \in 0 .. Len(flows) /\ Len(flows) \in Nat
  BY AcceptedBounds, LenProperties
<1>2. \A i \in 1 .. Accepted(flows) : Directives(d, flows)[i] \in Directive
  BY <1>1, DirectivesSeq, ElementOfSeq
<1> QED BY <1>1, <1>2, SubSeqProperties

(* The transaction and what is piped stay lists of directives, whatever    *)
(* flows fn pushes: a rejected batch leaves a prefix behind, not half a    *)
(* line.                                                                   *)
THEOREM BundleTypes == BundleSpec => []BundleTypeOK
<1>1. BundleInit => BundleTypeOK
  <2>1. <<>> \in Seq(Directive) /\ 0 \in Nat
    OBVIOUS
  <2>2. NoBundle \in Bundle
    BY <2>1, Zenon DEF NoBundle, Bundle
  <2> QED BY <2>1, <2>2, Zenon DEF BundleInit, BundleTypeOK
<1>2. BundleTypeOK /\ [BundleNext]_bundleVars => BundleTypeOK'
  <2> SUFFICES ASSUME BundleTypeOK, [BundleNext]_bundleVars PROVE BundleTypeOK'
    OBVIOUS
  <2> USE DEF BundleTypeOK, txVars, endVars
  <2>1. ASSUME NEW d \in {"add", "delete"}, NEW flows \in Batch, Push(d, flows)
        PROVE  BundleTypeOK'
    <3>1. /\ Directives(d, flows) \in Seq(Directive)
          /\ SubSeq(Directives(d, flows), 1, Accepted(flows)) \in Seq(Directive)
      BY BatchIsSeq, DirectivesSeq, PushedSeq
    <3>2. txFlows' \in Seq(Directive) /\ txErr' \in BOOLEAN
      <4>1. CASE txErr
        BY <2>1, <4>1, Zenon DEF Push
      <4>2. CASE ~txErr
        <5>1. push(d, flows)
          BY <2>1, <4>2, Zenon DEF Push
        <5>2. txFlows' \in Seq(Directive)
          BY <3>1, <5>1 DEF push
        <5>3. txErr' \in BOOLEAN
          BY <5>1, Zenon DEF push, Rejects
        <5> QED BY <5>2, <5>3
      <4> QED BY <4>1, <4>2
    <3>3. wanted' \in Seq(Directive) /\ pushes' \in Nat
      BY <2>1, <3>1 DEF Push
    <3>4. UNCHANGED <<committed, fnState, bundle, result, discards>>
      BY <2>1 DEF Push, push
    <3> QED BY <3>2, <3>3, <3>4, Zenon
  <2>2. CASE Commit
    BY <2>2 DEF Commit
  <2>3. CASE Discard
    BY <2>3 DEF Discard
  <2>4. CASE FnReturns
    BY <2>4 DEF FnReturns
  <2>5. CASE ReturnEarly
    BY <2>5 DEF ReturnEarly
  <2>6. CASE PipeBundle
    BY <2>6 DEF PipeBundle, Bundle
  <2>7. ASSUME NEW failed \in BOOLEAN, ReturnPiped(failed) PROVE BundleTypeOK'
    BY <2>7 DEF ReturnPiped
  <2>8. CASE UNCHANGED bundleVars
    BY <2>8 DEF bundleVars
  <2> QED BY <2>1, <2>2, <2>3, <2>4, <2>5, <2>6, <2>7, <2>8
          DEF BundleNext, FnNext, Add, Delete
<1> QED BY <1>1, <1>2, PTL DEF BundleSpec

-----------------------------------------------------------------------------
(* The pipe by itself (ShellPipe) *)

(* Nothing that the command wrote is lost: it was read, or is in a pipe. *)
Conserved == got + outPipe + errPipe = wroteOut + wroteErr

(* An end of file is seen only on an empty pipe that nobody writes to. *)
Drained ==
    /\ pc \in {"stderr", "wait"} => Exited /\ outPipe = 0
    /\ pc = "wait" => errPipe = 0
    /\ pipeResult \in {"ok", "exitError"} =>
          pc = "returned" /\ Exited /\ outPipe = 0 /\ errPipe = 0

(* A write that the command has begun is within its bound. *)
Writing ==
    /\ child = "toStdout" => wroteOut < MaxOut
    /\ child = "toStderr" => wroteErr < MaxErr

PipeIInv == PipeTypeOK /\ Writing /\ Conserved /\ Drained

(* Every step of shellPipe and of the command keeps every variable in its  *)
(* type; in particular no pipe holds more than its capacity.               *)
LEMMA PipeTypeStep == PipeTypeOK /\ Writing /\ [PipeNext]_pipeVars => (PipeTypeOK /\ Writing)'
<1> SUFFICES ASSUME PipeTypeOK, Writing, [PipeNext]_pipeVars PROVE (PipeTypeOK /\ Writing)'
  OBVIOUS
<1> USE PipeAssumption DEF PipeTypeOK, Writing, parentVars, childVars
<1>18. ASSUME NEW n \in Nat, Call(n) PROVE (PipeTypeOK /\ Writing)'
  BY <1>18 DEF Call
<1>1. CASE StartFails BY <1>1 DEF StartFails
<1>2. CASE Start BY <1>2 DEF Start
<1>3. CASE Copy BY <1>3 DEF Copy
<1>4. CASE CopyFails BY <1>4 DEF CopyFails
<1>5. CASE CopyDone BY <1>5 DEF CopyDone
<1>6. CASE CloseStdin BY <1>6 DEF CloseStdin
<1>7. CASE ReadStdout BY <1>7 DEF ReadStdout
<1>8. CASE StdoutEnds BY <1>8 DEF StdoutEnds
<1>9. CASE ReadStderr BY <1>9 DEF ReadStderr
<1>10. CASE StderrEnds BY <1>10 DEF StderrEnds
<1>11. CASE Wait BY <1>11 DEF Wait
<1>12. CASE ChildReads BY <1>12 DEF ChildReads
<1>13. CASE ChildStartsWrite BY <1>13 DEF ChildStartsWrite
<1>14. CASE ChildWritesOut BY <1>14 DEF ChildWritesOut
<1>15. CASE ChildWritesErr BY <1>15 DEF ChildWritesErr
<1>16. CASE ChildExits BY <1>16 DEF ChildExits
<1>19. CASE CloseStdinFails BY <1>19 DEF CloseStdinFails
<1>20. CASE ReadFails BY <1>20 DEF ReadFails
<1>17. CASE UNCHANGED pipeVars BY <1>17 DEF pipeVars
<1> QED BY <1>1, <1>2, <1>3, <1>4, <1>5, <1>6, <1>7, <1>8, <1>9, <1>10, <1>11,
           <1>12, <1>13, <1>14, <1>15, <1>16, <1>17, <1>18, <1>19, <1>20
      DEF PipeNext, Parent, ParentWorks, Errors, Child

(* Every step moves chunks from one place to the next, and shellPipe goes  *)
(* past a pipe only when it is empty for good.                             *)
LEMMA DrainStep == PipeIInv /\ [PipeNext]_pipeVars => (Conserved /\ Drained)'
<1> SUFFICES ASSUME PipeIInv, [PipeNext]_pipeVars PROVE (Conserved /\ Drained)'
  OBVIOUS
<1>0. /\ got \in Nat /\ outPipe \in Nat /\ errPipe \in Nat
      /\ wroteOut \in Nat /\ wroteErr \in Nat
  BY PipeAssumption DEF PipeIInv, PipeTypeOK
<1> USE <1>0 DEF PipeIInv, PipeTypeOK, Conserved, Drained, Exited, parentVars, childVars
<1>18. ASSUME NEW n \in Nat, Call(n) PROVE (Conserved /\ Drained)'
  BY <1>18 DEF Call
<1>1. CASE StartFails BY <1>1 DEF StartFails
<1>2. CASE Start BY <1>2 DEF Start
<1>3. CASE Copy BY <1>3 DEF Copy
<1>4. CASE CopyFails BY <1>4 DEF CopyFails
<1>5. CASE CopyDone BY <1>5 DEF CopyDone
<1>6. CASE CloseStdin BY <1>6 DEF CloseStdin
<1>7. CASE ReadStdout BY <1>7 DEF ReadStdout
<1>8. CASE StdoutEnds BY <1>8 DEF StdoutEnds
<1>9. CASE ReadStderr BY <1>9 DEF ReadStderr
<1>10. CASE StderrEnds BY <1>10 DEF StderrEnds
<1>11. CASE Wait BY <1>11 DEF Wait
<1>12. CASE ChildReads BY <1>12 DEF ChildReads
<1>13. CASE ChildStartsWrite BY <1>13 DEF ChildStartsWrite
<1>14. CASE ChildWritesOut BY <1>14 DEF ChildWritesOut
<1>15. CASE ChildWritesErr BY <1>15 DEF ChildWritesErr
<1>16. CASE ChildExits BY <1>16 DEF ChildExits
<1>19. CASE CloseStdinFails BY <1>19 DEF CloseStdinFails
<1>20. CASE ReadFails BY <1>20 DEF ReadFails
<1>17. CASE UNCHANGED pipeVars BY <1>17 DEF pipeVars
<1> QED BY <1>1, <1>2, <1>3, <1>4, <1>5, <1>6, <1>7, <1>8, <1>9, <1>10, <1>11,
           <1>12, <1>13, <1>14, <1>15, <1>16, <1>17, <1>18, <1>19, <1>20
      DEF PipeNext, Parent, ParentWorks, Errors, Child

(* shellPipe starts with empty pipes. *)
LEMMA PipeInitIInv == PipeInit => PipeIInv
<1> SUFFICES ASSUME PipeInit PROVE PipeIInv
  OBVIOUS
<1> USE DEF PipeInit
<1>1. PipeTypeOK
  <2>1. 0 \in 0 .. PipeCap /\ 0 \in 0 .. MaxOut
        /\ 0 \in 0 .. MaxErr /\ 0 \in Nat
    BY PipeAssumption
  <2> QED BY <2>1, Zenon DEF PipeTypeOK
<1>2. Writing /\ Conserved
  BY DEF Writing, Conserved
<1>3. Drained
  BY DEF Drained
<1> QED BY <1>1, <1>2, <1>3 DEF PipeIInv

(* The invariant that all the results about shellPipe rest on. *)
LEMMA PipeInvariant == PipeSpec => []PipeIInv
<1>1. PipeIInv /\ [PipeNext]_pipeVars => PipeIInv'
  BY PipeTypeStep, DrainStep DEF PipeIInv
<1> QED BY <1>1, PipeInitIInv, PTL DEF PipeSpec

(* No pipe ever holds more than it can, and the command stays within its   *)
(* bounds, for a bundle of any length.                                     *)
THEOREM PipeTypes == PipeSpec => []PipeTypeOK
<1>1. PipeIInv => PipeTypeOK
  BY DEF PipeIInv
<1> QED BY <1>1, PipeInvariant, PTL

(* Whenever shellPipe has waited for the command, with success or not, it  *)
(* returns all that the command wrote to stdout and to stderr.             *)
THEOREM NoOutputLost == PipeSpec => []OutputComplete
<1>1. PipeIInv => OutputComplete
  BY PipeAssumption DEF PipeIInv, PipeTypeOK, Conserved, Drained, OutputComplete
<1> QED BY <1>1, PipeInvariant, PTL

-----------------------------------------------------------------------------
(* The composition *)

(* Every step of the composition is a step of the part it belongs to. *)
LEMMA BundlePart == [Next]_vars => [BundleNext]_bundleVars
BY DEF Next, vars, BundleNext, Function, PipeStarts, PipeEnds, ShellStep, CommandStep

(* Only PipeStarts calls shellPipe, with as many chunks as there are lines. *)
LEMMA PipePart == BundleTypeOK /\ [Next]_vars => [PipeNext]_pipeVars
<1> SUFFICES ASSUME BundleTypeOK, [Next]_vars PROVE [PipeNext]_pipeVars
  OBVIOUS
<1>1. CASE PipeStarts
  <2>1. Len(txFlows) \in Nat
    BY LenProperties DEF BundleTypeOK
  <2> QED BY <1>1, <2>1 DEF PipeStarts, PipeNext
<1>2. CASE ShellStep \/ CommandStep
  BY <1>2 DEF ShellStep, CommandStep, PipeNext
<1>3. CASE Function \/ PipeEnds \/ UNCHANGED vars
  BY <1>3 DEF Function, PipeEnds, vars
<1> QED BY <1>1, <1>2, <1>3 DEF Next

(* AddFlowBundle does with its transaction what FlowBundle allows, ... *)
THEOREM ImplementsBundle == Spec => BundleSpec
<1>1. Init => BundleInit
  BY DEF Init
<1> QED BY <1>1, BundlePart, PTL DEF Spec, BundleSpec

(* ... and with the command what ShellPipe allows. *)
THEOREM ImplementsPipe == Spec => PipeSpec
<1>1. Init => PipeInit
  BY DEF Init
<1> QED BY <1>1, ImplementsBundle, BundleTypes, PipePart, PTL DEF Spec, PipeSpec

(* Every variable of AddFlowBundle and its pipe keeps its type. *)
THEOREM Types == Spec => []TypeOK
<1>1. BundleTypeOK /\ PipeTypeOK => TypeOK
  BY DEF TypeOK
<1> QED BY <1>1, ImplementsBundle, ImplementsPipe, BundleTypes, PipeTypes, PTL

(* What AddFlowBundle pipes to ovs-ofctl is all that fn wanted, or nothing. *)
THEOREM AtomicOverPipe ==
    ASSUME CommitIsLast
    PROVE  Spec => []AllOrNothing
BY ImplementsBundle, AtomicBundle, PTL

(* What ovs-ofctl prints reaches the error or the debug log as a whole. *)
THEOREM OutputOverPipe == Spec => []OutputComplete
BY ImplementsPipe, NoOutputLost, PTL

-----------------------------------------------------------------------------
(* The command succeeds only when it has read all its input, and shellPipe *)
(* returns what became of it unless it gives up.                           *)
CommandSound ==
    /\ pc \in {"idle", "start"} => child = "none"
    /\ pc \in {"idle", "start", "copy", "close"} => ~inClosed
    /\ pc = "close" \/ inClosed => toCopy = 0
    /\ child = "ok" => inClosed /\ inPipe = 0
    /\ pc # "returned" => pipeResult = "none"
    /\ pc = "returned" /\ ~GivenUp => /\ child = "none" \/ Exited
                                      /\ pipeResult = "ok" <=> child = "ok"

(* AddFlowBundle calls shellPipe once, and returns what it returned. *)
Linked ==
    /\ result # "none" => fnState # "running"
    /\ ~bundle.piped => pc = "idle" /\ result \notin {"ok", "pipeError"}
    /\ ~bundle.piped /\ result # "none" => ~(fnState = "nil" /\ committed)
    /\ bundle.piped => fnState = "nil" /\ committed
    /\ bundle.piped /\ result # "none" =>
          /\ pc = "returned" /\ result \in {"ok", "pipeError"}
          /\ result = "ok" <=> pipeResult = "ok"

(* Every step of shellPipe and of the command keeps that. *)
LEMMA CommandStepSound ==
    PipeIInv /\ CommandSound /\ [PipeNext]_pipeVars => CommandSound'
<1> SUFFICES ASSUME PipeIInv, CommandSound, [PipeNext]_pipeVars PROVE CommandSound'
  OBVIOUS
<1>0. /\ pc \in {"stderr", "wait"} => Exited
      /\ toCopy \in Nat /\ inPipe \in Nat
      /\ child \in {"none", "busy", "toStdout", "toStderr", "ok", "failed"}
  BY PipeAssumption DEF PipeIInv, Drained, PipeTypeOK
<1> USE <1>0 DEF CommandSound, GivenUp, Exited, parentVars, childVars
<1>1. ASSUME NEW n \in Nat, Call(n) PROVE CommandSound'
  BY <1>1 DEF Call
<1>2. CASE StartFails BY <1>2 DEF StartFails
<1>3. CASE Start BY <1>3 DEF Start
<1>4. CASE Copy BY <1>4 DEF Copy
<1>5. CASE CopyFails BY <1>5 DEF CopyFails
<1>6. CASE CopyDone BY <1>6 DEF CopyDone
<1>7. CASE CloseStdin BY <1>7 DEF CloseStdin
<1>8. CASE ReadStdout BY <1>8 DEF ReadStdout
<1>9. CASE StdoutEnds BY <1>9 DEF StdoutEnds
<1>10. CASE ReadStderr BY <1>10 DEF ReadStderr
<1>11. CASE StderrEnds BY <1>11 DEF StderrEnds
<1>12. CASE Wait BY <1>12 DEF Wait
<1>13. CASE ChildReads BY <1>13 DEF ChildReads
<1>14. CASE ChildStartsWrite BY <1>14 DEF ChildStartsWrite
<1>15. CASE ChildWritesOut BY <1>15 DEF ChildWritesOut
<1>16. CASE ChildWritesErr BY <1>16 DEF ChildWritesErr
<1>17. CASE ChildExits BY <1>17 DEF ChildExits
<1>19. CASE CloseStdinFails BY <1>19 DEF CloseStdinFails
<1>20. CASE ReadFails BY <1>20 DEF ReadFails
<1>18. CASE UNCHANGED pipeVars BY <1>18 DEF pipeVars
<1> QED BY <1>1, <1>2, <1>3, <1>4, <1>5, <1>6, <1>7, <1>8, <1>9, <1>10, <1>11,
           <1>12, <1>13, <1>14, <1>15, <1>16, <1>17, <1>18, <1>19, <1>20
      DEF PipeNext, Parent, ParentWorks, Errors, Child

(* Once shellPipe has returned, its result stands. *)
LEMMA ResultStands ==
    pc = "returned" /\ [PipeNext]_pipeVars => UNCHANGED <<pc, pipeResult>>
<1> SUFFICES ASSUME pc = "returned", [PipeNext]_pipeVars
             PROVE  UNCHANGED <<pc, pipeResult>>
  OBVIOUS
<1>1. CASE Child \/ UNCHANGED pipeVars
  BY <1>1 DEF pipeVars, parentVars, Child, ChildReads, ChildStartsWrite,
              ChildWritesOut, ChildWritesErr, ChildExits
<1>2. ~Parent /\ \A n \in Nat : ~Call(n)
  BY DEF Parent, ParentWorks, Errors, Call, StartFails, Start, Copy, CopyFails, CopyDone,
         CloseStdin, CloseStdinFails, ReadStdout, StdoutEnds, ReadStderr, StderrEnds,
         ReadFails, Wait
<1> QED BY <1>1, <1>2 DEF PipeNext

(* Every step of AddFlowBundle keeps the two together. *)
LEMMA LinkedStep ==
    PipeTypeOK /\ Linked /\ [Next]_vars /\ [PipeNext]_pipeVars => Linked'
<1> SUFFICES ASSUME PipeTypeOK, Linked, [Next]_vars, [PipeNext]_pipeVars PROVE Linked'
  OBVIOUS
<1> USE DEF Linked
<1>1. CASE Function
  <2>1. UNCHANGED <<pc, pipeResult>>
    BY <1>1 DEF Function, pipeVars, parentVars
  <2>2. CASE Add \/ Delete \/ Commit \/ Discard
    <3>1. fnState = "running" /\ UNCHANGED <<fnState, bundle, result>>
      BY <2>2 DEF Add, Delete, Push, Commit, Discard, Running, endVars
    <3> QED BY <2>1, <3>1
  <2>3. CASE FnReturns
    BY <2>1, <2>3 DEF FnReturns, endVars
  <2>4. CASE ReturnEarly
    BY <2>1, <2>4 DEF ReturnEarly, txVars
  <2> QED BY <1>1, <2>2, <2>3, <2>4 DEF Function, FnNext
<1>2. CASE PipeStarts
  BY <1>2 DEF PipeStarts, PipeBundle, Call, txVars
<1>3. CASE PipeEnds
  BY <1>3 DEF PipeEnds, ReturnPiped, txVars, pipeVars, parentVars
<1>4. CASE ShellStep \/ CommandStep
  <2>1. UNCHANGED <<bundle, result, fnState, committed>> /\ (Parent \/ Child)
    BY <1>4 DEF ShellStep, CommandStep, bundleVars, txVars, endVars
  <2>2. CASE pc = "returned"
    BY <2>1, <2>2, ResultStands
  <2>3. CASE pc = "idle"
    <3>1. ~Parent
      BY <2>3 DEF Parent, ParentWorks, Errors, StartFails, Start, Copy, CopyFails, CopyDone,
                  CloseStdin, CloseStdinFails, ReadStdout, StdoutEnds, ReadStderr,
                  StderrEnds, ReadFails, Wait
    <3>2. pc' = pc
      BY <2>1, <3>1 DEF parentVars, Child, ChildReads, ChildStartsWrite,
                        ChildWritesOut, ChildWritesErr, ChildExits
    <3> QED BY <2>1, <2>3, <3>2
  <2>4. CASE pc \notin {"idle", "returned"}
    BY <2>1, <2>4
  <2> QED BY <2>2, <2>3, <2>4
<1>5. CASE UNCHANGED vars
  BY <1>5 DEF vars, bundleVars, txVars, endVars, pipeVars, parentVars
<1> QED BY <1>1, <1>2, <1>3, <1>4, <1>5 DEF Next

(* If fn returns once Commit has succeeded, AddFlowBundle returns nil only *)
(* when ovs-ofctl has read and accepted all that fn wanted, and an error   *)
(* only when it has not, or shellPipe gave up on it.                       *)
THEOREM Delivered ==
    ASSUME CommitIsLast
    PROVE  Spec => []BundleDelivered
<1>1. Init => CommandSound /\ Linked
  BY DEF Init, BundleInit, NoBundle, PipeInit, CommandSound, Linked
<1>2. AllOrNothing /\ CommandSound /\ Linked => BundleDelivered
  BY DEF AllOrNothing, CommandSound, GivenUp, Exited, Linked, BundleDelivered
<1>3. PipeIInv => PipeTypeOK
  BY DEF PipeIInv
<1> QED
  BY <1>1, <1>2, <1>3, CommandStepSound, LinkedStep, PipePart, PipeInvariant, BundleTypes,
     ImplementsBundle, ImplementsPipe, AtomicOverPipe, PTL DEF Spec
=============================================================================
