---------------------------- MODULE AddFlowBundle ----------------------------
(***************************************************************************)
(* AddFlowBundle over Client.pipe and shellPipe (ovs/openflow.go and       *)
(* ovs/client.go): the transaction of FlowBundle goes to the command of    *)
(* ShellPipe, one chunk for each line, and what shellPipe returns is what  *)
(* AddFlowBundle returns.                                                  *)
(***************************************************************************)
EXTENDS FlowBundle, ShellPipe

vars == <<bundleVars, pipeVars>>

TypeOK == BundleTypeOK /\ PipeTypeOK

Init == BundleInit /\ PipeInit

(* fn runs, or AddFlowBundle returns without a command. *)
Function == FnNext /\ UNCHANGED pipeVars

(* The lines are joined, and pipe calls shellPipe with them. *)
PipeStarts == PipeBundle /\ Call(Len(txFlows))

(* Mutant of PipeEnds: the error of pipe is not handed on. *)
PipeEndsQuietly ==
    /\ pc = "returned"
    /\ ReturnPiped(FALSE)
    /\ UNCHANGED pipeVars

(* Client.pipe makes a pipeError of any error, and nothing of success. *)
PipeEnds ==
    /\ pc = "returned"
    /\ ReturnPiped(pipeResult # "ok")
    /\ UNCHANGED pipeVars

ShellStep == Parent /\ UNCHANGED bundleVars
CommandStep == Child /\ UNCHANGED bundleVars

Next == Function \/ PipeStarts \/ PipeEnds \/ ShellStep \/ CommandStep

Spec == Init /\ [][Next]_vars

(* Once fn has returned nothing of AddFlowBundle waits for anybody but the *)
(* command, which reads its input, ends the writes it has begun, and exits *)
(* at the end of its input.  fn itself may go on for ever.                 *)
Fairness ==
    /\ WF_vars(Function /\ ReturnEarly)
    /\ WF_vars(PipeStarts) /\ WF_vars(PipeEnds)
    /\ WF_vars(ParentWorks /\ UNCHANGED bundleVars)
    /\ WF_vars(ChildWorks /\ UNCHANGED bundleVars)

FairSpec == Spec /\ Fairness

-----------------------------------------------------------------------------
(* shellPipe has given up on a command that it had fed the whole bundle.   *)
GivenUp == pipeResult \in {"closeError", "readError"}

(* AddFlowBundle returns nil only if ovs-ofctl has succeeded, after it has *)
(* read every line that fn asked for.  Behind an error no command ran, or  *)
(* it failed, and no bundle is applied -- except where shellPipe gave up   *)
(* on the command: that one may still succeed, and the caller of           *)
(* AddFlowBundle cannot tell.                                              *)
BundleDelivered ==
    /\ result = "ok" => /\ child = "ok"
                        /\ bundle.lines = wanted
                        /\ toCopy = 0 /\ inPipe = 0
    /\ result \in {"fnError", "notCommitted"} => child = "none"
    /\ result = "pipeError" => GivenUp \/ child \in {"none", "failed"}

(* Once fn has returned, so does AddFlowBundle: shellPipe gets stuck       *)
(* neither on a full pipe nor on a command that waits for the end of its   *)
(* input, and one of the three ways out of AddFlowBundle is always open.   *)
BundleReturns == (fnState # "running") ~> (result # "none")
=============================================================================
