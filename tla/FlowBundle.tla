----------------------------- MODULE FlowBundle -----------------------------
(***************************************************************************)
(* AddFlowBundle and FlowTransaction (ovs/openflow.go).  The user's        *)
(* function fn is any sequence of calls of Add, Delete, Commit and Discard *)
(* that ends with a nil or a non-nil error; AddFlowBundle then pipes the   *)
(* transaction to ovs-ofctl, or does not.  The pipe is module ShellPipe;   *)
(* module AddFlowBundle puts the two together.                             *)
(*                                                                         *)
(* A flow is abstracted to whether MarshalText accepts it, with a name to  *)
(* tell it from the others.                                                *)
(***************************************************************************)
EXTENDS Naturals, Sequences, FiniteSets

CONSTANTS
    Valid, Invalid,  \* the flows that MarshalText accepts, and rejects
    MaxPush,         \* bound: calls of Add and Delete in fn
    MaxBatch,        \* bound: flows in one call
    MaxDiscard,      \* bound: calls of Discard in fn
    CommitIsLast     \* whether fn returns once Commit has succeeded, as the
                     \* comment on Commit demands

ASSUME BundleAssumption ==
    /\ Valid \cap Invalid = {}
    /\ MaxPush \in Nat /\ MaxBatch \in Nat /\ MaxDiscard \in Nat
    /\ CommitIsLast \in BOOLEAN

VARIABLES
    txFlows,    \* tx.flows
    committed,  \* tx.committed
    txErr,      \* tx.err is not nil
    wanted,     \* what fn has asked for since it last discarded
    fnState,    \* "running", or the error fn has returned: "nil", "error"
    bundle,     \* what ovs-ofctl reads from stdin
    result,     \* of AddFlowBundle
    pushes, discards  \* spent of MaxPush and MaxDiscard

txVars  == <<txFlows, committed, txErr>>
endVars == <<bundle, result>>
bundleVars == <<txVars, wanted, fnState, endVars, pushes, discards>>

Flow == Valid \cup Invalid
Directive == [directive : {"add", "delete"}, flow : Flow]
Batch == UNION {[1 .. n -> Flow] : n \in 0 .. MaxBatch}

(* ovs-ofctl has been started, or not, with these lines on its stdin. *)
Bundle == [piped : BOOLEAN, lines : Seq(Directive)]
NoBundle == [piped |-> FALSE, lines |-> <<>>]

BundleTypeOK ==
    /\ txFlows \in Seq(Directive)
    /\ committed \in BOOLEAN /\ txErr \in BOOLEAN
    /\ wanted \in Seq(Directive)
    /\ fnState \in {"running", "nil", "error"}
    /\ bundle \in Bundle
    /\ result \in {"none", "ok", "fnError", "notCommitted", "pipeError"}
    /\ pushes \in Nat /\ discards \in Nat

BundleInit ==
    /\ txFlows = <<>> /\ committed = FALSE /\ txErr = FALSE
    /\ wanted = <<>>
    /\ fnState = "running" /\ bundle = NoBundle /\ result = "none"
    /\ pushes = 0 /\ discards = 0

(* fn may go on calling methods of tx. *)
Running == fnState = "running" /\ (CommitIsLast => ~committed)

Directives(d, flows) == [i \in 1 .. Len(flows) |-> [directive |-> d, flow |-> flows[i]]]

(* push stops at the first flow that MarshalText rejects. *)
Rejects(flows) == \E i \in 1 .. Len(flows) : flows[i] \in Invalid

Accepted(flows) ==
    Cardinality({i \in 1 .. Len(flows) : \A j \in 1 .. i : flows[j] \in Valid})

(* Mutant of push: the directive is forgotten. *)
pushBare(d, flows) ==
    /\ txFlows' = txFlows \o [i \in 1 .. Accepted(flows) |-> [flow |-> flows[i]]]
    /\ txErr' = Rejects(flows)
    /\ UNCHANGED committed

push(d, flows) ==
    /\ txFlows' = txFlows \o SubSeq(Directives(d, flows), 1, Accepted(flows))
    /\ txErr' = Rejects(flows)
    /\ UNCHANGED committed

(* Mutant of Push: Add does not look at tx.err. *)
PushAfterError(d, flows) ==
    /\ Running /\ pushes < MaxPush
    /\ pushes' = pushes + 1
    /\ wanted' = wanted \o Directives(d, flows)
    /\ push(d, flows)
    /\ UNCHANGED <<fnState, endVars, discards>>

(* Add and Delete: nothing happens once a flow was rejected. *)
Push(d, flows) ==
    /\ Running /\ pushes < MaxPush
    /\ pushes' = pushes + 1
    /\ wanted' = wanted \o Directives(d, flows)
    /\ IF txErr THEN UNCHANGED txVars ELSE push(d, flows)
    /\ UNCHANGED <<fnState, endVars, discards>>

Add == \E flows \in Batch : Push("add", flows)
Delete == \E flows \in Batch : Push("delete", flows)

(* With an error in tx.err, Commit returns it and changes nothing; it is   *)
(* up to fn what it does with it.                                          *)
Commit ==
    /\ Running
    /\ ~committed
    /\ ~txErr
    /\ committed' = TRUE
    /\ UNCHANGED <<txFlows, txErr, wanted, fnState, endVars, pushes, discards>>

(* Neither tx.err nor tx.committed is reset. *)
Discard ==
    /\ Running /\ discards < MaxDiscard
    /\ discards' = discards + 1
    /\ txFlows' = <<>>
    /\ wanted' = <<>>
    /\ UNCHANGED <<committed, txErr, fnState, endVars, pushes>>

FnReturns ==
    /\ fnState = "running"
    /\ fnState' \in {"nil", "error"}
    /\ UNCHANGED <<txVars, wanted, endVars, pushes, discards>>

(* AddFlowBundle after fn: it returns early, ... *)
ReturnEarly ==
    /\ result = "none"
    /\ \/ fnState = "error" /\ result' = "fnError"
       \/ fnState = "nil" /\ ~committed /\ result' = "notCommitted"
    /\ UNCHANGED <<txVars, wanted, fnState, bundle, pushes, discards>>

(* ... or joins the lines of the transaction and hands them to pipe, ... *)
PipeBundle ==
    /\ fnState = "nil" /\ committed /\ ~bundle.piped
    /\ bundle' = [piped |-> TRUE, lines |-> txFlows]
    /\ UNCHANGED <<txVars, wanted, fnState, result, pushes, discards>>

(* ... and returns what pipe returns. *)
ReturnPiped(failed) ==
    /\ bundle.piped /\ result = "none"
    /\ result' = IF failed THEN "pipeError" ELSE "ok"
    /\ UNCHANGED <<txVars, wanted, fnState, bundle, pushes, discards>>

(* The calls of fn, and what AddFlowBundle does without a command. *)
FnNext == Add \/ Delete \/ Commit \/ Discard \/ FnReturns \/ ReturnEarly

BundleNext == FnNext \/ PipeBundle \/ \E failed \in BOOLEAN : ReturnPiped(failed)

(* A pipe that may do anything but disappear. *)
BundleSpec == BundleInit /\ [][BundleNext]_bundleVars

-----------------------------------------------------------------------------
(* "This function enables atomic addition and deletion of flows": what is  *)
(* piped is all that fn asked for since it last discarded, in that order,  *)
(* and only if no flow was rejected and fn has committed.                  *)
AllOrNothing ==
    bundle.piped => /\ committed /\ ~txErr
                    /\ bundle.lines = wanted
=============================================================================
