----------------------------- MODULE ShellPipe -----------------------------
(***************************************************************************)
(* shellPipe (ovs/client.go): it starts a command, copies a bundle to its  *)
(* stdin, reads its stdout and then its stderr to the end, and waits for   *)
(* it.  The three pipes hold a bounded amount of data.  Data is counted in *)
(* chunks: which bytes they are is nobody's concern here.                  *)
(*                                                                         *)
(* The command (ovs-ofctl) and the pipes are not part of the repository.   *)
(* The command may read, write and fail at any time; it succeeds only when *)
(* it has read its input to the end.                                       *)
(***************************************************************************)
EXTENDS Naturals

CONSTANTS
    PipeCap,         \* chunks a pipe holds
    MaxOut, MaxErr   \* bounds: chunks the command writes to stdout, stderr

ASSUME PipeAssumption ==
    /\ PipeCap \in Nat \ {0}
    /\ MaxOut \in Nat /\ MaxErr \in Nat

VARIABLES
    pc,        \* where shellPipe is
    toCopy,    \* chunks of the bundle not yet written
    inPipe, outPipe, errPipe,   \* chunks in the three pipes
    inClosed,  \* shellPipe has closed its end of stdin
    child,     \* the command: not started, what it is doing, or how it ended
    wroteOut, wroteErr,         \* chunks the command has written in all
    got,       \* chunks that ReadAll has returned so far
    reaped,    \* Wait has collected the command
    pipeResult \* what shellPipe returns

parentVars == <<pc, toCopy, inClosed, got, reaped, pipeResult>>
childVars  == <<child, wroteOut, wroteErr>>
pipeVars == <<parentVars, inPipe, outPipe, errPipe, childVars>>

Exited == child \in {"ok", "failed"}

PipeTypeOK ==
    /\ pc \in {"idle", "start", "copy", "close", "stdout", "stderr", "wait", "returned"}
    /\ toCopy \in Nat
    /\ inPipe \in 0 .. PipeCap /\ outPipe \in 0 .. PipeCap /\ errPipe \in 0 .. PipeCap
    /\ inClosed \in BOOLEAN /\ reaped \in BOOLEAN
    /\ child \in {"none", "busy", "toStdout", "toStderr", "ok", "failed"}
    /\ wroteOut \in 0 .. MaxOut /\ wroteErr \in 0 .. MaxErr
    /\ got \in Nat
    /\ pipeResult \in {"none", "notStarted", "copyError", "closeError", "readError", "ok",
                       "exitError"}

PipeInit ==
    /\ pc = "idle" /\ toCopy = 0
    /\ inPipe = 0 /\ outPipe = 0 /\ errPipe = 0
    /\ inClosed = FALSE /\ reaped = FALSE
    /\ child = "none" /\ wroteOut = 0 /\ wroteErr = 0
    /\ got = 0 /\ pipeResult = "none"

-----------------------------------------------------------------------------
(* shellPipe                                                               *)

(* shellPipe is called with a bundle of n chunks. *)
Call(n) ==
    /\ pc = "idle"
    /\ pc' = "start" /\ toCopy' = n
    /\ UNCHANGED <<inClosed, got, reaped, pipeResult, inPipe, outPipe, errPipe, childVars>>

(* One of the pipes cannot be made, or the command cannot be started. *)
StartFails ==
    /\ pc = "start"
    /\ pc' = "returned" /\ pipeResult' = "notStarted"
    /\ UNCHANGED <<toCopy, inClosed, got, reaped, inPipe, outPipe, errPipe, childVars>>

Start ==
    /\ pc = "start"
    /\ pc' = "copy" /\ child' = "busy"
    /\ UNCHANGED <<toCopy, inClosed, got, reaped, pipeResult, inPipe, outPipe, errPipe,
                   wroteOut, wroteErr>>

(* io.Copy writes a chunk when the pipe has room. *)
Copy ==
    /\ pc = "copy" /\ toCopy > 0
    /\ ~Exited /\ inPipe < PipeCap
    /\ inPipe' = inPipe + 1 /\ toCopy' = toCopy - 1
    /\ UNCHANGED <<pc, inClosed, got, reaped, pipeResult, outPipe, errPipe, childVars>>

(* Nobody reads the pipe any more: the write fails, and shellPipe returns  *)
(* at once.                                                                *)
CopyFails ==
    /\ pc = "copy" /\ toCopy > 0
    /\ Exited
    /\ pc' = "returned" /\ pipeResult' = "copyError"
    /\ UNCHANGED <<toCopy, inClosed, got, reaped, inPipe, outPipe, errPipe, childVars>>

CopyDone ==
    /\ pc = "copy" /\ toCopy = 0
    /\ pc' = "close"
    /\ UNCHANGED <<toCopy, inClosed, got, reaped, pipeResult, inPipe, outPipe, errPipe,
                   childVars>>

(* Mutant of CloseStdin: the command's stdin stays open. *)
CloseStdinNot ==
    /\ pc = "close"
    /\ pc' = "stdout"
    /\ UNCHANGED <<toCopy, inClosed, got, reaped, pipeResult, inPipe, outPipe, errPipe,
                   childVars>>

CloseStdin ==
    /\ pc = "close"
    /\ pc' = "stdout" /\ inClosed' = TRUE
    /\ UNCHANGED <<toCopy, got, reaped, pipeResult, inPipe, outPipe, errPipe, childVars>>

(* wc.Close returns an error, and so does shellPipe; the command may have  *)
(* its end of input or not.  Nobody reads its output any more, nor waits   *)
(* for it, and it goes on by itself.                                       *)
CloseStdinFails ==
    /\ pc = "close"
    /\ pc' = "returned" /\ pipeResult' = "closeError"
    /\ inClosed' \in BOOLEAN
    /\ UNCHANGED <<toCopy, got, reaped, inPipe, outPipe, errPipe, childVars>>

(* ReadAll of the MultiReader: stdout to its end, then stderr. *)
ReadStdout ==
    /\ pc = "stdout" /\ outPipe > 0
    /\ outPipe' = outPipe - 1 /\ got' = got + 1
    /\ UNCHANGED <<pc, toCopy, inClosed, reaped, pipeResult, inPipe, errPipe, childVars>>

StdoutEnds ==
    /\ pc = "stdout" /\ outPipe = 0 /\ Exited
    /\ pc' = "stderr"
    /\ UNCHANGED <<toCopy, inClosed, got, reaped, pipeResult, inPipe, outPipe, errPipe,
                   childVars>>

ReadStderr ==
    /\ pc = "stderr" /\ errPipe > 0
    /\ errPipe' = errPipe - 1 /\ got' = got + 1
    /\ UNCHANGED <<pc, toCopy, inClosed, reaped, pipeResult, inPipe, outPipe, childVars>>

(* Mutant of StderrEnds: whatever is left in the pipe is dropped. *)
StderrEndsEarly ==
    /\ pc = "stderr" /\ Exited
    /\ pc' = "wait"
    /\ UNCHANGED <<toCopy, inClosed, got, reaped, pipeResult, inPipe, outPipe, errPipe,
                   childVars>>

StderrEnds ==
    /\ pc = "stderr" /\ errPipe = 0 /\ Exited
    /\ pc' = "wait"
    /\ UNCHANGED <<toCopy, inClosed, got, reaped, pipeResult, inPipe, outPipe, errPipe,
                   childVars>>

(* ReadAll returns an error, and what it has read is dropped.  The command *)
(* goes on by itself here, too.                                            *)
ReadFails ==
    /\ pc \in {"stdout", "stderr"}
    /\ pc' = "returned" /\ pipeResult' = "readError"
    /\ UNCHANGED <<toCopy, inClosed, got, reaped, inPipe, outPipe, errPipe, childVars>>

Wait ==
    /\ pc = "wait" /\ Exited
    /\ reaped' = TRUE
    /\ pipeResult' = IF child = "ok" THEN "ok" ELSE "exitError"
    /\ pc' = "returned"
    /\ UNCHANGED <<toCopy, inClosed, got, inPipe, outPipe, errPipe, childVars>>

(* Errors of the system may come at these points, and never have to; a     *)
(* write to a pipe that nobody reads, CopyFails, has no other outcome.     *)
Errors == StartFails \/ CloseStdinFails \/ ReadFails

ParentWorks ==
    \/ Start \/ Copy \/ CopyFails \/ CopyDone \/ CloseStdin
    \/ ReadStdout \/ StdoutEnds \/ ReadStderr \/ StderrEnds \/ Wait

Parent == ParentWorks \/ Errors

-----------------------------------------------------------------------------
(* The command                                                             *)

ChildReads ==
    /\ child = "busy" /\ inPipe > 0
    /\ inPipe' = inPipe - 1
    /\ UNCHANGED <<parentVars, outPipe, errPipe, childVars>>

(* It decides to write, and is stuck until the pipe has room. *)
ChildStartsWrite ==
    /\ child = "busy"
    /\ \/ wroteOut < MaxOut /\ child' = "toStdout"
       \/ wroteErr < MaxErr /\ child' = "toStderr"
    /\ UNCHANGED <<parentVars, inPipe, outPipe, errPipe, wroteOut, wroteErr>>

ChildWritesOut ==
    /\ child = "toStdout" /\ outPipe < PipeCap
    /\ outPipe' = outPipe + 1 /\ wroteOut' = wroteOut + 1
    /\ child' = "busy"
    /\ UNCHANGED <<parentVars, inPipe, errPipe, wroteErr>>

ChildWritesErr ==
    /\ child = "toStderr" /\ errPipe < PipeCap
    /\ errPipe' = errPipe + 1 /\ wroteErr' = wroteErr + 1
    /\ child' = "busy"
    /\ UNCHANGED <<parentVars, inPipe, outPipe, wroteOut>>

(* It succeeds at the end of its input; it may fail before. *)
ChildExits ==
    /\ child = "busy"
    /\ \/ inClosed /\ inPipe = 0 /\ child' = "ok"
       \/ child' = "failed"
    /\ UNCHANGED <<parentVars, inPipe, outPipe, errPipe, wroteOut, wroteErr>>

Child ==
    ChildReads \/ ChildStartsWrite \/ ChildWritesOut \/ ChildWritesErr \/ ChildExits

(* The command keeps going, and in particular exits at the end of its      *)
(* input; it never has to fail.                                            *)
ChildWorks ==
    \/ ChildReads \/ ChildWritesOut \/ ChildWritesErr
    \/ ChildExits /\ inClosed /\ inPipe = 0

PipeNext == (\E n \in Nat : Call(n)) \/ Parent \/ Child

PipeSpec == PipeInit /\ [][PipeNext]_pipeVars

-----------------------------------------------------------------------------
(* shellPipe returns all that the command wrote to stdout and to stderr    *)
(* whenever it has waited for the command.                                 *)
OutputComplete ==
    pipeResult \in {"ok", "exitError"} => got = wroteOut + wroteErr
=============================================================================
