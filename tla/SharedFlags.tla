----------------------------- MODULE SharedFlags -----------------------------
(***************************************************************************)
(* The arguments of a command (ovs/client.go, ovs/openflow.go): a Client   *)
(* keeps its recurring flags in two slices, flags and ofctlFlags, that New *)
(* fills and that every command appends its own words to.  Go's append     *)
(* writes into the array of the slice if the words fit, and that array     *)
(* belongs to every goroutine that uses the Client.                        *)
(*                                                                         *)
(* dumpPorts and dumpAggregate append to ofctlFlags; the other commands of *)
(* OpenFlowService append ofctlFlags to words of their own.  They all end  *)
(* in Client.exec, which appends to flags.  The flags themselves never     *)
(* change after New: only their number matters, and the words behind them. *)
(***************************************************************************)
EXTENDS Naturals, Sequences

CONSTANTS
    Callers,     \* goroutines that share the Client, one call each
    Bridges,     \* bridge names
    MaxOptions   \* bound: options given to New

VARIABLES
    options,  \* how many options New has applied
    len, cap, \* of the two slices
    cells,    \* the words in their arrays, behind the flags
    pc,       \* where the call of each caller is
    call,     \* the words each caller asks for, in two parts
    args,     \* its slice args, and then flags
    ran       \* the words that the command was executed with

vars == <<options, len, cap, cells, pc, call, args, ran>>

Slices == {"flags", "ofctlFlags"}
NoArgs == [array |-> "own", n |-> 0, words |-> <<>>]

Init ==
    /\ options = 0
    /\ len = [s \in Slices |-> 0] /\ cap = [s \in Slices |-> 0]
    /\ cells = [s \in Slices |-> [i \in 1 .. 3 |-> "none"]]
    /\ pc = [c \in Callers |-> "idle"]
    /\ call = [c \in Callers |-> [words |-> <<>>, port |-> <<>>]]
    /\ args = [c \in Callers |-> NoArgs]
    /\ ran = [c \in Callers |-> <<>>]

(* Go's growslice for a short slice: twice the capacity, or what it takes. *)
Grow(have, need) ==
    IF need <= have THEN have ELSE IF need > 2 * have THEN need ELSE 2 * have

(* An option appends n flags to s: Timeout and SetTCPParam one to flags,   *)
(* FlowFormat and Protocols one and SetSSLParam three to ofctlFlags.       *)
OptionFunc(s, n) ==
    /\ options < MaxOptions /\ \A c \in Callers : pc[c] = "idle"
    /\ options' = options + 1
    /\ len' = [len EXCEPT ![s] = @ + n]
    /\ cap' = [cap EXCEPT ![s] = Grow(@, len[s] + n)]
    /\ UNCHANGED <<cells, pc, call, args, ran>>

New ==
    \/ OptionFunc("flags", 1)
    \/ OptionFunc("ofctlFlags", 1)
    \/ OptionFunc("ofctlFlags", 3)

-----------------------------------------------------------------------------
Spare(s) == cap[s] - len[s]

(* The words of a slice, as the array holds them now. *)
Words(a) ==
    IF a.array = "own" THEN a.words ELSE [i \in 1 .. a.n |-> cells[a.array][i]]

(* append(s[:len + k], more...) with `behind' other words before the k:    *)
(* in place if that fits, and into a new array if it does not.             *)
Append2(c, s, behind, k, more) ==
    LET n == k + Len(more)
    IN  IF behind + n <= Spare(s)
          THEN /\ cells' = [cells EXCEPT ![s] =
                              [i \in 1 .. 3 |-> IF i \in k + 1 .. n THEN more[i - k] ELSE @[i]]]
               /\ args' = [args EXCEPT ![c] = [array |-> s, n |-> n, words |-> <<>>]]
          ELSE /\ args' = [args EXCEPT ![c] =
                             [array |-> "own", n |-> 0,
                              words |-> [i \in 1 .. k |-> cells[s][i]] \o more]]
               /\ UNCHANGED cells

Goes(c, from, to) == pc[c] = from /\ pc' = [pc EXCEPT ![c] = to]

(* DumpPorts, DumpPort and DumpAggregate are called. *)
DumpPorts(c, b) ==
    /\ Goes(c, "idle", "append")
    /\ call' = [call EXCEPT ![c] = [words |-> <<"dump-ports", b>>, port |-> <<>>]]
    /\ UNCHANGED <<options, len, cap, cells, args, ran>>

DumpPort(c, b) ==
    /\ Goes(c, "idle", "append")
    /\ call' = [call EXCEPT ![c] = [words |-> <<"dump-ports", b>>, port |-> <<"port">>]]
    /\ UNCHANGED <<options, len, cap, cells, args, ran>>

DumpAggregate(c, b) ==
    /\ Goes(c, "idle", "append")
    /\ call' = [call EXCEPT ![c] =
                  [words |-> <<"dump-aggregate", b, "flow">>, port |-> <<>>]]
    /\ UNCHANGED <<options, len, cap, cells, args, ran>>

(* args = append(o.c.ofctlFlags, args...) *)
AppendToOfctlFlags(c) ==
    /\ Goes(c, "append", "port")
    /\ Append2(c, "ofctlFlags", 0, 0, call[c].words)
    /\ UNCHANGED <<options, len, cap, call, ran>>

(* args = append(args, port), only if there is a port.  An array that only *)
(* this call knows may have room or not: nobody can tell.                  *)
AppendPort(c) ==
    /\ Goes(c, "port", "exec")
    /\ \/ call[c].port = <<>> /\ UNCHANGED <<cells, args>>
       \/ /\ call[c].port # <<>> /\ args[c].array = "own"
          /\ args' = [args EXCEPT ![c].words = @ \o call[c].port]
          /\ UNCHANGED cells
       \/ /\ call[c].port # <<>> /\ args[c].array # "own"
          /\ Append2(c, "ofctlFlags", 0, args[c].n, call[c].port)
    /\ UNCHANGED <<options, len, cap, call, ran>>

(* Client.exec: flags := append(c.flags, args...).  The ofctlFlags at the  *)
(* head of args are copied, too.                                           *)
AppendToFlags(c) ==
    /\ Goes(c, "exec", "run")
    /\ Append2(c, "flags", len["ofctlFlags"], 0, Words(args[c]))
    /\ UNCHANGED <<options, len, cap, call, ran>>

(* execFunc copies flags into the command and runs it; so does the prefix  *)
(* of sudo.                                                                *)
ExecFunc(c) ==
    /\ Goes(c, "run", "done")
    /\ ran' = [ran EXCEPT ![c] = Words(args[c])]
    /\ UNCHANGED <<options, len, cap, cells, call, args>>

Calls(c) == \E b \in Bridges : DumpPorts(c, b) \/ DumpPort(c, b) \/ DumpAggregate(c, b)

Step(c) == AppendToOfctlFlags(c) \/ AppendPort(c) \/ AppendToFlags(c) \/ ExecFunc(c)

Next == New \/ \E c \in Callers : Calls(c) \/ Step(c)

Spec == Init /\ [][Next]_vars

-----------------------------------------------------------------------------
Wanted(c) == call[c].words \o call[c].port

(* "dumpPorts calls 'ovs-ofctl dump-ports' with the specified arguments"   *)
(* (and dumpAggregate likewise), whatever other goroutines do with the     *)
(* same Client.                                                            *)
OwnArguments == \A c \in Callers : pc[c] = "done" => ran[c] = Wanted(c)
=============================================================================
