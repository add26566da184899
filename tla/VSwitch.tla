------------------------------- MODULE VSwitch -------------------------------
(***************************************************************************)
(* VSwitchService (ovs/vswitch.go): every call makes one command for       *)
(* ovs-vsctl, and some read its output.  The database behind the command   *)
(* is external and shared: programs call one after the other in any order. *)
(* A command may run into its --timeout before or after the database has   *)
(* changed; the call returns an error either way.                          *)
(*                                                                         *)
(* A string of an option is a number, of which 0 is the empty string; the  *)
(* output of a command is the sequence of its lines, trimmed by exec.      *)
(***************************************************************************)
EXTENDS Integers, Sequences, FiniteSets, SequencesExt, PartialFunctions

CONSTANTS
    Bridges, PortNames,  \* names
    InterfaceCalls,      \* the InterfaceOptions that are given to Set.Interface
    Modes, Controllers, ProtocolLists
                         \* what is given to SetFailMode, SetController, Set.Bridge

OptionNames ==
    {"Type", "Peer", "MTURequest", "IngressRatePolicing", "IngressBurstPolicing",
     "RemoteIP", "Key"}

ASSUME CallsAssumption ==
    /\ InterfaceCalls \subseteq [OptionNames -> Int]
    /\ Modes \subseteq Nat /\ Controllers \subseteq Nat /\ ProtocolLists \subseteq Nat

VARIABLES
    db,    \* the database: bridges and ports by name
    call,  \* the last call: its command, its options, and how it ended
    read   \* what it returned

vswitchVars == <<db, call, read>>

NoOptions == [c \in OptionNames |-> 0]
BridgeColumns == {"FailMode", "Controller", "Protocols"}
NewBridge == [c \in BridgeColumns |-> 0]
NewPort(b) == [bridge |-> b, set |-> NoOptions]

NoCommand == [name |-> "none", opt |-> "none", args |-> <<>>, set |-> <<>>]

VSwitchInit ==
    /\ db = [bridges |-> <<>>, ports |-> <<>>]
    /\ call = [cmd |-> NoCommand, options |-> NoOptions, result |-> "ok", applied |-> FALSE]
    /\ read = <<>>

-----------------------------------------------------------------------------
(* External: ovs-vsctl.  The changed database and the output, or Refused.  *)

Refused == [ok |-> FALSE]
Accepted(d, out) == [ok |-> TRUE, d |-> d, out |-> out]
PortsOf(d, b) == {p \in DOMAIN d.ports : d.ports[p].bridge = b}

WithBridge(d, b) == [d EXCEPT !.bridges = Over(Single(b, NewBridge), @)]
WithoutBridge(d, b) ==
    [bridges |-> Without(d.bridges, {b}), ports |-> Without(d.ports, PortsOf(d, b))]
WithPort(d, b, p) == [d EXCEPT !.ports = Over(Single(p, NewPort(b)), @)]
WithoutPort(d, p) == [d EXCEPT !.ports = Without(@, {p})]
WithColumns(d, b, set) == [d EXCEPT !.bridges[b] = Over(set, @)]
WithOptions(d, p, set) == [d EXCEPT !.ports[p].set = Over(set, @)]

Vsctl(cmd, d) ==
    LET x == cmd.args[1]
        y == cmd.args[2]
        noop == IF cmd.opt # "none" THEN Accepted(d, <<>>) ELSE Refused
        known == x \in DOMAIN d.bridges
    IN  CASE cmd.name = "add-br" ->
                IF known THEN noop ELSE Accepted(WithBridge(d, x), <<>>)
          [] cmd.name = "del-br" ->
                IF ~known THEN noop ELSE Accepted(WithoutBridge(d, x), <<>>)
          [] cmd.name = "add-port" ->
                IF ~known THEN Refused
                ELSE IF y \notin DOMAIN d.ports THEN Accepted(WithPort(d, x, y), <<>>)
                ELSE IF d.ports[y].bridge = x THEN noop ELSE Refused
          [] cmd.name = "del-port" ->
                IF y \notin DOMAIN d.ports THEN noop
                ELSE IF d.ports[y].bridge # x THEN Refused
                ELSE Accepted(WithoutPort(d, y), <<>>)
          [] cmd.name = "set interface" ->
                IF x \notin DOMAIN d.ports \/ DOMAIN cmd.set = {} THEN Refused
                ELSE Accepted(WithOptions(d, x, cmd.set), <<>>)
          [] cmd.name = "set bridge" ->
                IF ~known \/ DOMAIN cmd.set = {} THEN Refused
                ELSE Accepted(WithColumns(d, x, cmd.set), <<>>)
          [] cmd.name = "list-br" -> Accepted(d, SetToSeq(DOMAIN d.bridges))
          [] cmd.name = "list-ports" ->
                IF known THEN Accepted(d, SetToSeq(PortsOf(d, x))) ELSE Refused
          [] cmd.name = "port-to-br" ->
                IF x \in DOMAIN d.ports THEN Accepted(d, <<d.ports[x].bridge>>) ELSE Refused
          [] cmd.name = "get bridge" ->
                IF known THEN Accepted(d, <<d.bridges[x][y]>>) ELSE Refused

-----------------------------------------------------------------------------
(* The calls                                                               *)

Command(name, opt, args, set) == [name |-> name, opt |-> opt, args |-> args, set |-> set]

(* strings.Split of an output: an empty one has one line, which is empty. *)
EmptyName == ""
SplitLines(out) == IF out = <<>> THEN <<EmptyName>> ELSE out

(* Mutant of listLines: an empty output is not looked for. *)
listLinesSplit(out) == SplitLines(out)

(* ListPorts and ListBridges: no output means that there are none. *)
listLines(out) == IF out = <<>> THEN <<>> ELSE SplitLines(out)

(* exec: what the command does, or a timeout on either side of it. *)
exec(cmd, options) ==
    LET end(result, applied) ==
            call' = [cmd |-> cmd, options |-> options, result |-> result, applied |-> applied]
        run(r) ==
            \/ r.ok /\ db' = r.d /\ \E result \in {"ok", "error"} : end(result, TRUE)
            \/ UNCHANGED db /\ end("error", FALSE)
    IN  run(Vsctl(cmd, db)) /\ read' = <<>>

AddBridge(b)    == exec(Command("add-br", "--may-exist", <<b, b>>, <<>>), NoOptions)
DeleteBridge(b) == exec(Command("del-br", "--if-exists", <<b, b>>, <<>>), NoOptions)

(* Mutant of AddPort: without --may-exist. *)
AddPortOnce(b, p) == exec(Command("add-port", "none", <<b, p>>, <<>>), NoOptions)

AddPort(b, p)    == exec(Command("add-port", "--may-exist", <<b, p>>, <<>>), NoOptions)
DeletePort(b, p) == exec(Command("del-port", "--if-exists", <<b, p>>, <<>>), NoOptions)

SetColumns(b, set) == exec(Command("set bridge", "none", <<b, b>>, set), NoOptions)
SetFailMode(b, mode)      == SetColumns(b, Single("FailMode", mode))
SetController(b, address) == SetColumns(b, Single("Controller", address))
(* Set.Bridge: BridgeOptions.slice leaves out an empty list of protocols,  *)
(* and then nothing is left to set.                                        *)
SetBridge(b, protocols)   == SetColumns(b, IF protocols = 0 THEN <<>> ELSE Single("Protocols", protocols))

Policing == {"IngressRatePolicing", "IngressBurstPolicing"}

(* Mutant of slice: an empty Peer is set as well. *)
sliceEmptyPeer(o) ==
    LET given == {c \in OptionNames : o[c] > 0 \/ (c \in Policing /\ o[c] = -1)} \cup {"Peer"}
    IN  [c \in given |-> IF c \in Policing /\ o[c] = -1 THEN 0 ELSE o[c]]

(* InterfaceOptions.slice: the options that are set.  A negative MTU or    *)
(* policing is left out like a zero, but for -1                            *)
(* (DefaultIngressRatePolicing), which turns policing off.                 *)
slice(o) ==
    LET given == {c \in OptionNames : o[c] > 0 \/ (c \in Policing /\ o[c] = -1)}
    IN  [c \in given |-> IF c \in Policing /\ o[c] = -1 THEN 0 ELSE o[c]]

SetInterface(p, o) == exec(Command("set interface", "none", <<p, p>>, slice(o)), o)

(* The calls that read: a timeout is an error, too. *)
Query(cmd) ==
    LET end(result, v) ==
            /\ call' = [cmd |-> cmd, options |-> NoOptions, result |-> result, applied |-> FALSE]
            /\ read' = v
        list  == cmd.name \in {"list-br", "list-ports"}
        run(r) == \/ r.ok /\ end("ok", IF list THEN listLines(r.out) ELSE r.out)
                  \/ end("error", <<>>)
    IN  run(Vsctl(cmd, db)) /\ UNCHANGED db

ListBridges     == Query(Command("list-br", "none", <<EmptyName, EmptyName>>, <<>>))
ListPorts(b)    == Query(Command("list-ports", "none", <<b, b>>, <<>>))
PortToBridge(p) == Query(Command("port-to-br", "none", <<p, p>>, <<>>))
GetFailMode(b)   == Query(Command("get bridge", "none", <<b, "FailMode">>, <<>>))
GetController(b) == Query(Command("get bridge", "none", <<b, "Controller">>, <<>>))
GetBridge(b)     == Query(Command("get bridge", "none", <<b, "Protocols">>, <<>>))

VSwitchNext ==
    \/ \E b \in Bridges :
         \/ AddBridge(b) \/ DeleteBridge(b) \/ ListPorts(b)
         \/ \E mode \in Modes : SetFailMode(b, mode)
         \/ \E address \in Controllers : SetController(b, address)
         \/ \E protocols \in ProtocolLists : SetBridge(b, protocols)
         \/ GetFailMode(b) \/ GetController(b) \/ GetBridge(b)
         \/ \E p \in PortNames : AddPort(b, p) \/ DeletePort(b, p)
    \/ \E p \in PortNames :
         PortToBridge(p) \/ \E o \in InterfaceCalls : SetInterface(p, o)
    \/ ListBridges

VSwitchSpec == VSwitchInit /\ [][VSwitchNext]_vswitchVars

-----------------------------------------------------------------------------
(* Properties                                                              *)

(* The database holds bridges and ports with their columns, and no port    *)
(* without its bridge: every deletion takes along what hangs on it.        *)
VSwitchTypeOK ==
    /\ DOMAIN db.bridges \subseteq Bridges /\ DOMAIN db.ports \subseteq PortNames
    /\ db \in [bridges : [DOMAIN db.bridges -> [BridgeColumns -> Nat]],
              ports : [DOMAIN db.ports -> [bridge : DOMAIN db.bridges, set : [OptionNames -> Nat]]]]

(* A call that was carried out but returned an error (its command timed    *)
(* out too late) can be made again: it succeeds then and changes nothing.  *)
RetrySafe ==
    LET again(r) == r.ok /\ r.d = db
    IN  call.applied => again(Vsctl(call.cmd, db))

(* An option of an interface that stays keeps its value but for a call of  *)
(* Set.Interface for that interface that names the option: two programs    *)
(* that look after different options of one interface never undo each      *)
(* other's work.  A rate or a burst of zero is left open: the comments of  *)
(* the two fields make it a value of its own (ZeroRateDisables), the one   *)
(* of slice an option that is not set.                                     *)
OptionsStay ==
    \A p \in DOMAIN db.ports \cap DOMAIN db'.ports : \A c \in OptionNames :
        \/ db'.ports[p].set[c] = db.ports[p].set[c]
        \/ /\ call'.cmd.name = "set interface" /\ call'.cmd.args[1] = p
           /\ call'.options[c] # 0 \/ c \in Policing

(* An option of an interface changes only by a call of Set.Interface for   *)
(* that interface, which names it if it is not one of the two of policing, *)
(* or with its port (OptionsStay).                                         *)
OptionsKept == [][OptionsStay]_vswitchVars

(* "Set to 0 (the default) to disable policing." (ovs/vswitch.go:253): a   *)
(* call of Set.Interface with a rate of zero that returns no error leaves  *)
(* the interface without policing.  The code does not do that: slice takes *)
(* the zero for an option that is not given.                               *)
ZeroRateDisables ==
    (/\ call.cmd.name = "set interface" /\ call.result = "ok"
     /\ call.options["IngressRatePolicing"] = 0)
        => db.ports[call.cmd.args[1]].set["IngressRatePolicing"] = 0

(* What a call reads without an error is in the database: ListBridges and  *)
(* ListPorts return each name once and nothing else (no empty name where   *)
(* there is none), and a port is on the bridge that PortToBridge names.    *)
ReadsExact ==
    LET x == call.cmd.args[1]
        exactly(S) == ToSet(read) = S /\ Len(read) = Cardinality(S)
    IN  call.result = "ok" =>
            /\ call.cmd.name = "list-br" => exactly(DOMAIN db.bridges)
            /\ call.cmd.name = "list-ports" => exactly(PortsOf(db, x))
            /\ call.cmd.name = "port-to-br" => x \in PortsOf(db, read[1])
            /\ call.cmd.name = "get bridge" => read = <<db.bridges[x][call.cmd.args[2]]>>
=============================================================================
