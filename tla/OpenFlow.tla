------------------------------ MODULE OpenFlow ------------------------------
(***************************************************************************)
(* The flows of a bridge through OpenFlowService (ovs/openflow.go): a      *)
(* caller adds flows, dumps them, and deletes a dumped flow by its         *)
(* MatchFlow.  The switch behind ovs-ofctl is external: it keeps the flows *)
(* it was given, prints them, and selects by the fields it is given.       *)
(***************************************************************************)
EXTENDS FlowText, FiniteSets

CONSTANTS
    Flows,         \* the flows the caller may add
    MaxInstalled   \* bound: flows on the bridge

ASSUME FlowsAssumption ==
    /\ MaxInstalled \in Nat
    /\ \A f \in Flows : f.Actions \in Seq(Range(f.Actions)) /\ f.Matches \in Seq(Range(f.Matches))

VARIABLES
    installed,     \* the texts of the flows on the bridge
    lines,         \* the texts that the last dump was of
    dumped,        \* the flows that DumpFlows returned
    complete,      \* whether it returned them without an error
    result,        \* what the last call returned: "ok" or "error"
    deleted        \* the last DelFlows: the flow meant, and the texts removed

openFlowVars == <<installed, lines, dumped, complete, result, deleted>>

NoDelete == [op |-> "none", meant |-> <<>>, removed |-> {}]

OpenFlowInit ==
    /\ installed = {} /\ lines = <<>> /\ dumped = <<>> /\ complete = TRUE
    /\ result = "ok" /\ deleted = NoDelete

-----------------------------------------------------------------------------
(* External: the switch                                                    *)

(* A flow is selected if it has every field of the selection; a cookie is  *)
(* given with its mask, of which -1 is all bits.                           *)
Selects(sel, text) ==
    \A i \in DOMAIN sel :
        LET f == IF sel[i].key = "cookie" THEN Field("cookie", <<sel[i].val[1]>>) ELSE sel[i]
        IN  Contains(text.fields, f)

(* The fields at these positions, in their order. *)
FieldsAt(fields, at) ==
    [j \in 1 .. Cardinality(at) |-> fields[CHOOSE i \in at : Cardinality({k \in at : k <= i}) = j]]

(* The line of dump-flows: the fields of the flow and its statistics with  *)
(* blanks before their keys, then the matches without.  Every priority is  *)
(* printed: a flow with the default one, 32768, is no flow of this model;  *)
(* ovs-ofctl leaves that out, and UnmarshalText then skips the first match *)
(* for the blank before it.                                                *)
DumpLine(text) ==
    LET own == {"cookie", "table", "idle_timeout", "priority"}
        get(key) == FieldsAt(text.fields, {i \in DOMAIN text.fields : text.fields[i].key = key})
        blank(f) == [f EXCEPT !.blank = TRUE]
        cookie   == IF get("cookie") = <<>> THEN <<Field("cookie", <<Hex(0)>>)>> ELSE get("cookie")
        idle     == IF get("idle_timeout")[1].val = <<Dec(0)>> THEN <<>> ELSE get("idle_timeout")
        head     == <<Field("duration", <<Word("1s")>>)>> \o get("table")
                      \o <<Number("n_packets", 1), Number("n_bytes", 2)>> \o idle \o get("priority")
    IN  [text EXCEPT !.fields =
            cookie \o [i \in DOMAIN head |-> blank(head[i])]
              \o FieldsAt(text.fields, {i \in DOMAIN text.fields : text.fields[i].key \notin own})]

(* What ovs-ofctl prints for these flows: a banner, and another one where  *)
(* a second message of the switch begins.                                  *)
Banner == [fields |-> <<>>, actions |-> <<>>]
DumpOutputs(texts) ==
    LET out == [i \in DOMAIN texts |-> DumpLine(texts[i])]
    IN  {<<Banner>> \o out}
          \cup {<<Banner>> \o SubSeq(out, 1, k) \o <<Banner>> \o SubSeq(out, k + 1, Len(out)) :
                  k \in 1 .. Len(out) - 1}

-----------------------------------------------------------------------------
(* The calls.  Each may also fail in the command, and then changes nothing. *)

Returns(r) == result' = r

AddFlow(f) ==
    /\ UNCHANGED <<lines, dumped, complete>> /\ deleted' = NoDelete
    /\ \/ \E text \in {MarshalFlow(f)} :
             text.ok /\ installed' = installed \cup {text.v} /\ Returns("ok")
       \/ UNCHANGED installed /\ Returns("error")

(* Mutant of Delete: the flows stay on the bridge. *)
DeleteNothing(meant, text) ==
    LET removed == {t \in installed : Selects(text.v, t)}
    IN  /\ UNCHANGED <<installed, lines, dumped, complete>> /\ text.ok /\ Returns("ok")
        /\ deleted' = [op |-> "delete", meant |-> meant, removed |-> removed]

Delete(meant, text) ==
    /\ UNCHANGED <<lines, dumped, complete>>
    /\ \/ LET removed == {t \in installed : Selects(text.v, t)}
          IN  /\ text.ok /\ Returns("ok")
              /\ installed' = installed \ removed
              /\ deleted' = [op |-> "delete", meant |-> meant, removed |-> removed]
       \/ UNCHANGED installed /\ deleted' = NoDelete /\ Returns("error")

(* DelFlows, with the MatchFlow of a flow that was dumped, or with nil. *)
DelFlows(i) == Delete(<<lines[i]>>, MarshalMatchFlow(MatchFlow(dumped[i])))
DelAllFlows == Delete(<<>>, Ok(<<>>))

AddParsed(r, flow) ==
    IF flow.ok THEN [r EXCEPT !.flows = Append(@, flow.v)] ELSE [r EXCEPT !.ok = FALSE]

ReadLine(r, line) == IF ~r.ok \/ line = Banner THEN r ELSE AddParsed(r, UnmarshalFlow(line))

(* parseEachLine: a banner, and the flows up to the first line that is not *)
(* understood, which are returned along with the error.  A banner among    *)
(* the flows is passed over.                                               *)
parseEachLine(output) ==
    LET read[i \in 0 .. Len(output) - 1] ==
            IF i = 0 THEN [flows |-> <<>>, ok |-> output[1] = Banner]
            ELSE ReadLine(read[i - 1], output[i + 1])
    IN  IF output = <<>> THEN [flows |-> <<>>, ok |-> FALSE] ELSE read[Len(output) - 1]

(* DumpFlows, or DumpFlowsWithFlowArgs with a MatchFlow. *)
Dump(sel) ==
    /\ UNCHANGED installed /\ deleted' = NoDelete
    /\ \/ /\ sel.ok
          /\ lines' = SetToSeq({t \in installed : Selects(sel.v, t)})
          /\ \E output \in DumpOutputs(lines') : \E r \in {parseEachLine(output)} :
                dumped' = r.flows /\ complete' = r.ok /\ Returns(IF r.ok THEN "ok" ELSE "error")
       \/ lines' = <<>> /\ dumped' = <<>> /\ complete' = FALSE /\ Returns("error")

DumpFlows == Dump(Ok(<<>>))
DumpFlowsWithFlowArgs(f) == Dump(MarshalMatchFlow(MatchFlow(f)))

OpenFlowNext ==
    \/ \E f \in Flows : Cardinality(installed) < MaxInstalled /\ AddFlow(f)
    \/ \E i \in DOMAIN dumped : DelFlows(i)
    \/ DelAllFlows
    \/ DumpFlows
    \/ \E f \in Flows : DumpFlowsWithFlowArgs(f)

OpenFlowSpec == OpenFlowInit /\ [][OpenFlowNext]_openFlowVars

-----------------------------------------------------------------------------
(* Properties                                                              *)

MatchFields(text) ==
    {text.fields[i] : i \in {j \in DOMAIN text.fields :
                                text.fields[j].key \notin {"priority", "idle_timeout"}}}

(* A flow by itself: what UnmarshalText makes of its line in a dump prints *)
(* the text it was added with, or is an error.                             *)
FlowReadBack(f) ==
    LET text == MarshalFlow(f)
        read == UnmarshalFlow(DumpLine(text.v))
    IN  text.ok /\ read.ok => MarshalFlow(read.v) = text

(* A flow of one table, whose protocol and matches are not printed with    *)
(* the key of its table or cookie.                                         *)
OwnFields(f) ==
    /\ f.Table # AnyTable /\ f.Protocol.t \notin {"cookie", "table"}
    /\ \A i \in DOMAIN f.Matches :
          MarshalMatch(f.Matches[i]).ok => MarshalMatch(f.Matches[i]).v.key \notin {"cookie", "table"}

(* What DumpFlows returns without an error are the flows that were added:  *)
(* each prints the text it was added with, so nothing was lost, renamed or *)
(* moved to another flow on the way through the switch's own format.       *)
DumpFaithful ==
    complete => /\ Len(dumped) = Len(lines)
                /\ \A i \in DOMAIN dumped : MarshalFlow(dumped[i]) = Ok(lines[i])

(* DelFlows with the MatchFlow of a dumped flow removes that flow if it is *)
(* still there, and no flow that lacks any of its match fields, its table  *)
(* or its cookie.                                                          *)
DeleteDumped ==
    LET meant == deleted.meant[1]
    IN  deleted.op = "delete" /\ deleted.meant # <<>> =>
            /\ meant \notin installed
            /\ \A t \in deleted.removed : MatchFields(meant) \subseteq MatchFields(t)
=============================================================================
