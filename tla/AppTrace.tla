------------------------------ MODULE AppTrace ------------------------------
(***************************************************************************)
(* AppService.ProtoTrace (ovs/app.go, ovs/proto_trace.go): the output of   *)
(* ovs-appctl ofproto/trace, line by line.  A packet that connection       *)
(* tracking or a tunnel sends back into the pipeline makes several passes, *)
(* each with a flow, actions and a final flow of its own.                  *)
(*                                                                         *)
(* A line is told apart by the first pattern that it matches; the texts of *)
(* actions are numbers.                                                    *)
(***************************************************************************)
EXTENDS MatchParser, SequencesExt

TraceProtocols == {"arp", "icmp", "icmp6", "ip", "ipv6", "tcp", "tcp6", "udp", "udp6"}
localPort == U16 - 2

NewDataPathFlows == [Protocol |-> NoWord, Matches |-> <<>>]

TraceLine(shape, fields, text, recirc) ==
    [shape |-> shape, fields |-> fields, text |-> text, recirc |-> recirc]
PlainLine(shape) == TraceLine(shape, <<>>, 0, FALSE)

-----------------------------------------------------------------------------
(* External: ovs-appctl ofproto/trace.  A pass has its flow, its final     *)
(* flow and the texts of its actions.                                      *)
PrintPass(pass, recirc) ==
    <<TraceLine("Flow", pass.flow, 0, FALSE), PlainLine("bridge"), PlainLine("rule")>>
      \o [i \in DOMAIN pass.acts |-> TraceLine("action", <<>>, pass.acts[i], FALSE)]
      \o <<PlainLine("comment"), TraceLine("FinalFlow", pass.final, 0, FALSE),
           PlainLine("Megaflow"), TraceLine("DatapathActions", <<>>, pass.actions, recirc)>>
      \o IF recirc THEN <<PlainLine("other"), PlainLine("comment")>> ELSE <<>>

PrintTrace(passes) ==
    LET out[i \in 0 .. Len(passes)] ==
            IF i = 0 THEN <<>> ELSE out[i - 1] \o PrintPass(passes[i], i < Len(passes))
    IN  out[Len(passes)]

-----------------------------------------------------------------------------
(* One word or field of a flow.  A field without a value is the name of a  *)
(* protocol, or a word that is skipped, or an error.                       *)
TraceField(df, f) ==
    IF f.val = <<>>
      THEN IF f.key \in TraceProtocols THEN Ok([df EXCEPT !.Protocol = f.key])
           ELSE IF f.key \in {"eth", "unchanged"} THEN Ok(df) ELSE Fail
    ELSE IF f.key = "recirc_id" THEN Ok(df)
    ELSE IF Contains(f.val, Word("=")) THEN Fail
    ELSE Then(IF f.key = "in_port" /\ f.val = <<Word("LOCAL")>>
              THEN Ok(NumMatch("InPortMatch", localPort)) ELSE parseMatch(f.key, f.val),
              LAMBDA m : Ok(IF m = NoMatch THEN df ELSE [df EXCEPT !.Matches = Append(@, m)]))

ReadField(r, f) == Then(r, LAMBDA df : TraceField(df, f))
UnmarshalDataPathFlows(fields) ==
    LET read[i \in 0 .. Len(fields)] ==
            IF i = 0 THEN Ok(NewDataPathFlows) ELSE ReadField(read[i - 1], fields[i])
    IN  read[Len(fields)]

NewProtoTrace ==
    [InputFlow |-> NewDataPathFlows, FinalFlow |-> NewDataPathFlows,
     DataPathActions |-> 0, FlowActions |-> <<>>]

(* What stands in FlowActions where the packet goes into another pass. *)
Recirc == 0

(* Mutant of SkippedLines: the comments are not skipped. *)
SkippedLinesFew == {"Megaflow", "bridge", "rule"}

(* Lines that say nothing about the actions, though they would be taken    *)
(* for one: the pattern of an action is a word after a blank.              *)
SkippedLines == {"Megaflow", "bridge", "rule", "comment"}

ReadTraceLine(pt, line) ==
    CASE line.shape = "DatapathActions" ->
            Ok([pt EXCEPT !.DataPathActions = line.text,
                          !.FlowActions = IF line.recirc THEN Append(@, Recirc) ELSE @])
      [] line.shape \in {"Flow", "FinalFlow"} ->
            Then(UnmarshalDataPathFlows(line.fields), LAMBDA flow :
                Ok(IF line.shape = "Flow" THEN [pt EXCEPT !.InputFlow = flow]
                   ELSE [pt EXCEPT !.FinalFlow = flow]))
      [] line.shape \in SkippedLines \cup {"other"} -> Ok(pt)
      [] OTHER -> Ok([pt EXCEPT !.FlowActions = Append(@, line.text)])

ReadTrace(r, line) == Then(r, LAMBDA pt : ReadTraceLine(pt, line))
UnmarshalProtoTrace(output) ==
    LET read[i \in 0 .. Len(output)] ==
            IF i = 0 THEN Ok(NewProtoTrace) ELSE ReadTrace(read[i - 1], output[i])
    IN  read[Len(output)]

(* The matches are printed first; nothing is run if one cannot be. *)
ProtoTrace(matches, output) ==
    IF \E i \in DOMAIN matches : ~MarshalMatch(matches[i]).ok THEN Fail
    ELSE UnmarshalProtoTrace(output)

-----------------------------------------------------------------------------
(* Properties                                                              *)

(* The matches of a flow of a trace are its fields with known keys, each   *)
(* once and in their order: printed again, they keep what ovs-appctl       *)
(* prints (ValueKept), LOCAL by its number.  The protocol is the last one. *)
FlowOfTrace(df, fields) ==
    LET read(f) == parseMatch(f.key, f.val)
        known == {i \in DOMAIN fields :
                    /\ fields[i].val # <<>> /\ fields[i].key # "recirc_id"
                    /\ read(fields[i]).ok => read(fields[i]).v # NoMatch}
        names == {i \in DOMAIN fields : fields[i].val = <<>> /\ fields[i].key \in TraceProtocols}
        local(f) == IF f.key = "in_port" /\ f.val = <<Word("LOCAL")>> THEN <<Dec(localPort)>> ELSE f.val
        kept(f, text) ==
            f.key \notin Renamed /\ Printed(f.key, f.val) /\ text.ok
              => text.v.key = f.key /\ SameValue(local(f), text.v.val)
    IN  /\ \E place \in [DOMAIN df.Matches -> known] :
              /\ \A i \in known : \E k \in DOMAIN df.Matches : place[k] = i
              /\ \A k, l \in DOMAIN df.Matches : k < l => place[k] < place[l]
              /\ \A k \in DOMAIN df.Matches : kept(fields[place[k]], MarshalMatch(df.Matches[k]))
        /\ IF names = {} THEN df.Protocol = NoWord
           ELSE \E i \in names : df.Protocol = fields[i].key /\ \A j \in names : j <= i

(* The actions of all passes, with the mark after each pass. *)
AllActions(passes) ==
    LET acts[i \in 0 .. Len(passes)] ==
            IF i = 0 THEN <<>> ELSE acts[i - 1] \o Append(passes[i].acts, Recirc)
    IN  acts[Len(passes)]

(* ProtoTrace returns a trace only if every pass of it was understood:     *)
(* then FlowActions are the actions of all passes in their order, with     *)
(* a mark between two passes, and no comment or rule among them, while the *)
(* flows and the datapath actions are those of the last pass.              *)
TraceExact(passes, matches) ==
    LET last == passes[Len(passes)]
        r    == ProtoTrace(matches, PrintTrace(passes))
    IN  /\ r.ok <=> /\ \A i \in DOMAIN matches : MarshalMatch(matches[i]).ok
                    /\ \A i \in DOMAIN passes : /\ UnmarshalDataPathFlows(passes[i].flow).ok
                                                /\ UnmarshalDataPathFlows(passes[i].final).ok
        /\ r.ok =>
              /\ Append(r.v.FlowActions, Recirc) = AllActions(passes)
              /\ FlowOfTrace(r.v.InputFlow, last.flow) /\ FlowOfTrace(r.v.FinalFlow, last.final)
              /\ r.v.DataPathActions = last.actions
=============================================================================
