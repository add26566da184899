------------------------------ MODULE FlowText ------------------------------
(***************************************************************************)
(* The text of flows: Flow and LearnedFlow (ovs/flow.go), MatchFlow        *)
(* (ovs/matchflow.go).  A text is the sequence of its comma-separated      *)
(* fields and the sequence of its actions.  A field without = has no       *)
(* value; one with a second = has the token = in its value.  The           *)
(* statistics of a flow are two fields of it.                              *)
(***************************************************************************)
EXTENDS MatchParser, Actions, SequencesExt

PortLOCAL == -1
AnyTable == -1

NewFlow ==
    [Priority |-> 0, Protocol |-> Empty, InPort |-> 0, Matches |-> <<>>, Table |-> 0,
     IdleTimeout |-> 0, Cookie |-> 0, Actions |-> <<>>, PacketCount |-> 0, ByteCount |-> 0]

NewLearnedFlow ==
    [Priority |-> 0, InPort |-> 0, Matches |-> <<>>, Table |-> 0, IdleTimeout |-> 0,
     Cookie |-> 0, Actions |-> <<>>, DeleteLearned |-> FALSE, FinHardTimeout |-> 0,
     HardTimeout |-> 0, Limit |-> 0]

-----------------------------------------------------------------------------
(* Printing                                                                *)

Number(key, n) == Field(key, <<Dec(n)>>)
Bare(word) == Field(word, <<>>)
When(cond, field) == IF cond THEN <<field>> ELSE <<>>

(* marshalFunctions: the first error is the result. *)
marshalFunctions(results) ==
    IF \E i \in DOMAIN results : ~results[i].ok THEN Fail
    ELSE Ok([i \in DOMAIN results |-> results[i].v])
marshalMatches(mm) == marshalFunctions([i \in DOMAIN mm |-> MarshalMatch(mm[i])])

InPortField(port) ==
    When(port # 0, Field("in_port", <<IF port = PortLOCAL THEN Word("LOCAL") ELSE Dec(port)>>))

paddedHexUint64(n) == Hex(n)
CookieField(n) == When(n > 0, Field("cookie", <<paddedHexUint64(n)>>))

LearnedFields(f, matches) ==
    <<Number("priority", f.Priority)>> \o InPortField(f.InPort) \o matches
      \o <<Number("table", f.Table), Number("idle_timeout", f.IdleTimeout),
           Number("fin_hard_timeout", f.FinHardTimeout), Number("hard_timeout", f.HardTimeout)>>
      \o When(f.Limit > 0, Number("limit", f.Limit))
      \o When(f.DeleteLearned, Bare("delete_learned"))
      \o CookieField(f.Cookie)

MarshalLearnedFlow(f) ==
    IF \/ f.Actions = <<>>
       \/ \E i \in DOMAIN f.Actions : f.Actions[i].kind \notin {"Load", "OutputField"}
    THEN Fail
    ELSE Then(marshalFunctions([i \in DOMAIN f.Actions |-> MarshalSimple(f.Actions[i])]), LAMBDA actions :
             Then(marshalMatches(f.Matches), LAMBDA matches :
                 Ok([fields |-> LearnedFields(f, matches), actions |-> actions])))

(* The learned flow is a sequence: an empty one is nil. *)
MarshalLearn(a) ==
    IF a.sub = <<>> THEN Fail
    ELSE Then(MarshalLearnedFlow(a.sub[1]),
              LAMBDA text : Ok([ActText("learn", <<>>) EXCEPT !.inner = <<text>>]))

MarshalAction(a) == IF a.kind = "Learn" THEN MarshalLearn(a) ELSE MarshalSimple(a)
marshalActions(aa) == marshalFunctions([i \in DOMAIN aa |-> MarshalAction(aa[i])])

(* "drop" is an action by itself. *)
WithDrop(texts) ==
    Len(texts) > 1 /\ \E i \in DOMAIN texts : texts[i].word = "drop" /\ ~texts[i].up

FlowFields(f, matches) ==
    <<Number("priority", f.Priority)>> \o When(f.Protocol # Empty, Bare(f.Protocol.t))
      \o InPortField(f.InPort) \o matches
      \o <<Number("table", f.Table), Number("idle_timeout", f.IdleTimeout)>>
      \o CookieField(f.Cookie)

MarshalFlow(f) ==
    IF f.Actions = <<>> THEN Fail
    ELSE Then(marshalActions(f.Actions), LAMBDA actions :
             Then(marshalMatches(f.Matches), LAMBDA matches :
                 IF WithDrop(actions) THEN Fail
                 ELSE Ok([fields |-> FlowFields(f, matches), actions |-> actions])))

MatchFlowFields(f, matches) ==
    LET mask == IF f.CookieMask = 0 THEN Dec(-1) ELSE paddedHexUint64(f.CookieMask)
    IN  When(f.Protocol # Empty, Bare(f.Protocol.t)) \o InPortField(f.InPort) \o matches
          \o When(f.Cookie > 0 \/ f.CookieMask > 0,
                  Field("cookie", <<paddedHexUint64(f.Cookie), mask>>))
          \o When(f.Table # AnyTable, Number("table", f.Table))

MarshalMatchFlow(f) ==
    Then(marshalMatches(f.Matches), LAMBDA matches :
        IF MatchFlowFields(f, matches) = <<>> THEN Fail ELSE Ok(MatchFlowFields(f, matches)))

(* Mutant of MatchFlow: the cookie is not taken over. *)
MatchFlowNoCookie(f) ==
    [Protocol |-> f.Protocol, InPort |-> f.InPort, Matches |-> f.Matches,
     Table |-> f.Table, Cookie |-> 0, CookieMask |-> 0]

MatchFlow(f) ==
    [Protocol |-> f.Protocol, InPort |-> f.InPort, Matches |-> f.Matches,
     Table |-> f.Table, Cookie |-> f.Cookie, CookieMask |-> 0]

-----------------------------------------------------------------------------
(* Parsing                                                                 *)

IntKeys == [priority |-> "Priority", table |-> "Table", idle_timeout |-> "IdleTimeout",
            in_port |-> "InPort"]
UintKeys == [cookie |-> "Cookie", n_packets |-> "PacketCount", n_bytes |-> "ByteCount"]
IgnoredKeys == {"actions", "duration", "hard_age", "idle_age"}

(* The keys of the flow itself are trimmed; that of a match is not, so one *)
(* that follows a blank is unknown to parseMatch, and a protocol keeps its *)
(* blank.  An unknown key is skipped.                                      *)
ParseField(flow, f) ==
    LET skip   == Contains(f.val, Word("=")) \/ f.key \in IgnoredKeys
        own    == f.key \in DOMAIN IntKeys \cup DOMAIN UintKeys
        number == IF Len(f.val) # 1 THEN Fail
                  ELSE IF f.key = "in_port" /\ f.val[1] = Word("LOCAL") THEN Ok(PortLOCAL)
                  ELSE IF f.key \in DOMAIN IntKeys THEN Atoi(f.val[1])
                  ELSE ParseUint(f.val[1])
        match  == IF f.blank THEN Skipped ELSE parseMatch(f.key, f.val)
    IN  CASE f.val = <<>> ->
                Ok([flow EXCEPT !.Protocol = IF f.key = NoWord THEN @
                                             ELSE Token(f.key, 0, IF f.blank THEN 1 ELSE 0)])
          [] f.val # <<>> /\ skip -> Ok(flow)
          [] f.val # <<>> /\ ~skip /\ own ->
                Then(number, LAMBDA n : Ok([flow EXCEPT ![Over(IntKeys, UintKeys)[f.key]] = n]))
          [] OTHER ->
                Then(match, LAMBDA m :
                    Ok(IF m = NoMatch THEN flow ELSE [flow EXCEPT !.Matches = Append(@, m)]))

ParseFields(fields) ==
    LET parse[i \in 0 .. Len(fields)] ==
            IF i = 0 THEN Ok(NewFlow)
            ELSE Then(parse[i - 1], LAMBDA flow : ParseField(flow, fields[i]))
    IN  parse[Len(fields)]

(* Mutant of UnmarshalFlow: the loop over the actions ends after the first. *)
UnmarshalFlowOne(text) ==
    IF text.actions = <<>> THEN Fail
    ELSE Then(ParseFields(text.fields), LAMBDA flow :
             Then(parseAction(text.actions[1]), LAMBDA a : Ok([flow EXCEPT !.Actions = <<a>>])))

UnmarshalFlow(text) ==
    IF text.actions = <<>> \/ WithDrop(text.actions) THEN Fail
    ELSE Then(ParseFields(text.fields), LAMBDA flow :
             Then(marshalFunctions([i \in DOMAIN text.actions |-> parseAction(text.actions[i])]),
                  LAMBDA actions : Ok([flow EXCEPT !.Actions = actions])))

-----------------------------------------------------------------------------
(* Properties                                                              *)

(* Actions for which the parser has no rule. *)
Unparsed == {"all", "OutputField", "Multipath", "SetTunnel"}

(* The text of an action of the library is parsed as that action, or is    *)
(* rejected if the parser has no rule for it: it is never taken for        *)
(* another action.  (A learn action with a load in it is taken for that    *)
(* load, and left out.)                                                    *)
ActionReadBack(a) ==
    LET readBack(text) ==
            text.ok /\ ~HasLoad(text.v) =>
               Then(parseAction(text.v), MarshalAction)
                  = IF a.kind \in Unparsed \cup {"Learn"} THEN Fail ELSE text
    IN  readBack(MarshalAction(a))

(* An action of a dumped flow keeps its word and its arguments when it is  *)
(* parsed and printed again, or one of the two is an error: no number is   *)
(* cut to its width and none gets another place.  Numbers are decimal as   *)
(* ovs-ofctl prints them, and zero in resubmit is the same as nothing.     *)
ActionKept(text) ==
    LET kept(again, args) == again.ok => again.v = [text EXCEPT !.up = FALSE, !.args = args]
        norm(i) == IF text.word = "resubmit(" /\ text.args[i] = Dec(0) THEN Empty
                   ELSE IF text.word \in {"mod_nw_dst", "mod_nw_src"} THEN Canonical(text.args[i]) ELSE text.args[i]
    IN  /\ \A i \in DOMAIN text.args : text.args[i].t # "hex"
        /\ ~HasLoad(text)
        => kept(Then(parseAction(text), MarshalAction), [i \in DOMAIN text.args |-> norm(i)])
=============================================================================
