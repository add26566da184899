----------------------------- MODULE MCCommands -----------------------------
(***************************************************************************)
(* The commands of package ovs in one run.  From the initial state either  *)
(* flows go to a bridge and back (OpenFlow), or the database of ovs-vsctl  *)
(* is changed and read (VSwitch), or the limits of a datapath are          *)
(* (DataPath), or one input is fed to one of the parsers and printers.     *)
(***************************************************************************)
EXTENDS OpenFlow, PortRange, ActionTokens, Dumps, AppTrace, VSwitch, DataPath, TLC

CONSTANTS MaxChars, MaxPorts, MaxLines, MaxPasses   \* bounds of the inputs

ASSUME BoundsAssumption ==
    MaxChars \in Nat /\ MaxPorts \in Nat /\ MaxLines \in Nat /\ MaxPasses \in Nat

VARIABLE input

vars == <<openFlowVars, vswitchVars, dataPathVars, input>>

None == [kind |-> "none"]

-----------------------------------------------------------------------------
(* Matches and actions                                                     *)

Numbers == {-1, 0, 1, 4, 5, 7, 9, 10} \cup UNION {{u - 1, u, u + 3} : u \in {U8, U12, U16, U20, U32, U64}}
NumTokens == {Dec(n) : n \in Numbers} \cup {Hex(n) : n \in Numbers \ {-1}}
FewTokens == {Dec(0), Dec(1), Dec(10), Dec(U16), Hex(0), Hex(1), Hex(U8), Hex(U16 - 1), Hex(U16), Hex(U20)}
Addresses == {IP4(1, 0), IP4(2, 0), IP4(1, 1), IP6(1, 0), IP6(2, 1)}
Macs == {Mac(1, 6), Mac(2, 6), Mac(1, 8)}
Flags == {Flag(i, s) : i \in 1 .. 2, s \in {-1, 0, 1, 2}}

Values1 == {<<t>> : t \in NumTokens \cup Addresses \cup Macs \cup {h \in Flags : h.x # 2} \cup {Empty, Word("any")}}
Values2 == {<<t, u>> : t, u \in FewTokens}
             \cup {<<a, Dec(n)>> : a \in Addresses, n \in {0, 24, 33, 129}}
             \cup {<<a, b>> : a, b \in Macs} 
             \cup {<<f, g>> : f \in {h \in Flags : h.x # 2}, g \in {h \in Flags : h.x # 0}}
Values3 == {<<Hex(1), Hex(1), Hex(1)>>, <<Dec(1), Dec(1), Dec(1)>>}

Keys == DOMAIN MACMatch \cup DOMAIN IntMatch \cup DOMAIN PlainIntMatch \cup DOMAIN PortMatch
          \cup DOMAIN StringMatch \cup DOMAIN FieldWidth
          \cup {"arp_op", "ct_state", "tcp_flags", "ip_frag"}

Fits(u) == {n \in Numbers : 0 <= n /\ n < u}
NumKinds ==
    Over([k \in {"ICMPType", "ICMPCode", "ICMP6Type", "ICMP6Code", "NetworkProtocol"} |-> U8],
         Over([k \in {"ConnectionTrackingZone", "DataLinkType", "ArpOp", "ARPOperation"} |-> U16],
              Single("ConjunctionID", U32)))
IntKinds == {"InPortMatch", "NetworkECN", "NetworkTTL", "TunnelTTL", "TunnelTOS", "NetworkTOS",
             "TunnelGBP", "TunnelGbpFlags", "TunnelFlags"}
MaskKinds ==
    Over([k \in DOMAIN PortKey \cup DOMAIN TCIKey |-> U16],
         Over([k \in {"IPv6Label"} \cup DOMAIN MarkKey |-> U32],
              [k \in DOMAIN MetadataKey \cup DOMAIN TunnelIDKey |-> U64]))

NumberMatches ==
    (UNION {{NumMatch(k, n) : n \in Fits(NumKinds[k])} : k \in DOMAIN NumKinds})
      \cup {NumMatch(k, n) : k \in IntKinds, n \in {i \in Numbers : i < U32 \div 2}}
      \cup {NumMatch(k, n) : k \in {"DataLinkVLAN", "DataLinkVLANPCP"}, n \in Numbers}
MaskMatches == UNION {{MaskMatch(k, a, b) : a, b \in Fits(MaskKinds[k])} : k \in DOMAIN MaskKinds}
AddressMatches ==
    {StrMatch(k, v) : k \in DOMAIN NetworkKey \cup DOMAIN ARPProtocolKey \cup DOMAIN IPv6Key
                              \cup DOMAIN TunnelKey \cup {"NeighborDiscoveryTarget"},
                      v \in {<<a>> : a \in Addresses}
                              \cup {<<a, Dec(n)>> : a \in Addresses, n \in {0, 24, 33}}}
HardwareMatches ==
    {StrMatch(k, <<a>>) : k \in DOMAIN NDKey \cup DOMAIN ARPHardwareKey, a \in Macs}
      \cup {StrMatch(k, v) : k \in {"DataLinkSource", "DataLinkDestination"},
                             v \in {<<a>> : a \in Macs} \cup {<<a, b>> : a, b \in Macs}}
SignedFlags == {h \in Flags : h.x \in {-1, 1}}
FlagMatches ==
    {StrMatch(k, <<f, g>>) : k \in {"ConnectionTrackingState", "TCPFlags"}, f, g \in SignedFlags}
OtherMatches == {StrMatch("IPFrag", <<Word("yes")>>), StrMatch("FieldMatch", <<Word("reg0"), Hex(1)>>)}
MadeMatches ==
    NumberMatches \cup MaskMatches \cup AddressMatches \cup HardwareMatches \cup FlagMatches
      \cup OtherMatches

Strings == {Empty, Word("a"), Word("b")}
Learned(acts) == [NewLearnedFlow EXCEPT !.Actions = acts]

WordActions ==
    {Action(w, <<>>, <<>>) : w \in TextActions}
      \cup {Action(k, <<>>, <<s>>) : k \in {"ConnectionTracking", "OutputField"}, s \in Strings}
      \cup {Action(k, <<>>, <<s, t>>) : k \in {"Load", "SetField", "Move"}, s, t \in Strings}
DataLinkKinds == DOMAIN DataLinkWord
DataLinkActions == {Action(k, <<>>, <<s>>) : k \in DataLinkKinds, s \in Macs}
NetworkKinds == DOMAIN NetworkWord
NetworkActions == {Action(k, <<>>, <<s>>) : k \in NetworkKinds, s \in Addresses}
TransportKinds == DOMAIN TransportWord
TransportActions == {Action(k, <<n>>, <<>>) : k \in TransportKinds, n \in Fits(U16)}
SmallNumbers == {n \in Numbers : n < U64 \div 2}
NumberActions == {Action(k, <<n>>, <<>>) : k \in {"ModVLANVID", "Output", "ResubmitPort"}, n \in SmallNumbers}
TunnelActions == {Action("SetTunnel", <<n>>, <<>>) : n \in Fits(U64)}
ResubmitActions == {Action("Resubmit", <<n, m>>, <<>>) : n, m \in {0, 1, 10}}
ConjunctionActions == {Action("Conjunction", <<i, n, m>>, <<>>) : i \in {-1, 5}, n, m \in {0, 1, 2}}
MadeActions ==
    WordActions \cup DataLinkActions \cup NetworkActions \cup TransportActions \cup NumberActions
      \cup TunnelActions \cup ResubmitActions \cup ConjunctionActions
      \cup {Action("Multipath", <<1, 2, 3>>, <<Word("a"), Word("b"), Word("a")>>)}

LearnActions ==
    {Learn(<<>>)} \cup {Learn(<<Learned(acts)>>) : acts \in
        {<<>>} \cup {<<a>> : a \in MadeActions}
          \cup {<<Action("OutputField", <<>>, <<Word("a")>>), Action("Load", <<>>, <<Word("a"), Word("b")>>)>>}}

TextOf(w, up, args) == [word |-> w, args |-> args, up |-> up, inner |-> <<>>]
PlainWords == TextActions \cup {"set_queue"}
NumberWords == {"mod_tp_dst", "mod_tp_src", "mod_vlan_vid", "output", "resubmit:"}
AddressWords == {"mod_dl_dst", "mod_dl_src", "mod_nw_dst", "mod_nw_src", "ct"}
ArrowWords == {"load", "set_field", "move"}
NumberArgs == NumTokens \cup {Word("a")}
AddressArgs == Macs \cup Addresses \cup Strings
ResubmitArgs == {Empty, Dec(0), Dec(1), Dec(-1), Dec(U64), Hex(1)}
ConjunctionArgs == {Dec(-1), Dec(1), Dec(2), Hex(1), Empty}
ArrowArgs == {<<s, t>> : s, t \in Strings}

PlainTexts == {TextOf(w, up, <<>>) : w \in PlainWords, up \in BOOLEAN}
NumberTexts == {TextOf(w, up, <<t>>) : w \in NumberWords, t \in NumberArgs, up \in BOOLEAN}
AddressTexts == {ActText(w, <<t>>) : w \in AddressWords, t \in AddressArgs}
ResubmitTexts == {ActText("resubmit(", <<s, t>>) : s, t \in ResubmitArgs}
ConjunctionTexts == {ActText("conjunction", <<Dec(1), s, t>>) : s, t \in ConjunctionArgs}
ArrowTexts == {ActText(w, args) : w \in ArrowWords, args \in ArrowArgs}
ActTexts ==
    PlainTexts \cup NumberTexts \cup AddressTexts \cup ResubmitTexts \cup ConjunctionTexts \cup ArrowTexts

-----------------------------------------------------------------------------
(* Statistics and limits                                                   *)

PortStats(i, custom) ==
    [id |-> IF i = 3 THEN PortLocal ELSE i, rx |-> IF i = 2 THEN Unknown ELSE 10 * i,
     tx |-> 10 * i + 1, custom |-> custom]
TableStats(i, shape, n) ==
    [shape |-> shape, id |-> i, active |-> n[1], lookup |-> n[2], matched |-> n[3]]
Shapes == {"name:", "name_:"}
Uses == {<<0, 0, 0>>, <<1, 0, 0>>, <<0, 0, 1>>}

ReplyLines ==
    {DefaultLine(7), CtLine(TRUE, <<CtWord("default")>>), ZoneLine(1, 5), ZoneLine(2, 0), EmptyLine}
SeqsUpTo(S, n) == UNION {[1 .. k -> S] : k \in 1 .. n}

(* The flows of a pass: one that a port sent, one that came back from      *)
(* connection tracking, one with a wrong number.                           *)
SentFlow == <<Bare("tcp"), Field("in_port", <<Word("LOCAL")>>), Field("nw_frag", <<Word("no")>>),
              Field("nw_src", <<IP4(1, 0)>>), Field("tcp_flags", <<Dec(0)>>)>>
BackFlow == <<Field("recirc_id", <<Hex(1)>>), Bare("eth"), Bare("icmp"),
              Field("ct_state", <<Flag(1, 0), Flag(2, 2)>>), Field("in_port", <<Dec(4)>>)>>
OddFlow == <<Bare("ip"), Field("nw_ttl", <<Word("any")>>)>>
PassOf(i, p) == [flow |-> p[1], final |-> p[2], acts |-> [j \in 1 .. p[3] |-> 10 * i + j], actions |-> i]
SomePasses == {SentFlow, BackFlow, OddFlow} \X {BackFlow, <<Bare("unchanged")>>, OddFlow} \X (0 .. 2)

-----------------------------------------------------------------------------
(* Flows                                                                   *)

OutputTo(n) == Action("Output", <<n>>, <<>>)
NetworkMatch == <<StrMatch("NetworkDestination", <<IP4(1, 0), Dec(24)>>)>>
TransportMatch ==
    <<StrMatch("ConnectionTrackingState", <<Flag(1, 1), Flag(2, -1)>>),
      MaskMatch("TransportDestinationMaskedPort", U16 - 8, U16 - 8)>>
SomeActions ==
    {<<Action("drop", <<>>, <<>>), OutputTo(1)>>, <<>>, <<OutputTo(-1)>>,
     <<Action("ConnectionTracking", <<>>, <<Word("commit")>>), Action("normal", <<>>, <<>>)>>,
     <<Action("ModVLANVID", <<10>>, <<>>), Action("Resubmit", <<0, 5>>, <<>>)>>}

(* Flows that can be printed and read back: some differ in one field only. *)
PortFlow(port, matches, cookie) ==
    [NewFlow EXCEPT !.InPort = port, !.Matches = matches, !.Cookie = cookie, !.Actions = <<OutputTo(1)>>]
TransportFlow(table) ==
    [NewFlow EXCEPT !.Priority = 10, !.Protocol = Word("tcp"), !.Matches = TransportMatch,
                    !.Table = table, !.Actions = <<OutputTo(1)>>]
IdleFlow(actions) == [NewFlow EXCEPT !.IdleTimeout = 30, !.Actions = actions]
PlainFlows ==
    {PortFlow(port, matches, cookie) :
        port \in {0, PortLOCAL}, matches \in {<<>>, NetworkMatch}, cookie \in {0, 5}}
      \cup {TransportFlow(table) : table \in {0, 1}}
      \cup {IdleFlow(actions) : actions \in SomeActions}

(* Flows with one match, three of which are not read back as they are. *)
OneMatchFlows ==
    {[NewFlow EXCEPT !.Matches = <<m>>, !.Actions = <<OutputTo(1)>>] :
        m \in {StrMatch("NetworkSource", <<IP4(1, 0)>>), StrMatch("TunnelSrc", <<IP4(1, 0)>>),
               StrMatch("IPFrag", <<Word("yes")>>), NumMatch("InPortMatch", 0)}}

-----------------------------------------------------------------------------
(* The database and the datapath                                           *)

(* Options of two programs, one for the peer and the MTU and one for the   *)
(* policing, which it also turns off; a negative MTU; and none given.      *)
Options(f) == f @@ NoOptions
SomeOptions ==
    {NoOptions, Options("Peer" :> 1 @@ "MTURequest" :> 1),
     Options("MTURequest" :> -1 @@ "IngressRatePolicing" :> 2 @@ "IngressBurstPolicing" :> 1),
     Options("IngressRatePolicing" :> -1 @@ "IngressBurstPolicing" :> -1)}

SomeZoneLists == {<<>>, <<1>>, <<2>>, <<2, 1>>}
SomeLimitMaps ==
    {"default" :> 5, "zone" :> 1 @@ "limit" :> 3, "zone" :> 2 @@ "limit" :> 0,
     "zone" :> 1, "default" :> 1 @@ "limit" :> 2}

-----------------------------------------------------------------------------
(* The run                                                                 *)

FeedMatch ==
    \/ \E k \in Keys, v \in Values1 \cup Values2 \cup Values3 : input' = [kind |-> "field", key |-> k, val |-> v]
    \/ \E m \in MadeMatches : input' = [kind |-> "match", m |-> m]
FeedAction ==
    \/ \E a \in MadeActions : input' = [kind |-> "action", a |-> a]
    \/ \E a \in LearnActions : input' = [kind |-> "action", a |-> a]
    \/ \E t \in ActTexts : input' = [kind |-> "acttext", text |-> t]
FeedActions == \E cs \in SeqsUpTo(Chars, MaxChars) : input' = [kind |-> "cut", chars |-> cs]
FeedRange ==
    \E k \in DOMAIN PortKey, s, e \in Ports : input' = [kind |-> "range", key |-> k, start |-> s, end |-> e]
FeedPorts ==
    \E c \in SeqsUpTo(BOOLEAN, MaxPorts), of13 \in BOOLEAN :
        input' = [kind |-> "ports", of13 |-> of13, ports |-> [i \in DOMAIN c |-> PortStats(i, c[i])]]
FeedTables ==
    \E s \in SeqsUpTo(Shapes \X Uses, 2) :
        input' = [kind |-> "tables", tables |-> [i \in DOMAIN s |-> TableStats(i, s[i][1], s[i][2])]]
FeedAggregate ==
    \E w \in SeqsUpTo({"reply", "packet_count", "byte_count", "flow_count"}, MaxLines) :
        input' = [kind |-> "aggregate", words |-> [i \in DOMAIN w |-> [key |-> w[i], n |-> i]]]
FeedLimits ==
    \/ \E r \in SeqsUpTo(ReplyLines, MaxLines) : input' = [kind |-> "ctget", reply |-> r]
    \/ \E ks \in SUBSET {"default", "zone", "limit", "count"} : input' = [kind |-> "ctset", keys |-> ks]
FeedTrace ==
    \E t \in SeqsUpTo(SomePasses, MaxPasses), m \in {NetworkMatch, <<StrMatch("NetworkSource", <<IP6(1, 0)>>)>>} :
        input' = [kind |-> "trace", passes |-> [i \in DOMAIN t |-> PassOf(i, t[i])], matches |-> m]

Feed ==
    \/ FeedMatch \/ FeedAction \/ FeedActions \/ FeedRange \/ FeedPorts
    \/ FeedTables \/ FeedAggregate \/ FeedLimits \/ FeedTrace

Init == OpenFlowInit /\ VSwitchInit /\ DataPathInit /\ input = None

Take == input # None /\ input' = None /\ UNCHANGED <<openFlowVars, vswitchVars, dataPathVars>>

Next ==
    \/ /\ input = None /\ VSwitchInit /\ DataPathInit /\ OpenFlowNext
       /\ UNCHANGED <<input, vswitchVars, dataPathVars>>
    \/ /\ input = None /\ OpenFlowInit /\ DataPathInit /\ VSwitchNext
       /\ UNCHANGED <<input, openFlowVars, dataPathVars>>
    \/ /\ input = None /\ OpenFlowInit /\ VSwitchInit /\ DataPathNext
       /\ UNCHANGED <<input, openFlowVars, vswitchVars>>
    \/ /\ Init /\ Feed /\ UNCHANGED <<openFlowVars, vswitchVars, dataPathVars>>
    \/ Take

Spec == Init /\ [][Next]_vars

-----------------------------------------------------------------------------
(* Properties                                                              *)

(* The state of the callers, of the bridge, of the database (no port is    *)
(* without its bridge) and of the datapath.                                *)
TypeOK ==
    /\ \A t \in installed : t.fields # <<>> /\ t.actions # <<>>
    /\ Len(dumped) <= Len(lines) /\ Len(lines) <= MaxInstalled
    /\ complete \in BOOLEAN /\ result \in {"ok", "error"} /\ deleted.op \in {"none", "delete"}
    /\ deleted.removed \cap installed = {}
    /\ VSwitchTypeOK /\ DataPathTypeOK

(* A field of a dumped flow keeps its key, number, address, mask and flags *)
(* through parseMatch and MarshalText, or is an error (ValueKept).         *)
FieldsKept == input.kind = "field" => ValueKept(input.key, input.val)

(* A match of the library is read back from its own text, and printed the  *)
(* same again (MatchReadBack; ovs/match.go and ovs/matchparser.go).        *)
MatchesReadBack == input.kind = "match" => MatchReadBack(input.m)

(* The text of an action is parsed as that action or rejected, and is      *)
(* never taken for another one (ActionReadBack; ovs/actionparser.go).      *)
ActionsReadBack == input.kind = "action" => ActionReadBack(input.a)

(* A dumped action keeps its word and its arguments through parseAction    *)
(* and MarshalText, or is an error (ActionKept).                           *)
ActionsKept == input.kind = "acttext" => ActionKept(input.text)

(* actionParser.Parse cuts a list of actions at the commas outside         *)
(* parentheses and nowhere else, and panics only at a parenthesis that     *)
(* closes nothing (CutExact).                                              *)
ActionsCut == input.kind = "cut" => CutExact(input.chars)

(* The printed matches of MaskedPorts select each port of the range once   *)
(* and no other (RangeExact; ovs/portrange.go).                            *)
RangesExact == input.kind = "range" => RangeExact(input.key, input.start, input.end)

(* The statistics of ports and tables are those that were printed, or the  *)
(* call returns an error (PortsExact, TablesExact; parseEach); so are the  *)
(* totals of dump-aggregate (AggregateExact; ovs/flowstats.go).            *)
DumpsExact ==
    /\ input.kind = "ports" => PortsExact(input.ports, input.of13)
    /\ input.kind = "tables" => TablesExact(input.tables)
    /\ input.kind = "aggregate" => AggregateExact(input.words)

(* ProtoTrace returns the actions of every pass of a packet in their       *)
(* order, and the flows of the last one, or an error (TraceExact;          *)
(* ovs/proto_trace.go).                                                    *)
TracesExact == input.kind = "trace" => TraceExact(input.passes, input.matches)

(* GetCTLimits returns the limits of the reply, each once; SetCTLimits     *)
(* runs the command for a default alone or for a zone with its limit, and  *)
(* for nothing else (LimitsExact, ctSetLimitsArgs; ovs/datapath.go).       *)
CtLimitsExact ==
    /\ input.kind = "ctget" => LimitsExact(input.reply)
    /\ input.kind = "ctset" =>
          LET r == ctSetLimitsArgs(input.keys)
          IN  r.ok <=> r.args \in {{"default"}, {"zone", "limit"}}
=============================================================================
