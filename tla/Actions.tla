------------------------------ MODULE Actions ------------------------------
(***************************************************************************)
(* The actions of a flow: how each is printed (MarshalText, ovs/action.go) *)
(* and how a text is parsed (ovs/actionparser.go).                         *)
(*                                                                         *)
(* An action is named by its constructor; n are its numbers, s its strings *)
(* and addresses, sub the learned flow of Learn.  The text of an action is *)
(* its word and its arguments; up tells that the word is in upper case,    *)
(* inner is the text of the flow in the parentheses of learn.              *)
(* The strings of ct, load, set_field, move and multipath have no blanks.  *)
(***************************************************************************)
EXTENDS Matches

CONSTANT MaxPortID   \* 0xfffffeff

Action(kind, n, s) == [kind |-> kind, n |-> n, s |-> s, sub |-> <<>>]
Learn(learned) == [Action("Learn", <<>>, <<>>) EXCEPT !.sub = learned]

ActText(word, args) == [word |-> word, args |-> args, up |-> FALSE, inner |-> <<>>]

Decs(n) == [i \in 1 .. Len(n) |-> Dec(n[i])]

-----------------------------------------------------------------------------
(* Printing                                                                *)

TextActions == {"all", "drop", "flood", "in_port", "local", "normal", "strip_vlan"}

MarshalCT(a) == IF a.s[1] = Empty THEN Fail ELSE Ok(ActText("ct", a.s))

DataLinkWord == [ModDataLinkDestination |-> "mod_dl_dst", ModDataLinkSource |-> "mod_dl_src"]
MarshalModDataLink(a) ==
    IF IsMac(a.s[1], {6}) THEN Ok(ActText(DataLinkWord[a.kind], a.s)) ELSE Fail

(* The constructors keep the address of four bytes, or nil. *)
NetworkWord == [ModNetworkDestination |-> "mod_nw_dst", ModNetworkSource |-> "mod_nw_src"]
MarshalModNetwork(a) ==
    IF a.s[1].t = "ip4" THEN Ok(ActText(NetworkWord[a.kind], <<Canonical(a.s[1])>>)) ELSE Fail

TransportWord ==
    [ModTransportDestinationPort |-> "mod_tp_dst", ModTransportSourcePort |-> "mod_tp_src"]
MarshalModTransportPort(a) == Ok(ActText(TransportWord[a.kind], Decs(a.n)))

MarshalModVLANVID(a) ==
    IF validVLANVID(a.n[1]) THEN Ok(ActText("mod_vlan_vid", Decs(a.n))) ELSE Fail

MarshalOutput(a) == IF a.n[1] < 0 THEN Fail ELSE Ok(ActText("output", Decs(a.n)))

MarshalOutputField(a) == IF a.s[1] = Empty THEN Fail ELSE Ok(ActText("output", a.s))

MarshalMultipath(a) ==
    Ok(ActText("multipath", <<a.s[1], Dec(a.n[1]), a.s[2], Dec(a.n[2]), Dec(a.n[3]), a.s[3]>>))

MarshalConjunction(a) ==
    IF a.n[2] > a.n[3] THEN Fail ELSE Ok(ActText("conjunction", Decs(a.n)))

MarshalResubmitPort(a) ==
    IF a.n[1] \notin 0 .. MaxPortID THEN Fail ELSE Ok(ActText("resubmit:", Decs(a.n)))

(* A zero is left out: it means the port or the table of the packet. *)
MarshalResubmit(a) ==
    IF a.n = <<0, 0>> THEN Fail
    ELSE Ok(ActText("resubmit(",
             [i \in 1 .. 2 |-> IF a.n[i] = 0 THEN Empty ELSE Dec(a.n[i])]))

(* load, set_field and move: an arrow between two strings. *)
ArrowWord == [Load |-> "load", SetField |-> "set_field"]
MarshalLoadSetField(a) ==
    IF Empty \in {a.s[1], a.s[2]} THEN Fail ELSE Ok(ActText(ArrowWord[a.kind], a.s))
MarshalMove(a) == IF Empty \in {a.s[1], a.s[2]} THEN Fail ELSE Ok(ActText("move", a.s))

MarshalSetTunnel(a) == Ok(ActText("set_tunnel", <<Hex(a.n[1])>>))

(* Every action but Learn. *)
MarshalSimple(a) ==
    CASE a.kind \in TextActions -> Ok(ActText(a.kind, <<>>))
      [] a.kind = "ConnectionTracking" -> MarshalCT(a)
      [] a.kind \in DOMAIN DataLinkWord -> MarshalModDataLink(a)
      [] a.kind \in DOMAIN NetworkWord -> MarshalModNetwork(a)
      [] a.kind \in DOMAIN TransportWord -> MarshalModTransportPort(a)
      [] a.kind = "ModVLANVID" -> MarshalModVLANVID(a)
      [] a.kind = "Output" -> MarshalOutput(a)
      [] a.kind = "OutputField" -> MarshalOutputField(a)
      [] a.kind = "Multipath" -> MarshalMultipath(a)
      [] a.kind = "Conjunction" -> MarshalConjunction(a)
      [] a.kind = "ResubmitPort" -> MarshalResubmitPort(a)
      [] a.kind = "Resubmit" -> MarshalResubmit(a)
      [] a.kind \in DOMAIN ArrowWord -> MarshalLoadSetField(a)
      [] a.kind = "SetTunnel" -> MarshalSetTunnel(a)
      [] a.kind = "Move" -> MarshalMove(a)

-----------------------------------------------------------------------------
(* Parsing                                                                 *)

(* Sscanf with %d: the digits of a number, of which a hexadecimal one has  *)
(* only its leading zero.  What follows is left unread.                    *)
ScanInt(tok) == IF tok.t = "hex" THEN Ok(0) ELSE Atoi(tok)
(* Mutant of ScanUint16: a number too large is cut to its lowest bits. *)
ScanUint16Cut(tok) ==
    Then(ScanInt(tok), LAMBDA n : Ok(n % U16))

ScanUint16(tok) ==
    Then(ScanInt(tok), LAMBDA n : IF n \in 0 .. U16 - 1 THEN Ok(n) ELSE Fail)

SimpleWords == TextActions \ {"all"}

parseModDataLink(kind, t) ==
    IF IsMac(t.args[1], {6, 8, 20}) THEN Ok(Action(kind, <<>>, t.args)) ELSE Fail
parseModNetwork(kind, t) ==
    IF t.args[1].t = "ip4" THEN Ok(Action(kind, <<>>, <<Canonical(t.args[1])>>)) ELSE Fail
parseModTransport(kind, t) ==
    Then(ScanUint16(t.args[1]), LAMBDA n : Ok(Action(kind, <<n>>, <<>>)))
parseNumber(kind, t) ==
    Then(ScanInt(t.args[1]), LAMBDA n : Ok(Action(kind, <<n>>, <<>>)))

(* The literals between the numbers must follow their last digits. *)
parseConjunction(t) ==
    IF Len(t.args) = 3 /\ \A i \in 1 .. 3 : Atoi(t.args[i]).ok
    THEN Ok(Action("Conjunction", [i \in 1 .. 3 |-> t.args[i].n], <<>>)) ELSE Fail

(* Mutant of parseResubmit: the table is read from the group of the port. *)
parseResubmitSwapped(t) ==
    IF \A i \in 1 .. 2 : t.args[i] = Empty \/ (Atoi(t.args[i]).ok /\ t.args[i].n >= 0)
    THEN Ok(Action("Resubmit", <<t.args[1].n, t.args[1].n>>, <<>>)) ELSE Fail

(* The pattern has no sign, and an empty part is zero (as is Empty.n). *)
parseResubmit(t) ==
    IF \A i \in 1 .. 2 : t.args[i] = Empty \/ (Atoi(t.args[i]).ok /\ t.args[i].n >= 0)
    THEN Ok(Action("Resubmit", <<t.args[1].n, t.args[2].n>>, <<>>)) ELSE Fail

parseResubmitPort(t) ==
    Then(ScanInt(t.args[1]),
         LAMBDA n : IF n >= 0 THEN Ok(Action("ResubmitPort", <<n>>, <<>>)) ELSE Fail)

(* The pattern of load is not anchored: it is found inside learn(...), and *)
(* takes the rest of the text, the closing parenthesis included.           *)
Junk == Word("junk")
HasLoad(t) == \E i \in DOMAIN t.inner : \E j \in DOMAIN t.inner[i].actions :
                 t.inner[i].actions[j].word = "load"
parseArrow(kind, t) ==
    IF Empty \in {t.args[1], t.args[2]} THEN Fail ELSE Ok(Action(kind, <<>>, t.args))

parseWithArguments(t) ==
    CASE t.word = "ct" ->
            IF t.args[1] = Empty THEN Fail ELSE Ok(Action("ConnectionTracking", <<>>, t.args))
      [] t.word = "mod_dl_dst" -> parseModDataLink("ModDataLinkDestination", t)
      [] t.word = "mod_dl_src" -> parseModDataLink("ModDataLinkSource", t)
      [] t.word = "mod_nw_dst" -> parseModNetwork("ModNetworkDestination", t)
      [] t.word = "mod_nw_src" -> parseModNetwork("ModNetworkSource", t)
      [] t.word = "mod_tp_dst" -> parseModTransport("ModTransportDestinationPort", t)
      [] t.word = "mod_tp_src" -> parseModTransport("ModTransportSourcePort", t)
      [] t.word = "mod_vlan_vid" -> parseNumber("ModVLANVID", t)
      [] t.word = "conjunction" -> parseConjunction(t)
      [] t.word = "output" -> parseNumber("Output", t)
      [] t.word = "resubmit(" -> parseResubmit(t)
      [] t.word = "resubmit:" -> parseResubmitPort(t)
      [] t.word = "load" -> parseArrow("Load", t)
      [] t.word = "learn" /\ HasLoad(t) -> Ok(Action("Load", <<>>, <<Junk, Junk>>))
      [] t.word = "move" -> parseArrow("Move", t)
      [] t.word = "set_field" -> parseArrow("SetField", t)
      [] OTHER -> Fail

(* Only a word of the first kind may be in upper case. *)
parseAction(t) ==
    IF t.word \in SimpleWords THEN Ok(Action(t.word, <<>>, <<>>))
    ELSE IF t.up THEN Fail ELSE parseWithArguments(t)
=============================================================================
