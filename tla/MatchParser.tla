----------------------------- MODULE MatchParser -----------------------------
(***************************************************************************)
(* parseMatch (ovs/matchparser.go): the match that a key and a value stand *)
(* for.  The result is Ok(match), Fail for an error, or Skipped, without a *)
(* match, when the key is not known: the caller goes on.                   *)
(***************************************************************************)
EXTENDS Matches

NoMatch == NumMatch("nil", 0)
Skipped == Ok(NoMatch)

MaxInt32 == (U32 \div 2) - 1

(* Mutant of parseClampInt: the largest number is off by one. *)
parseClampIntLoose(v, max) ==
    IF Len(v) # 1 THEN Fail
    ELSE Then(Atoi(v[1]), LAMBDA n : IF n <= max + 1 THEN Ok(n) ELSE Fail)

(* There is an upper bound only. *)
parseClampInt(v, max) ==
    IF Len(v) # 1 THEN Fail
    ELSE Then(Atoi(v[1]), LAMBDA n : IF n <= max THEN Ok(n) ELSE Fail)

(* The conversion of an int to an unsigned type of u values. *)
IntKind(kind, u) == [kind |-> kind, u |-> u]

IntMatch ==
    [icmp_type |-> IntKind("ICMPType", U8), icmp_code |-> IntKind("ICMPCode", U8),
     icmpv6_type |-> IntKind("ICMP6Type", U8), icmpv6_code |-> IntKind("ICMP6Code", U8),
     nw_proto |-> IntKind("NetworkProtocol", U8),
     ct_zone |-> IntKind("ConnectionTrackingZone", U16),
     conj_id |-> IntKind("ConjunctionID", U32)]

(* Those whose field is an int, which keeps a negative number. *)
PlainIntMatch ==
    [in_port |-> "InPortMatch", nw_ecn |-> "NetworkECN", nw_ttl |-> "NetworkTTL",
     tun_ttl |-> "TunnelTTL", tun_tos |-> "TunnelTOS", nw_tos |-> "NetworkTOS",
     tun_gbp_id |-> "TunnelGBP", tun_gbp_flags |-> "TunnelGbpFlags",
     tun_flags |-> "TunnelFlags"]

parseIntMatch(key, v) ==
    IF key \in DOMAIN IntMatch
    THEN Then(parseClampInt(v, IntMatch[key].u - 1),
              LAMBDA n : Ok(NumMatch(IntMatch[key].kind, n % IntMatch[key].u)))
    ELSE Then(parseClampInt(v, MaxInt32), LAMBDA n : Ok(NumMatch(PlainIntMatch[key], n)))

PortMatch ==
    [tp_src |-> "TransportSourceMaskedPort", tp_dst |-> "TransportDestinationMaskedPort",
     udp_src |-> "UDPSourceMaskedPort", udp_dst |-> "UDPDestinationMaskedPort"]

(* One number is decimal, two are hexadecimal, with 0x or without. *)
parsePort(key, v) ==
    IF Len(v) = 1
    THEN Then(parseClampInt(v, U16 - 1), LAMBDA n : Ok(NumMatch(PortMatch[key], n % U16)))
    ELSE IF Len(v) = 2
    THEN Then(ParseHex(v[1], U16), LAMBDA n :
             Then(ParseHex(v[2], U16), LAMBDA mask : Ok(MaskMatch(PortMatch[key], n, mask))))
    ELSE Fail

MACMatch ==
    [arp_sha |-> "ARPSourceHardwareAddress", arp_tha |-> "ARPTargetHardwareAddress",
     nd_sll |-> "NeighborDiscoverySourceLinkLayer",
     nd_tll |-> "NeighborDiscoveryTargetLinkLayer"]

(* net.ParseMAC knows addresses of 6, 8 and 20 octets. *)
parseMACMatch(key, v) ==
    IF Len(v) = 1 /\ IsMac(v[1], {6, 8, 20}) THEN Ok(StrMatch(MACMatch[key], v)) ELSE Fail

(* Flags with bars between them are all set, and so is a flag alone; a     *)
(* sign before the first of flags with bars leaves a plus before it.       *)
parseCTState(v) ==
    LET bar     == \E i \in DOMAIN v : v[i].x = 2
        signed  == \E i \in DOMAIN v : v[i].x \in {1, -1}
        plus    == [i \in DOMAIN v |-> IF v[i].x \in {0, 2} THEN [v[i] EXCEPT !.x = 1] ELSE v[i]]
        stray   == IF bar /\ v[1].x \in {1, -1} THEN <<Word("+")>> ELSE <<>>
    IN  Ok(StrMatch("ConnectionTrackingState",
                    IF bar \/ ~signed THEN stray \o plus ELSE v))

(* A number is kept; otherwise each flag takes four characters, its sign   *)
(* included, which only a list of signed flags does (or no flag at all).   *)
parseTCPFlags(v) ==
    IF \/ Len(v) = 1 /\ Atoi(v[1]).ok
       \/ v = <<Empty>>
       \/ \A i \in 1 .. Len(v) : v[i].x \in {1, -1}
    THEN Ok(StrMatch("TCPFlags", v)) ELSE Fail

parseHexUint16(tok) == Then(ParseHex(tok, U32), LAMBDA n : Ok(n % U16))
parseHexUint32(tok) == ParseHex(tok, U32)
parseHexUint64(tok) == ParseHex(tok, U64)

parseVLAN(kind, v) ==
    IF Len(v) # 1 THEN Fail
    ELSE Then(IF v[1].t = "hex" THEN parseHexUint16(v[1]) ELSE Atoi(v[1]),
              LAMBDA n : Ok(NumMatch(kind, n)))
parseDataLinkVLAN(v) == parseVLAN("DataLinkVLAN", v)
parseDataLinkVLANPCP(v) == parseVLAN("DataLinkVLANPCP", v)

(* One or two numbers, decimal or hexadecimal, cut to u values. *)
parseMasked(kind, v, u) ==
    LET hex(tok)  == IF u = U16 THEN parseHexUint16(tok)
                     ELSE IF u = U32 THEN parseHexUint32(tok) ELSE parseHexUint64(tok)
        num(tok)  == IF tok.t = "hex" THEN hex(tok) ELSE Atoi(tok)
    IN  IF Len(v) = 1 THEN Then(num(v[1]), LAMBDA n : Ok(NumMatch(kind, n % u)))
        ELSE IF Len(v) = 2
        THEN Then(num(v[1]), LAMBDA n :
                 Then(num(v[2]), LAMBDA mask : Ok(MaskMatch(kind, n % u, mask % u))))
        ELSE Fail

parseVLANTCI(v)   == parseMasked("VLANTCI", v, U16)
parseVLANTCI1(v)  == parseMasked("VLANTCI1", v, U16)
parseIPv6Label(v) == parseMasked("IPv6Label", v, U32)
parseCTMark(v)    == parseMasked("ConnectionTrackingMark", v, U32)
parseMetadata(v)  == parseMasked("MetadataWithMask", v, U64)
parseTunID(v)     == parseMasked("TunnelIDWithMask", v, U64)

parseArpOp(v) ==
    IF Len(v) # 1 THEN Fail
    ELSE Then(IF v[1].t = "hex" THEN parseHexUint16(v[1])
              ELSE IF v[1].t = "dec" /\ 0 <= v[1].n /\ v[1].n < U16 THEN Ok(v[1].n) ELSE Fail,
              LAMBDA n : Ok(NumMatch("ArpOp", n)))

(* Strings are taken as they are, and looked at only when printed again.   *)
(* The address of a tunnel becomes that of the packet.                     *)
StringMatch ==
    [arp_spa |-> "ARPSourceProtocolAddress", arp_tpa |-> "ARPTargetProtocolAddress",
     dl_src |-> "DataLinkSource", dl_dst |-> "DataLinkDestination",
     nd_target |-> "NeighborDiscoveryTarget",
     ipv6_src |-> "IPv6Source", ipv6_dst |-> "IPv6Destination",
     tun_ipv6_src |-> "IPv6Source", tun_ipv6_dst |-> "IPv6Destination",
     nw_src |-> "NetworkSource", nw_dst |-> "NetworkDestination",
     tun_src |-> "NetworkSource", tun_dst |-> "NetworkDestination"]

parseMatch(key, v) ==
    CASE key \in DOMAIN MACMatch -> parseMACMatch(key, v)
      [] key = "arp_op" -> parseArpOp(v)
      [] key \in DOMAIN IntMatch \cup DOMAIN PlainIntMatch -> parseIntMatch(key, v)
      [] key \in DOMAIN PortMatch -> parsePort(key, v)
      [] key \in DOMAIN StringMatch -> Ok(StrMatch(StringMatch[key], v))
      [] key = "ct_state" -> parseCTState(v)
      [] key = "tcp_flags" -> parseTCPFlags(v)
      [] key = "dl_type" ->
            IF Len(v) # 1 THEN Fail
            ELSE Then(parseHexUint16(v[1]), LAMBDA n : Ok(NumMatch("DataLinkType", n)))
      [] key = "dl_vlan_pcp" -> parseDataLinkVLANPCP(v)
      [] key = "dl_vlan" -> parseDataLinkVLAN(v)
      [] key = "metadata" -> parseMetadata(v)
      [] key = "ipv6_label" -> parseIPv6Label(v)
      [] key = "vlan_tci1" -> parseVLANTCI1(v)
      [] key = "vlan_tci" -> parseVLANTCI(v)
      [] key = "ct_mark" -> parseCTMark(v)
      [] key = "tun_id" -> parseTunID(v)
      [] OTHER -> Skipped

-----------------------------------------------------------------------------
(* Properties                                                              *)

(* The keys of the tunnel's addresses become those of the packet's. *)
Renamed == {"tun_src", "tun_dst", "tun_ipv6_src", "tun_ipv6_dst"}

(* Constructors whose text is read as another match, or skipped. *)
Unread == {"IPFrag", "FieldMatch", "ARPOperation", "TunnelSrc", "TunnelDst"}

(* Keys whose numbers are checked against their width before they are cut. *)
Clamped == DOMAIN IntMatch \cup DOMAIN PlainIntMatch \cup DOMAIN PortMatch

FieldWidth ==
    Over([k \in {"dl_type", "dl_vlan", "dl_vlan_pcp", "vlan_tci", "vlan_tci1", "arp_op"} |-> U16],
         Over([k \in {"ipv6_label", "ct_mark"} |-> U32], [k \in {"metadata", "tun_id"} |-> U64]))

(* What ovs-ofctl prints: no negative number or empty mask, no number      *)
(* wider than its field (where the parser does not reject it by itself),   *)
(* dl_type and masked ports in hexadecimal, flags either with signs or     *)
(* with bars.                                                              *)
Printed(key, val) ==
    /\ \A i, j \in DOMAIN val : ~(val[i].x \in {1, -1} /\ val[j].x = 2)
    /\ \A i \in DOMAIN val :
        val[i].t \in {"dec", "hex"} =>
            /\ val[i].n >= (IF i = 1 THEN 0 ELSE 1)
            /\ key \in DOMAIN FieldWidth => val[i].n < FieldWidth[key]
            /\ (key = "dl_type" \/ (key \in DOMAIN PortMatch /\ Len(val) = 2)) => val[i].t = "hex"

SameValue(val, new) ==
    /\ Len(val) = Len(new)
    /\ \A i \in DOMAIN val : /\ val[i].n = new[i].n
                             /\ (val[i].t = "flag" /\ val[i].x \in {1, -1}) => new[i].x = val[i].x

(* What is parsed and printed again; Fail if there is no match. *)
PrintedAgain(key, val) ==
    Then(parseMatch(key, val), LAMBDA m : IF m = NoMatch THEN Fail ELSE MarshalMatch(m))

(* A field of a dumped flow that parseMatch reads and MarshalText prints   *)
(* again keeps its key, its number or address, its mask and its flags;     *)
(* what cannot be kept is an error, never another value.                   *)
ValueKept(key, val) ==
    LET kept(r) == r.ok => r.v.key = key /\ SameValue(val, r.v.val)
    IN  key \notin Renamed /\ Printed(key, val) => kept(PrintedAgain(key, val))

(* Every match of the library but those of Unread can be read back from    *)
(* its own text, and is then printed as the same text; a second reading    *)
(* gives the same match.                                                   *)
MatchReadBack(m) ==
    LET readBack(text) == text.ok => PrintedAgain(text.v.key, text.v.val) = text
    IN  m.kind \notin Unread => readBack(MarshalMatch(m))
=============================================================================
