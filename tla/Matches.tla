------------------------------ MODULE Matches ------------------------------
(***************************************************************************)
(* The matches of a flow: how each is printed (MarshalText, ovs/match.go)  *)
(* and how a key and a value are parsed (parseMatch, ovs/matchparser.go).  *)
(*                                                                         *)
(* A match is named by its constructor; a and b are its number and mask,   *)
(* s its string or hardware address.  GoString is left out.                *)
(***************************************************************************)
EXTENDS Values, PartialFunctions

Match(kind, a, b, s) == [kind |-> kind, a |-> a, b |-> b, s |-> s]
NumMatch(kind, a) == Match(kind, a, 0, <<Empty>>)
MaskMatch(kind, a, b) == Match(kind, a, b, <<Empty>>)
StrMatch(kind, s) == Match(kind, 0, 0, s)

(* A field key=value of a flow, at the end of a comma or of ", ". *)
Field(key, val) == [key |-> key, val |-> val, blank |-> FALSE]

-----------------------------------------------------------------------------
(* Printing                                                                *)

(* Parts in hexadecimal, without the mask if it is zero. *)
Masked(a, b) == IF b = 0 THEN <<Hex(a)>> ELSE <<Hex(a), Hex(b)>>

IsMac(tok, octets) == tok.t = "mac" /\ tok.x \in octets

MarshalDataLink(m) ==
    IF Len(m.s) <= 2 /\ \A i \in 1 .. Len(m.s) : IsMac(m.s[i], {6})
    THEN Ok(Field(IF m.kind = "DataLinkSource" THEN "dl_src" ELSE "dl_dst", m.s))
    ELSE Fail

VLANNone == U16 - 1
validVLANVID(vid) == 0 <= vid /\ vid < U12
validVLANPCP(pcp) == 0 <= pcp /\ pcp <= 7
validARPOP(op) == 1 <= op /\ op <= 4
validIPv6Label(label) == label < U20

MarshalVLAN(m) ==
    CASE m.kind = "DataLinkType" -> Ok(Field("dl_type", <<Hex(m.a)>>))
      [] m.kind = "DataLinkVLAN" ->
            IF m.a = VLANNone THEN Ok(Field("dl_vlan", <<Hex(VLANNone)>>))
            ELSE IF validVLANVID(m.a) THEN Ok(Field("dl_vlan", <<Dec(m.a)>>)) ELSE Fail
      [] m.kind = "DataLinkVLANPCP" ->
            IF validVLANPCP(m.a) THEN Ok(Field("dl_vlan_pcp", <<Dec(m.a)>>)) ELSE Fail

(* An address block is printed as it was spelled, a single address as      *)
(* net.IP prints it.                                                       *)
matchAddress(key, family, s) ==
    IF s[1].t # family \/ ~(IsCIDR(s) \/ Len(s) = 1) THEN Fail
    ELSE Ok(Field(key, IF IsCIDR(s) THEN s ELSE <<Canonical(s[1])>>))

matchIPv4AddressOrCIDR(key, s) == matchAddress(key, "ip4", s)
matchIPv6AddressOrCIDR(key, s) == matchAddress(key, "ip6", s)

matchEthernetHardwareAddress(key, s) ==
    IF Len(s) = 1 /\ IsMac(s[1], {6}) THEN Ok(Field(key, s)) ELSE Fail

NetworkKey == [NetworkSource |-> "nw_src", NetworkDestination |-> "nw_dst"]
IPv6Key    == [IPv6Source |-> "ipv6_src", IPv6Destination |-> "ipv6_dst"]
TunnelKey  == [TunnelSrc |-> "tun_src", TunnelDst |-> "tun_dst"]
ARPProtocolKey ==
    [ARPSourceProtocolAddress |-> "arp_spa", ARPTargetProtocolAddress |-> "arp_tpa"]
ARPHardwareKey ==
    [ARPSourceHardwareAddress |-> "arp_sha", ARPTargetHardwareAddress |-> "arp_tha"]
NDKey ==
    [NeighborDiscoverySourceLinkLayer |-> "nd_sll",
     NeighborDiscoveryTargetLinkLayer |-> "nd_tll"]

(* Numbers printed in decimal as they are. *)
QosKey ==
    [NetworkECN |-> "nw_ecn", NetworkTOS |-> "nw_tos", TunnelGBP |-> "tun_gbp_id",
     TunnelGbpFlags |-> "tun_gbp_flags", TunnelFlags |-> "tun_flags"]
TTLKey ==
    [NetworkTTL |-> "nw_ttl", TunnelTTL |-> "tun_ttl", ConjunctionID |-> "conj_id",
     TunnelTOS |-> "tun_tos", NetworkProtocol |-> "nw_proto"]
ICMPKey ==
    [ICMPType |-> "icmp_type", ICMPCode |-> "icmp_code",
     ICMP6Type |-> "icmpv6_type", ICMP6Code |-> "icmpv6_code"]
InPortKey == [InPortMatch |-> "in_port"]
ARPOperationKey == [ARPOperation |-> "arp_op"]
ZoneKey == [ConnectionTrackingZone |-> "ct_zone"]

DecimalKey ==
    Over(QosKey, Over(TTLKey, Over(ICMPKey, Over(InPortKey, Over(ARPOperationKey, ZoneKey)))))

(* Mutant of portText: a mask of all ones is left out as well. *)
portTextShort(a, b) == IF b \in {0, U16 - 1} THEN <<Dec(a)>> ELSE <<Dec(a), Hex(b)>>

portText(a, b) == IF b = 0 THEN <<Dec(a)>> ELSE <<Hex(a), Hex(b)>>

PortKey ==
    [TransportSourceMaskedPort |-> "tp_src", TransportDestinationMaskedPort |-> "tp_dst",
     UDPSourceMaskedPort |-> "udp_src", UDPDestinationMaskedPort |-> "udp_dst"]

TCIKey == [VLANTCI |-> "vlan_tci", VLANTCI1 |-> "vlan_tci1"]
MarkKey == [ConnectionTrackingMark |-> "ct_mark"]
MetadataKey == [MetadataWithMask |-> "metadata"]
TunnelIDKey == [TunnelIDWithMask |-> "tun_id"]
MaskedKey == Over(TCIKey, Over(MarkKey, Over(MetadataKey, TunnelIDKey)))

MarshalIPv6Label(m) ==
    IF validIPv6Label(m.a) /\ validIPv6Label(m.b)
    THEN Ok(Field("ipv6_label", Masked(m.a, m.b))) ELSE Fail

MarshalArpOp(m) == IF validARPOP(m.a) THEN Ok(Field("arp_op", <<Dec(m.a)>>)) ELSE Fail

(* The flags are joined; a flag may also be a number. *)
FlagKey == [ConnectionTrackingState |-> "ct_state"]
TCPFlagKey == [TCPFlags |-> "tcp_flags"]

MarshalMatch(m) ==
    CASE m.kind \in {"DataLinkSource", "DataLinkDestination"} -> MarshalDataLink(m)
      [] m.kind \in {"DataLinkType", "DataLinkVLAN", "DataLinkVLANPCP"} -> MarshalVLAN(m)
      [] m.kind \in DOMAIN NetworkKey -> matchIPv4AddressOrCIDR(NetworkKey[m.kind], m.s)
      [] m.kind \in DOMAIN TunnelKey -> matchIPv4AddressOrCIDR(TunnelKey[m.kind], m.s)
      [] m.kind \in DOMAIN ARPProtocolKey ->
            matchIPv4AddressOrCIDR(ARPProtocolKey[m.kind], m.s)
      [] m.kind \in DOMAIN IPv6Key -> matchIPv6AddressOrCIDR(IPv6Key[m.kind], m.s)
      [] m.kind = "NeighborDiscoveryTarget" -> matchIPv6AddressOrCIDR("nd_target", m.s)
      [] m.kind \in DOMAIN NDKey -> matchEthernetHardwareAddress(NDKey[m.kind], m.s)
      [] m.kind \in DOMAIN ARPHardwareKey ->
            matchEthernetHardwareAddress(ARPHardwareKey[m.kind], m.s)
      [] m.kind \in DOMAIN DecimalKey -> Ok(Field(DecimalKey[m.kind], <<Dec(m.a)>>))
      [] m.kind \in DOMAIN PortKey -> Ok(Field(PortKey[m.kind], portText(m.a, m.b)))
      [] m.kind \in DOMAIN MaskedKey -> Ok(Field(MaskedKey[m.kind], Masked(m.a, m.b)))
      [] m.kind = "IPv6Label" -> MarshalIPv6Label(m)
      [] m.kind = "ArpOp" -> MarshalArpOp(m)
      [] m.kind \in DOMAIN FlagKey -> Ok(Field(FlagKey[m.kind], m.s))
      [] m.kind \in DOMAIN TCPFlagKey -> Ok(Field(TCPFlagKey[m.kind], m.s))
      [] m.kind = "IPFrag" -> Ok(Field("ip_frag", m.s))
      [] m.kind = "FieldMatch" -> Ok(Field(m.s[1].t, <<m.s[2]>>))
=============================================================================
