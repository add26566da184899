---------------------------- MODULE Parsers_proofs ----------------------------
(***************************************************************************)
(* Proofs about the parsers and printers of package ovs.  What TLC checks  *)
(* on the inputs of MCCommands holds of every number, address, mask and    *)
(* flag of every width and of every list of actions: the theorems          *)
(* FieldIsKept, MatchIsReadBack, ActionIsReadBack, ActionIsKept and        *)
(* ListsAreCut say so of the operators, and LibraryFlowIsReadBack of every *)
(* flow that is made of them.  (Of MCCommands only the names of kinds and  *)
(* words are used.)                                                        *)
(***************************************************************************)
EXTENDS MCCommands, OpenFlow_proofs

(* A token of the text of a field or an action: a decimal or hexadecimal   *)
(* number has no further part.                                             *)
IsToken(tok) ==
    /\ tok = Token(tok.t, tok.n, tok.x) /\ tok.n \in Int /\ tok.x \in Int
    /\ tok.t \in {"dec", "hex"} => tok.x = 0

(* The value of a field: the tokens between its separators, one at least.  *)
IsValue(v) ==
    /\ Len(v) \in Nat \ {0} /\ v = [i \in 1 .. Len(v) |-> v[i]]
    /\ \A i \in 1 .. Len(v) : IsToken(v[i])

-----------------------------------------------------------------------------
(* Dispatch *)

(* parseMatch dispatches on the key (ovs/matchparser.go). *)
LEMMA Parser ==
  ASSUME NEW key, NEW v
  PROVE  /\ key \in DOMAIN MACMatch => parseMatch(key, v) = parseMACMatch(key, v)
         /\ key = "arp_op" => parseMatch(key, v) = parseArpOp(v)
         /\ key \in DOMAIN IntMatch \cup DOMAIN PlainIntMatch =>
               parseMatch(key, v) = parseIntMatch(key, v)
         /\ key \in DOMAIN PortMatch => parseMatch(key, v) = parsePort(key, v)
         /\ key \in DOMAIN StringMatch => parseMatch(key, v) = Ok(StrMatch(StringMatch[key], v))
         /\ key = "ct_state" => parseMatch(key, v) = parseCTState(v)
         /\ key = "tcp_flags" => parseMatch(key, v) = parseTCPFlags(v)
         /\ key = "dl_type" =>
               parseMatch(key, v) =
                  IF Len(v) # 1 THEN Fail
                  ELSE Then(parseHexUint16(v[1]), LAMBDA n : Ok(NumMatch("DataLinkType", n)))
         /\ key = "dl_vlan_pcp" => parseMatch(key, v) = parseDataLinkVLANPCP(v)
         /\ key = "dl_vlan" => parseMatch(key, v) = parseDataLinkVLAN(v)
         /\ key = "metadata" => parseMatch(key, v) = parseMetadata(v)
         /\ key = "ipv6_label" => parseMatch(key, v) = parseIPv6Label(v)
         /\ key = "vlan_tci1" => parseMatch(key, v) = parseVLANTCI1(v)
         /\ key = "vlan_tci" => parseMatch(key, v) = parseVLANTCI(v)
         /\ key = "ct_mark" => parseMatch(key, v) = parseCTMark(v)
         /\ key = "tun_id" => parseMatch(key, v) = parseTunID(v)
BY DEF parseMatch, MACMatch, IntMatch, PlainIntMatch, PortMatch, StringMatch, IntKind

(* MarshalText of a match, by the kind of the match (ovs/match.go). *)
LEMMA Printer ==
  ASSUME NEW m
  PROVE  /\ m.kind \in {"DataLinkSource", "DataLinkDestination"} =>
               MarshalMatch(m) = MarshalDataLink(m)
         /\ m.kind \in {"DataLinkType", "DataLinkVLAN", "DataLinkVLANPCP"} =>
               MarshalMatch(m) = MarshalVLAN(m)
         /\ m.kind \in DOMAIN NetworkKey =>
               MarshalMatch(m) = matchIPv4AddressOrCIDR(NetworkKey[m.kind], m.s)
         /\ m.kind \in DOMAIN TunnelKey =>
               MarshalMatch(m) = matchIPv4AddressOrCIDR(TunnelKey[m.kind], m.s)
         /\ m.kind \in DOMAIN ARPProtocolKey =>
               MarshalMatch(m) = matchIPv4AddressOrCIDR(ARPProtocolKey[m.kind], m.s)
         /\ m.kind \in DOMAIN IPv6Key =>
               MarshalMatch(m) = matchIPv6AddressOrCIDR(IPv6Key[m.kind], m.s)
         /\ m.kind = "NeighborDiscoveryTarget" =>
               MarshalMatch(m) = matchIPv6AddressOrCIDR("nd_target", m.s)
         /\ m.kind \in DOMAIN NDKey =>
               MarshalMatch(m) = matchEthernetHardwareAddress(NDKey[m.kind], m.s)
         /\ m.kind \in DOMAIN ARPHardwareKey =>
               MarshalMatch(m) = matchEthernetHardwareAddress(ARPHardwareKey[m.kind], m.s)
         /\ m.kind \in DOMAIN DecimalKey =>
               MarshalMatch(m) = Ok(Field(DecimalKey[m.kind], <<Dec(m.a)>>))
         /\ m.kind \in DOMAIN PortKey =>
               MarshalMatch(m) = Ok(Field(PortKey[m.kind], portText(m.a, m.b)))
         /\ m.kind \in DOMAIN MaskedKey =>
               MarshalMatch(m) = Ok(Field(MaskedKey[m.kind], Masked(m.a, m.b)))
         /\ m.kind = "IPv6Label" => MarshalMatch(m) = MarshalIPv6Label(m)
         /\ m.kind = "ArpOp" => MarshalMatch(m) = MarshalArpOp(m)
         /\ m.kind \in DOMAIN FlagKey => MarshalMatch(m) = Ok(Field(FlagKey[m.kind], m.s))
         /\ m.kind \in DOMAIN TCPFlagKey => MarshalMatch(m) = Ok(Field(TCPFlagKey[m.kind], m.s))
<1> USE DEF MarshalMatch, DecimalKey, Over, QosKey, TTLKey, ICMPKey, InPortKey, ARPOperationKey,
        ZoneKey, NetworkKey, TunnelKey, ARPProtocolKey, IPv6Key, NDKey, ARPHardwareKey, PortKey,
        MaskedKey, TCIKey, MarkKey, MetadataKey, TunnelIDKey, FlagKey, TCPFlagKey
<1>1. m.kind \in {"DataLinkSource", "DataLinkDestination"} =>
         MarshalMatch(m) = MarshalDataLink(m)
  OBVIOUS
<1>2. m.kind \in {"DataLinkType", "DataLinkVLAN", "DataLinkVLANPCP"} =>
         MarshalMatch(m) = MarshalVLAN(m)
  OBVIOUS
<1>3. m.kind \in DOMAIN NetworkKey =>
         MarshalMatch(m) = matchIPv4AddressOrCIDR(NetworkKey[m.kind], m.s)
  OBVIOUS
<1>4. m.kind \in DOMAIN TunnelKey =>
         MarshalMatch(m) = matchIPv4AddressOrCIDR(TunnelKey[m.kind], m.s)
  OBVIOUS
<1>5. m.kind \in DOMAIN ARPProtocolKey =>
         MarshalMatch(m) = matchIPv4AddressOrCIDR(ARPProtocolKey[m.kind], m.s)
  OBVIOUS
<1>6. m.kind \in DOMAIN IPv6Key =>
         MarshalMatch(m) = matchIPv6AddressOrCIDR(IPv6Key[m.kind], m.s)
  OBVIOUS
<1>7. m.kind = "NeighborDiscoveryTarget" =>
         MarshalMatch(m) = matchIPv6AddressOrCIDR("nd_target", m.s)
  OBVIOUS
<1>8. m.kind \in DOMAIN NDKey =>
         MarshalMatch(m) = matchEthernetHardwareAddress(NDKey[m.kind], m.s)
  OBVIOUS
<1>9. m.kind \in DOMAIN ARPHardwareKey =>
         MarshalMatch(m) = matchEthernetHardwareAddress(ARPHardwareKey[m.kind], m.s)
  OBVIOUS
<1>10. m.kind \in DOMAIN DecimalKey =>
          MarshalMatch(m) = Ok(Field(DecimalKey[m.kind], <<Dec(m.a)>>))
  OBVIOUS
<1>11. m.kind \in DOMAIN PortKey =>
          MarshalMatch(m) = Ok(Field(PortKey[m.kind], portText(m.a, m.b)))
  OBVIOUS
<1>12. m.kind \in DOMAIN MaskedKey =>
          MarshalMatch(m) = Ok(Field(MaskedKey[m.kind], Masked(m.a, m.b)))
  OBVIOUS
<1>13. m.kind = "IPv6Label" => MarshalMatch(m) = MarshalIPv6Label(m)
  OBVIOUS
<1>14. m.kind = "ArpOp" => MarshalMatch(m) = MarshalArpOp(m)
  OBVIOUS
<1>15. m.kind \in DOMAIN FlagKey => MarshalMatch(m) = Ok(Field(FlagKey[m.kind], m.s))
  OBVIOUS
<1>16. m.kind \in DOMAIN TCPFlagKey => MarshalMatch(m) = Ok(Field(TCPFlagKey[m.kind], m.s))
  OBVIOUS
<1> QED
  BY ONLY <1>1, <1>2, <1>3, <1>4, <1>5, <1>6, <1>7, <1>8, <1>9, <1>10, <1>11, <1>12, <1>13,
     <1>14, <1>15, <1>16

(* A field that is printed again has been read as a match. *)
LEMMA ReadThenPrinted ==
  ASSUME NEW key, NEW v, PrintedAgain(key, v).ok
  PROVE  /\ parseMatch(key, v).ok /\ parseMatch(key, v).v # NoMatch
         /\ PrintedAgain(key, v) = MarshalMatch(parseMatch(key, v).v)
<1> PICK r : r = parseMatch(key, v)
  OBVIOUS
<1>1. ~Fail.ok
  BY DEF Fail
<1>2. PrintedAgain(key, v) = IF r.ok THEN IF r.v = NoMatch THEN Fail ELSE MarshalMatch(r.v) ELSE Fail
  BY DEF PrintedAgain, Then
<1> QED
  BY <1>1, <1>2

(* A value says what itself says. *)
LEMMA SameItself == ASSUME NEW v PROVE SameValue(v, v)
BY DEF SameValue

-----------------------------------------------------------------------------
(* Fields of dumped flows *)

(* What ValueKept asks of a text: the same key, and a value that says the  *)
(* same.                                                                   *)
KeptAs(key, v, text) == text.v.key = key /\ SameValue(v, text.v.val)

(* The fields of a match made of strings ... *)
LEMMA StrFields ==
  ASSUME NEW k, NEW s
  PROVE  StrMatch(k, s).kind = k /\ StrMatch(k, s).s = s
BY DEF StrMatch, Match

(* ... of one number ... *)
LEMMA NumFields ==
  ASSUME NEW k, NEW a
  PROVE  NumMatch(k, a).kind = k /\ NumMatch(k, a).a = a /\ NumMatch(k, a).b = 0
BY DEF NumMatch, Match

(* ... and of a number with a mask. *)
LEMMA MaskFields ==
  ASSUME NEW k, NEW a, NEW b
  PROVE  MaskMatch(k, a, b).kind = k /\ MaskMatch(k, a, b).a = a /\ MaskMatch(k, a, b).b = b
BY DEF MaskMatch, Match

(* A hardware address of ARP or of neighbour discovery is kept:            *)
(* parseMACMatch returns it as it is, or an error.                         *)
LEMMA MACKept ==
  ASSUME NEW key \in DOMAIN MACMatch, NEW v, PrintedAgain(key, v).ok
  PROVE  KeptAs(key, v, PrintedAgain(key, v))
<1> PICK m : m = parseMatch(key, v).v
  OBVIOUS
<1>1. parseMatch(key, v).ok /\ PrintedAgain(key, v) = MarshalMatch(m)
  BY ReadThenPrinted
<1>2. m = StrMatch(MACMatch[key], v)
  <2>1. parseMatch(key, v) = parseMACMatch(key, v)
    BY Parser
  <2> QED
    BY <1>1, <2>1, OkFields DEF parseMACMatch, Fail
<1>3. MarshalMatch(m) = matchEthernetHardwareAddress(key, v)
  <2>1. m.kind = MACMatch[key] /\ m.s = v
    BY <1>2, StrFields
  <2>2. \/ m.kind \in DOMAIN NDKey /\ NDKey[m.kind] = key
        \/ m.kind \in DOMAIN ARPHardwareKey /\ ARPHardwareKey[m.kind] = key
    BY <2>1 DEF MACMatch, NDKey, ARPHardwareKey
  <2> QED
    BY ONLY <2>1, <2>2, Printer
<1>4. PrintedAgain(key, v) = Ok(Field(key, v))
  BY <1>1, <1>3 DEF matchEthernetHardwareAddress, Fail
<1> QED
  BY <1>4, OkFields, FieldFields, SameItself DEF KeptAs

(* A conversion to an unsigned integer keeps a number that fits. *)
LEMMA Cut == ASSUME NEW n \in Int, NEW u \in Nat, 0 <= n, n < u PROVE n % u = n
OBVIOUS

(* Values of one number that is the same say the same. *)
LEMMA OneToken ==
  ASSUME NEW v, NEW n, IsValue(v), Len(v) = 1, v[1].n = n, v[1].t # "flag", NEW w, w \in {Dec(n), Hex(n)}
  PROVE  SameValue(v, <<w>>)
BY DEF SameValue, IsValue, Dec, Hex, Token

(* strconv.Atoi returns a decimal number as it is, or an error. *)
LEMMA AtoiIs ==
  ASSUME NEW tok, Atoi(tok).ok
  PROVE  Atoi(tok).v = tok.n /\ tok.t = "dec"
BY DEF Atoi, Ok, Fail

(* parseClampInt returns the number of a value of one decimal that is not  *)
(* too large, or an error.                                                 *)
LEMMA ClampIs ==
  ASSUME NEW v, NEW max, parseClampInt(v, max).ok
  PROVE  Len(v) = 1 /\ v[1].t = "dec" /\ v[1].n <= max /\ parseClampInt(v, max).v = v[1].n
BY AtoiIs DEF parseClampInt, Then, Ok, Fail

(* The numbers that parseIntMatch reads are kept. *)
LEMMA IntKept ==
  ASSUME NEW key \in DOMAIN IntMatch \cup DOMAIN PlainIntMatch, NEW v, IsValue(v), Printed(key, v),
         PrintedAgain(key, v).ok
  PROVE  KeptAs(key, v, PrintedAgain(key, v))
<1> PICK m : m = parseMatch(key, v).v
  OBVIOUS
<1>1. parseMatch(key, v).ok /\ PrintedAgain(key, v) = MarshalMatch(m)
  BY ReadThenPrinted
<1>2. parseMatch(key, v) = parseIntMatch(key, v)
  BY Parser
<1>3. /\ Len(v) = 1 /\ v[1].t = "dec"
      /\ m.a = v[1].n /\ m.kind \in DOMAIN DecimalKey /\ DecimalKey[m.kind] = key
  <2>0. Len(v) = 1 => v[1].n \in Int /\ (v[1].t = "dec" => 0 <= v[1].n)
    BY DEF IsValue, IsToken, Printed
  <2>1. CASE key \in DOMAIN IntMatch
    <3>1. PICK u \in Nat : u = IntMatch[key].u
      BY <2>1, WidthAssumption DEF IntMatch, IntKind
    <3>2. PICK r : r = parseClampInt(v, u - 1)
      OBVIOUS
    <3>3. parseIntMatch(key, v) = IF r.ok THEN Ok(NumMatch(IntMatch[key].kind, r.v % u)) ELSE Fail
      BY <2>1, <3>1, <3>2 DEF parseIntMatch, Then
    <3>4. r.ok /\ m = NumMatch(IntMatch[key].kind, r.v % u)
      BY <1>1, <1>2, <3>3, OkFields DEF Fail
    <3>5. Len(v) = 1 /\ v[1].t = "dec" /\ v[1].n <= u - 1 /\ r.v = v[1].n
      BY <3>4, <3>2, ClampIs
    <3>6. r.v % u = v[1].n
      BY <3>5, <2>0, <3>1, Cut
    <3>7. IntMatch[key].kind \in DOMAIN DecimalKey /\ DecimalKey[IntMatch[key].kind] = key
      BY <2>1 DEF IntMatch, IntKind, DecimalKey, Over, QosKey, TTLKey, ICMPKey, InPortKey, ARPOperationKey, ZoneKey
    <3> QED
      BY <3>4, <3>5, <3>6, <3>7, NumFields
  <2>2. CASE key \notin DOMAIN IntMatch
    <3>2. PICK r : r = parseClampInt(v, MaxInt32)
      OBVIOUS
    <3>3. parseIntMatch(key, v) = IF r.ok THEN Ok(NumMatch(PlainIntMatch[key], r.v)) ELSE Fail
      BY <2>2, <3>2 DEF parseIntMatch, Then
    <3>4. r.ok /\ m = NumMatch(PlainIntMatch[key], r.v)
      BY <1>1, <1>2, <3>3, OkFields DEF Fail
    <3>5. Len(v) = 1 /\ v[1].t = "dec" /\ r.v = v[1].n
      BY <3>4, <3>2, ClampIs
    <3>7. PlainIntMatch[key] \in DOMAIN DecimalKey /\ DecimalKey[PlainIntMatch[key]] = key
      BY <2>2 DEF PlainIntMatch, DecimalKey, Over, QosKey, TTLKey, ICMPKey, InPortKey, ARPOperationKey, ZoneKey
    <3> QED
      BY <3>4, <3>5, <3>7, NumFields
  <2> QED
    BY <2>1, <2>2
<1>4. PrintedAgain(key, v) = Ok(Field(key, <<Dec(v[1].n)>>))
  BY <1>1, <1>3, Printer
<1>5. SameValue(v, <<Dec(v[1].n)>>)
  BY <1>3, OneToken
<1> QED
  BY <1>4, <1>5, OkFields, FieldFields DEF KeptAs

(* strconv.ParseUint with base 16 returns a number that fits, or an error. *)
LEMMA HexIs ==
  ASSUME NEW tok, NEW u, tok.t = "hex", ParseHex(tok, u).ok
  PROVE  ParseHex(tok, u).v = tok.n /\ 0 <= tok.n /\ tok.n < u
BY DEF ParseHex, Ok, Fail

(* parseHexUint16, whose result is converted once more, keeps such a       *)
(* number.                                                                 *)
LEMMA Hex16Is ==
  ASSUME NEW tok, tok.n \in Int, tok.n < U16, tok.t = "hex", parseHexUint16(tok).ok
  PROVE  parseHexUint16(tok).v = tok.n
<1>1. PICK r : r = ParseHex(tok, U32)
  OBVIOUS
<1>2. parseHexUint16(tok) = IF r.ok THEN Ok(r.v % U16) ELSE Fail
  BY <1>1 DEF parseHexUint16, Then
<1>3. r.ok /\ parseHexUint16(tok).v = r.v % U16
  BY <1>2, OkFields DEF Fail
<1> QED
  BY <1>1, <1>3, HexIs, Cut, WidthAssumption

(* Each part of a masked number is read as the number it is, for every     *)
(* width: in hexadecimal by the parser of its width, in decimal by Atoi.   *)
LEMMA MaskedPart ==
  ASSUME NEW tok, NEW u \in {U16, U32, U64}, tok.n \in Int,
         tok.t \in {"dec", "hex"} => 0 <= tok.n /\ tok.n < u,
         NEW r, r = IF tok.t = "hex"
                    THEN IF u = U16 THEN parseHexUint16(tok)
                         ELSE IF u = U32 THEN parseHexUint32(tok) ELSE parseHexUint64(tok)
                    ELSE Atoi(tok),
         r.ok
  PROVE  tok.t \in {"dec", "hex"} /\ r.v = tok.n /\ r.v % u = tok.n
<1>1. CASE tok.t = "hex"
  <2>1. r.v = tok.n
    BY <1>1, HexIs, Hex16Is DEF parseHexUint32, parseHexUint64
  <2> QED
    BY <1>1, <2>1, Cut, WidthAssumption
<1>2. CASE tok.t # "hex"
  <2>1. r.v = tok.n /\ tok.t = "dec"
    BY <1>2, AtoiIs
  <2> QED
    BY <1>2, <2>1, Cut, WidthAssumption
<1> QED
  BY <1>1, <1>2

(* parseMasked reads a number and its mask as they are, or is an error. *)
LEMMA MaskedRead ==
  ASSUME NEW kind, NEW v, NEW u \in {U16, U32, U64}, IsValue(v),
         \A i \in DOMAIN v : v[i].t \in {"dec", "hex"} =>
            v[i].n >= (IF i = 1 THEN 0 ELSE 1) /\ v[i].n < u,
         parseMasked(kind, v, u).ok
  PROVE  \/ /\ Len(v) = 1 /\ v[1].t \in {"dec", "hex"} /\ parseMasked(kind, v, u).v = NumMatch(kind, v[1].n)
         \/ /\ Len(v) = 2 /\ v[1].t \in {"dec", "hex"} /\ v[2].t \in {"dec", "hex"} /\ v[2].n # 0
            /\ parseMasked(kind, v, u).v = MaskMatch(kind, v[1].n, v[2].n)
<1> DEFINE num(tok) == IF tok.t = "hex"
                       THEN IF u = U16 THEN parseHexUint16(tok)
                            ELSE IF u = U32 THEN parseHexUint32(tok) ELSE parseHexUint64(tok)
                       ELSE Atoi(tok)
<1>0. /\ DOMAIN v = 1 .. Len(v)
      /\ \A i \in 1 .. Len(v) : v[i].n \in Int /\ (num(v[i]).ok => v[i].t \in {"dec", "hex"} /\ num(v[i]).v % u = v[i].n)
  <2>1. DOMAIN v = 1 .. Len(v) /\ \A i \in 1 .. Len(v) : v[i].n \in Int
    BY DEF IsValue, IsToken
  <2>2. ASSUME NEW i \in 1 .. Len(v), num(v[i]).ok
        PROVE  v[i].t \in {"dec", "hex"} /\ num(v[i]).v % u = v[i].n
    <3>1. v[i].t \in {"dec", "hex"} => 0 <= v[i].n /\ v[i].n < u
      BY <2>1
    <3> QED
      BY <2>1, <2>2, <3>1, MaskedPart
  <2> QED
    BY <2>1, <2>2
<1>1. CASE Len(v) = 1
  <2>1. PICK r : r = num(v[1])
    OBVIOUS
  <2>2. parseMasked(kind, v, u) = IF r.ok THEN Ok(NumMatch(kind, r.v % u)) ELSE Fail
    BY <1>1, <2>1 DEF parseMasked, Then
  <2>3. r.ok /\ parseMasked(kind, v, u).v = NumMatch(kind, r.v % u)
    BY <2>2, OkFields DEF Fail
  <2> HIDE DEF num
  <2> QED
    BY <1>0, <1>1, <2>1, <2>3
<1>2. CASE Len(v) = 2
  <2>1. PICK r, q : r = num(v[1]) /\ q = num(v[2])
    OBVIOUS
  <2>2. parseMasked(kind, v, u) = IF r.ok THEN IF q.ok THEN Ok(MaskMatch(kind, r.v % u, q.v % u)) ELSE Fail ELSE Fail
    BY <1>2, <2>1 DEF parseMasked, Then
  <2>3. r.ok /\ q.ok /\ parseMasked(kind, v, u).v = MaskMatch(kind, r.v % u, q.v % u)
    BY <2>2, OkFields DEF Fail
  <2> HIDE DEF num
  <2>4. v[1].t \in {"dec", "hex"} /\ v[2].t \in {"dec", "hex"} /\ r.v % u = v[1].n /\ q.v % u = v[2].n
    BY <1>0, <1>2, <2>1, <2>3
  <2>5. v[2].n # 0
    BY <1>0, <1>2, <2>4
  <2> QED
    BY <1>2, <2>3, <2>4, <2>5
<1>3. CASE Len(v) \notin {1, 2}
  BY <1>3 DEF parseMasked, Fail
<1> QED
  BY <1>1, <1>2, <1>3

(* Printed in hexadecimal, numbers and masks say the same. *)
LEMMA MaskedSame ==
  ASSUME NEW v, IsValue(v),
         \/ /\ Len(v) = 1 /\ v[1].t \in {"dec", "hex"}
         \/ /\ Len(v) = 2 /\ v[1].t \in {"dec", "hex"} /\ v[2].t \in {"dec", "hex"},
         NEW w, \A i \in 1 .. Len(v) : w[i] = Hex(v[i].n), Len(w) = Len(v)
  PROVE  SameValue(v, w)
<1>1. DOMAIN v = 1 .. Len(v)
  BY DEF IsValue
<1>2. ASSUME NEW i \in 1 .. Len(v)
      PROVE  v[i].n = w[i].n /\ v[i].t # "flag"
  <2>0. w[i] = Hex(v[i].n) /\ v[i].t # "flag"
    OBVIOUS
  <2>1. w[i].n = v[i].n
    BY <2>0 DEF Hex, Token
  <2> QED
    BY <2>0, <2>1
<1> QED
  BY <1>1, <1>2 DEF SameValue

(* So the match that parseMasked returns is printed with the same value. *)
LEMMA MaskedKept ==
  ASSUME NEW kind, NEW v, NEW u \in {U16, U32, U64}, IsValue(v), NEW key,
         key \in DOMAIN FieldWidth, FieldWidth[key] = u, Printed(key, v),
         parseMasked(kind, v, u).ok,
         NEW m, m = parseMasked(kind, v, u).v
  PROVE  m.kind = kind /\ SameValue(v, Masked(m.a, m.b))
<1>0. IsValue(v) => DOMAIN v = 1 .. Len(v)
  BY DEF IsValue
<1>1. \A i \in DOMAIN v : v[i].t \in {"dec", "hex"} => v[i].n >= (IF i = 1 THEN 0 ELSE 1) /\ v[i].n < u
  BY DEF Printed
<1>2. CASE /\ Len(v) = 1 /\ v[1].t \in {"dec", "hex"} /\ m = NumMatch(kind, v[1].n)
  <2>1. m.kind = kind /\ Masked(m.a, m.b) = <<Hex(v[1].n)>>
    BY <1>2, NumFields DEF Masked
  <2> QED
    BY <1>2, <2>1, MaskedSame
<1>3. CASE /\ Len(v) = 2 /\ v[1].t \in {"dec", "hex"} /\ v[2].t \in {"dec", "hex"} /\ v[2].n # 0
           /\ m = MaskMatch(kind, v[1].n, v[2].n)
  <2>1. m.kind = kind /\ Masked(m.a, m.b) = <<Hex(v[1].n), Hex(v[2].n)>>
    BY <1>3, MaskFields DEF Masked
  <2> QED
    BY <1>3, <2>1, MaskedSame
<1> QED
  BY <1>1, <1>2, <1>3, MaskedRead

(* The widths of the fields of flows that hold numbers. *)
LEMMA Widths ==
  /\ DOMAIN FieldWidth = {"dl_type", "dl_vlan", "dl_vlan_pcp", "vlan_tci", "vlan_tci1", "arp_op",
                          "ipv6_label", "ct_mark", "metadata", "tun_id"}
  /\ \A key \in DOMAIN FieldWidth :
        FieldWidth[key] = IF key \in {"metadata", "tun_id"} THEN U64
                          ELSE IF key \in {"ipv6_label", "ct_mark"} THEN U32 ELSE U16
BY DEF FieldWidth, Over

(* The fields that parseMasked reads. *)
MaskedKeys == {"metadata", "ipv6_label", "vlan_tci1", "vlan_tci", "ct_mark", "tun_id"}

(* Each of them is kept, under its own key. *)
LEMMA MaskedKeysKept ==
  ASSUME NEW key \in MaskedKeys, NEW v, IsValue(v), Printed(key, v), PrintedAgain(key, v).ok
  PROVE  KeptAs(key, v, PrintedAgain(key, v))
<1> PICK m : m = parseMatch(key, v).v
  OBVIOUS
<1>1. parseMatch(key, v).ok /\ PrintedAgain(key, v) = MarshalMatch(m)
  BY ReadThenPrinted
<1>2. PICK kind : kind = CASE key = "metadata" -> "MetadataWithMask" [] key = "ipv6_label" -> "IPv6Label"
                           [] key = "vlan_tci1" -> "VLANTCI1" [] key = "vlan_tci" -> "VLANTCI"
                           [] key = "ct_mark" -> "ConnectionTrackingMark" [] key = "tun_id" -> "TunnelIDWithMask"
  OBVIOUS
<1>3. PICK u : u = FieldWidth[key]
  OBVIOUS
<1>4. u \in {U16, U32, U64} /\ key \in DOMAIN FieldWidth
  BY <1>3, Widths DEF MaskedKeys
<1>5. parseMatch(key, v) = parseMasked(kind, v, u)
  <2>1. u = IF key \in {"metadata", "tun_id"} THEN U64
                          ELSE IF key \in {"ipv6_label", "ct_mark"} THEN U32 ELSE U16
    BY <1>3, <1>4, Widths
  <2> QED
    BY <2>1, <1>2, Parser DEF MaskedKeys, parseMetadata, parseIPv6Label, parseVLANTCI1, parseVLANTCI, parseCTMark, parseTunID
<1>6. m.kind = kind /\ SameValue(v, Masked(m.a, m.b))
  BY <1>1, <1>3, <1>4, <1>5, MaskedKept
<1>7. MarshalMatch(m).ok => MarshalMatch(m) = Ok(Field(key, Masked(m.a, m.b)))
  <2>1. CASE key = "ipv6_label"
    <3>1. MarshalMatch(m) = MarshalIPv6Label(m)
      BY <2>1, <1>2, <1>6, Printer
    <3> QED
      BY <2>1, <3>1 DEF MarshalIPv6Label, Fail
  <2>2. CASE key # "ipv6_label"
    <3>1. m.kind \in DOMAIN MaskedKey /\ MaskedKey[m.kind] = key
      BY <2>2, <1>2, <1>6 DEF MaskedKeys, MaskedKey, Over, TCIKey, MarkKey, MetadataKey, TunnelIDKey
    <3> QED
      BY <3>1, Printer
  <2> QED
    BY <2>1, <2>2
<1> QED
  BY <1>1, <1>6, <1>7, OkFields, FieldFields DEF KeptAs

(* A port with its mask is kept (parsePort, MarshalText of a transport     *)
(* port).                                                                  *)
LEMMA PortKept ==
  ASSUME NEW key \in DOMAIN PortMatch, NEW v, IsValue(v), Printed(key, v), PrintedAgain(key, v).ok
  PROVE  KeptAs(key, v, PrintedAgain(key, v))
<1> PICK m : m = parseMatch(key, v).v
  OBVIOUS
<1>1. parseMatch(key, v).ok /\ PrintedAgain(key, v) = MarshalMatch(m)
  BY ReadThenPrinted
<1>2. parseMatch(key, v) = parsePort(key, v)
  BY Parser
<1>3. PICK kind : kind = PortMatch[key]
  OBVIOUS
<1>4. kind \in DOMAIN PortKey /\ PortKey[kind] = key
  BY <1>3 DEF PortMatch, PortKey
<1>5. DOMAIN v = 1 .. Len(v) /\ \A i \in 1 .. Len(v) : v[i].n \in Int
  BY DEF IsValue, IsToken
<1>6. m.kind = kind /\ SameValue(v, portText(m.a, m.b))
  <2>1. CASE Len(v) = 1
    <3>1. PICK r : r = parseClampInt(v, U16 - 1)
      OBVIOUS
    <3>2. parsePort(key, v) = IF r.ok THEN Ok(NumMatch(kind, r.v % U16)) ELSE Fail
      BY <2>1, <3>1, <1>3 DEF parsePort, Then
    <3>3. r.ok /\ m = NumMatch(kind, r.v % U16)
      BY <1>1, <1>2, <3>2, OkFields DEF Fail
    <3>4. v[1].t = "dec" /\ r.v = v[1].n /\ v[1].n <= U16 - 1
      BY <3>1, <3>3, ClampIs
    <3>5. 0 <= v[1].n
      BY <2>1, <3>4, <1>5 DEF Printed
    <3>6. r.v % U16 = v[1].n
      BY <1>5, <2>1, <3>4, <3>5, Cut, WidthAssumption
    <3>7. m.kind = kind /\ portText(m.a, m.b) = <<Dec(v[1].n)>>
      BY <3>3, <3>6, NumFields DEF portText
    <3> QED
      BY <2>1, <3>4, <3>7, OneToken
  <2>2. CASE Len(v) = 2
    <3>1. PICK r, q : r = ParseHex(v[1], U16) /\ q = ParseHex(v[2], U16)
      OBVIOUS
    <3>2. parsePort(key, v) = IF r.ok THEN IF q.ok THEN Ok(MaskMatch(kind, r.v, q.v)) ELSE Fail ELSE Fail
      BY <2>2, <3>1, <1>3 DEF parsePort, Then
    <3>3. r.ok /\ q.ok /\ m = MaskMatch(kind, r.v, q.v)
      BY <1>1, <1>2, <3>2, OkFields DEF Fail
    <3>4. v[1].t \in {"dec", "hex"} /\ v[2].t \in {"dec", "hex"}
      BY <3>1, <3>3 DEF ParseHex, Fail
    <3>5. v[1].t = "hex" /\ v[2].t = "hex" /\ v[2].n >= 1
      BY <1>5, <2>2, <3>4 DEF Printed
    <3>6. r.v = v[1].n /\ q.v = v[2].n
      BY <3>1, <3>3, <3>5, HexIs
    <3>7. m.kind = kind /\ portText(m.a, m.b) = <<Hex(v[1].n), Hex(v[2].n)>>
      BY <1>5, <2>2, <3>3, <3>5, <3>6, MaskFields DEF portText
    <3> QED
      BY <2>2, <3>4, <3>7, MaskedSame
  <2>3. CASE Len(v) \notin {1, 2}
    BY <1>1, <1>2, <2>3 DEF parsePort, Fail
  <2> QED
    BY <2>1, <2>2, <2>3
<1>7. MarshalMatch(m) = Ok(Field(key, portText(m.a, m.b)))
  BY <1>4, <1>6, Printer
<1> QED
  BY <1>1, <1>6, <1>7, OkFields, FieldFields DEF KeptAs

(* An address that is printed is the one that was read: the address of a   *)
(* CIDR as it is, a plain one in its canonical form.                       *)
LEMMA AddressKept ==
  ASSUME NEW key, NEW family \in {"ip4", "ip6"}, NEW v, IsValue(v), matchAddress(key, family, v).ok
  PROVE  KeptAs(key, v, matchAddress(key, family, v))
<1>1. /\ v[1].t = family /\ (IsCIDR(v) \/ Len(v) = 1)
      /\ matchAddress(key, family, v) = Ok(Field(key, IF IsCIDR(v) THEN v ELSE <<Canonical(v[1])>>))
  BY DEF matchAddress, Fail
<1>2. ASSUME Len(v) = 1
      PROVE  SameValue(v, <<Canonical(v[1])>>)
  <2>1. DOMAIN v = {1} /\ IsToken(v[1])
    BY <1>2 DEF IsValue
  <2>2. Canonical(v[1]).n = v[1].n
    BY <2>1 DEF IsToken, Token, Canonical
  <2> QED
    BY <1>1, <1>2, <2>1, <2>2 DEF SameValue
<1> QED
  BY <1>1, <1>2, SameItself, OkFields, FieldFields DEF KeptAs

(* The matches that hold their text are kept, or not printed. *)
LEMMA StringKept ==
  ASSUME NEW key \in DOMAIN StringMatch, key \notin Renamed, NEW v, IsValue(v), PrintedAgain(key, v).ok
  PROVE  KeptAs(key, v, PrintedAgain(key, v))
<1> PICK m : m = parseMatch(key, v).v
  OBVIOUS
<1>1. parseMatch(key, v).ok /\ PrintedAgain(key, v) = MarshalMatch(m)
  BY ReadThenPrinted
<1>2. m.kind = StringMatch[key] /\ m.s = v
  <2>1. m = StrMatch(StringMatch[key], v)
    BY Parser, OkFields
  <2> QED
    BY <2>1, StrFields
<1>3. CASE key \in {"dl_src", "dl_dst"}
  <2>1. m.kind = IF key = "dl_src" THEN "DataLinkSource" ELSE "DataLinkDestination"
    BY <1>2, <1>3 DEF StringMatch
  <2>2. MarshalMatch(m) = MarshalDataLink(m)
    BY <2>1, Printer
  <2>3. MarshalMatch(m) = Ok(Field(key, v))
    BY <1>1, <1>2, <1>3, <2>1, <2>2 DEF MarshalDataLink, Fail
  <2> QED
    BY <1>1, <2>3, SameItself, OkFields, FieldFields DEF KeptAs
<1>4. CASE key \notin {"dl_src", "dl_dst"}
  <2>1. \E family \in {"ip4", "ip6"} : MarshalMatch(m) = matchAddress(key, family, v)
    <3>1. \/ m.kind \in DOMAIN NetworkKey /\ NetworkKey[m.kind] = key
          \/ m.kind \in DOMAIN ARPProtocolKey /\ ARPProtocolKey[m.kind] = key
          \/ m.kind \in DOMAIN IPv6Key /\ IPv6Key[m.kind] = key
          \/ m.kind = "NeighborDiscoveryTarget" /\ key = "nd_target"
      BY <1>2, <1>4 DEF StringMatch, Renamed, NetworkKey, ARPProtocolKey, IPv6Key
    <3>2. MarshalMatch(m) \in {matchIPv4AddressOrCIDR(key, v), matchIPv6AddressOrCIDR(key, v)}
      BY ONLY <3>1, <1>2, Printer
    <3> QED
      BY <3>2 DEF matchIPv4AddressOrCIDR, matchIPv6AddressOrCIDR
  <2> QED
    BY <1>1, <2>1, AddressKept
<1> QED
  BY <1>3, <1>4

(* parseCTState reads the flags of a state, which a dump shows with signs  *)
(* or with a bar between them, as flags that say the same.                 *)
LEMMA CTStateRead ==
  ASSUME NEW v, IsValue(v), Printed("ct_state", v)
  PROVE  \E w : parseCTState(v) = Ok(StrMatch("ConnectionTrackingState", w)) /\ SameValue(v, w)
<1> DEFINE bar    == \E i \in DOMAIN v : v[i].x = 2
           signed == \E i \in DOMAIN v : v[i].x \in {1, -1}
           plus   == [i \in DOMAIN v |-> IF v[i].x \in {0, 2} THEN [v[i] EXCEPT !.x = 1] ELSE v[i]]
           stray  == IF bar /\ v[1].x \in {1, -1} THEN <<Word("+")>> ELSE <<>>
           new    == IF bar \/ ~signed THEN stray \o plus ELSE v
<1>1. DOMAIN v = 1 .. Len(v) /\ Len(v) \in Nat \ {0}
  BY DEF IsValue
<1>2. stray = <<>>
  BY <1>1 DEF Printed
<1>3. plus \in Seq({plus[i] : i \in DOMAIN v}) /\ Len(plus) = Len(v)
  BY <1>1
<1>4. <<>> \o plus = plus
  BY <1>3, ConcatEmptySeq
<1>5. SameValue(v, plus)
  <2>1. ASSUME NEW i \in DOMAIN v
        PROVE  v[i].n = plus[i].n /\ (v[i].x \in {1, -1} => plus[i].x = v[i].x)
    <3>1. IsToken(v[i])
      BY <1>1 DEF IsValue
    <3> QED
      BY <3>1 DEF IsToken, Token
  <2> QED
    BY <1>3, <2>1 DEF SameValue
<1>6. SameValue(v, new)
  BY <1>2, <1>4, <1>5, SameItself
<1>7. parseCTState(v) = Ok(StrMatch("ConnectionTrackingState", new))
  BY DEF parseCTState
<1> QED
  BY <1>6, <1>7

(* A VLAN is read, in hexadecimal or in decimal, as the number it is. *)
LEMMA VLANRead ==
  ASSUME NEW kind, NEW key, NEW v, IsValue(v), Printed(key, v), key \in DOMAIN FieldWidth, FieldWidth[key] = U16,
         parseVLAN(kind, v).ok
  PROVE  Len(v) = 1 /\ v[1].t \in {"dec", "hex"} /\ parseVLAN(kind, v).v = NumMatch(kind, v[1].n)
<1>1. PICK r : r = IF v[1].t = "hex" THEN parseHexUint16(v[1]) ELSE Atoi(v[1])
  OBVIOUS
<1>2. Len(v) = 1
  BY DEF parseVLAN, Fail
<1>3. parseVLAN(kind, v) = IF r.ok THEN Ok(NumMatch(kind, r.v)) ELSE Fail
  BY <1>1, <1>2 DEF parseVLAN, Then
<1>4. r.ok /\ parseVLAN(kind, v).v = NumMatch(kind, r.v)
  BY <1>3, OkFields DEF Fail
<1>5. v[1].n \in Int /\ (v[1].t = "hex" => v[1].n < U16)
  BY <1>2 DEF IsValue, IsToken, Printed
<1>6. v[1].t \in {"dec", "hex"} /\ r.v = v[1].n
  BY <1>1, <1>4, <1>5, Hex16Is, AtoiIs
<1> QED
  BY <1>2, <1>4, <1>6

(* dl_vlan and dl_vlan_pcp are kept. *)
LEMMA VLANKept ==
  ASSUME NEW key \in {"dl_vlan", "dl_vlan_pcp"}, NEW v, IsValue(v), Printed(key, v), PrintedAgain(key, v).ok
  PROVE  KeptAs(key, v, PrintedAgain(key, v))
<1> PICK m : m = parseMatch(key, v).v
  OBVIOUS
<1>1. parseMatch(key, v).ok /\ PrintedAgain(key, v) = MarshalMatch(m)
  BY ReadThenPrinted
<1>2. PICK kind : kind = IF key = "dl_vlan" THEN "DataLinkVLAN" ELSE "DataLinkVLANPCP"
  OBVIOUS
<1>3. parseMatch(key, v) = parseVLAN(kind, v)
  BY <1>2, Parser DEF parseDataLinkVLAN, parseDataLinkVLANPCP
<1>4. key \in DOMAIN FieldWidth /\ FieldWidth[key] = U16
  BY Widths
<1>5. Len(v) = 1 /\ v[1].t \in {"dec", "hex"} /\ m.kind = kind /\ m.a = v[1].n
  BY <1>1, <1>3, <1>4, VLANRead, NumFields
<1>6. MarshalMatch(m) = MarshalVLAN(m)
  BY <1>2, <1>5, Printer
<1>7. PICK w \in {Dec(v[1].n), Hex(v[1].n)} : MarshalMatch(m) = Ok(Field(key, <<w>>))
  BY <1>1, <1>2, <1>5, <1>6 DEF MarshalVLAN, Fail
<1>8. SameValue(v, <<w>>)
  BY <1>5, OneToken
<1> QED
  BY <1>1, <1>7, <1>8, OkFields, FieldFields DEF KeptAs

(* dl_type is kept, which parseMatch reads in hexadecimal. *)
LEMMA DataLinkTypeKept ==
  ASSUME NEW key, key = "dl_type", NEW v, IsValue(v), Printed(key, v), PrintedAgain(key, v).ok
  PROVE  KeptAs(key, v, PrintedAgain(key, v))
<1> PICK m : m = parseMatch(key, v).v
  OBVIOUS
<1>1. parseMatch(key, v).ok /\ PrintedAgain(key, v) = MarshalMatch(m)
  BY ReadThenPrinted
<1>2. PICK r : r = parseHexUint16(v[1])
  OBVIOUS
<1>3. parseMatch(key, v) = IF Len(v) # 1 THEN Fail
                           ELSE IF r.ok THEN Ok(NumMatch("DataLinkType", r.v)) ELSE Fail
  BY <1>2, Parser DEF Then
<1>4. Len(v) = 1 /\ r.ok /\ m = NumMatch("DataLinkType", r.v)
  BY <1>1, <1>3, OkFields DEF Fail
<1>5. v[1].t = "hex" /\ v[1].n \in Int /\ v[1].n < U16
  <2>1. v[1].t \in {"dec", "hex"}
    BY <1>2, <1>4 DEF parseHexUint16, ParseHex, Then, Fail
  <2>2. 1 \in DOMAIN v /\ v[1].n \in Int
    BY <1>4 DEF IsValue, IsToken
  <2>3. key \in DOMAIN FieldWidth /\ FieldWidth[key] = U16
    BY Widths
  <2> QED
    BY <2>1, <2>2, <2>3 DEF Printed
<1>6. m.kind = "DataLinkType" /\ m.a = v[1].n
  BY <1>2, <1>4, <1>5, Hex16Is, NumFields
<1>7. MarshalMatch(m) = Ok(Field(key, <<Hex(v[1].n)>>))
  BY <1>6, Printer DEF MarshalVLAN
<1>8. SameValue(v, <<Hex(v[1].n)>>)
  BY <1>4, <1>5, OneToken
<1> QED
  BY <1>1, <1>7, <1>8, OkFields, FieldFields DEF KeptAs

(* arp_op is kept. *)
LEMMA ArpOpKept ==
  ASSUME NEW key, key = "arp_op", NEW v, IsValue(v), Printed(key, v), PrintedAgain(key, v).ok
  PROVE  KeptAs(key, v, PrintedAgain(key, v))
<1> PICK m : m = parseMatch(key, v).v
  OBVIOUS
<1>1. parseMatch(key, v).ok /\ PrintedAgain(key, v) = MarshalMatch(m)
  BY ReadThenPrinted
<1>2. PICK r : r = IF v[1].t = "hex" THEN parseHexUint16(v[1])
                   ELSE IF v[1].t = "dec" /\ 0 <= v[1].n /\ v[1].n < U16 THEN Ok(v[1].n) ELSE Fail
  OBVIOUS
<1>3. parseMatch(key, v) = IF Len(v) # 1 THEN Fail
                           ELSE IF r.ok THEN Ok(NumMatch("ArpOp", r.v)) ELSE Fail
  BY <1>2, Parser DEF parseArpOp, Then
<1>4. Len(v) = 1 /\ r.ok /\ m = NumMatch("ArpOp", r.v)
  BY <1>1, <1>3, OkFields DEF Fail
<1>5. v[1].t \in {"dec", "hex"} /\ v[1].n \in Int /\ v[1].n < U16
  <2>1. v[1].t \in {"dec", "hex"}
    BY <1>2, <1>4 DEF Fail
  <2>2. 1 \in DOMAIN v /\ v[1].n \in Int
    BY <1>4 DEF IsValue, IsToken
  <2>3. key \in DOMAIN FieldWidth /\ FieldWidth[key] = U16
    BY Widths
  <2> QED
    BY <2>1, <2>2, <2>3 DEF Printed
<1>6. m.kind = "ArpOp" /\ m.a = v[1].n
  <2>1. r.v = v[1].n
    BY <1>2, <1>4, <1>5, Hex16Is, OkFields DEF Fail
  <2> QED
    BY <2>1, <1>4, NumFields
<1>7. MarshalMatch(m) = MarshalArpOp(m)
  BY <1>6, Printer
<1>8. MarshalMatch(m) = Ok(Field(key, <<Dec(v[1].n)>>))
  BY <1>1, <1>6, <1>7 DEF MarshalArpOp, Fail
<1>9. SameValue(v, <<Dec(v[1].n)>>)
  BY <1>4, <1>5, OneToken
<1> QED
  BY <1>1, <1>8, <1>9, OkFields, FieldFields DEF KeptAs

(* ct_state and tcp_flags are kept. *)
LEMMA FlagsKept ==
  ASSUME NEW key \in {"ct_state", "tcp_flags"}, NEW v, IsValue(v), Printed(key, v), PrintedAgain(key, v).ok
  PROVE  KeptAs(key, v, PrintedAgain(key, v))
<1> PICK m : m = parseMatch(key, v).v
  OBVIOUS
<1>1. parseMatch(key, v).ok /\ PrintedAgain(key, v) = MarshalMatch(m)
  BY ReadThenPrinted
<1>2. PICK w : /\ SameValue(v, w)
               /\ m = StrMatch(IF key = "ct_state" THEN "ConnectionTrackingState" ELSE "TCPFlags", w)
  <2>1. CASE key = "ct_state"
    <3>1. parseMatch(key, v) = parseCTState(v)
      BY <2>1, Parser
    <3>2. PICK w : parseCTState(v) = Ok(StrMatch("ConnectionTrackingState", w)) /\ SameValue(v, w)
      BY <2>1, CTStateRead
    <3>3. m = StrMatch("ConnectionTrackingState", w)
      BY <3>1, <3>2, OkFields
    <3> QED
      BY <2>1, <3>2, <3>3
  <2>2. CASE key = "tcp_flags"
    <3>1. parseMatch(key, v) = parseTCPFlags(v)
      BY <2>2, Parser
    <3>2. m = StrMatch("TCPFlags", v)
      BY <1>1, <3>1, OkFields DEF parseTCPFlags, Fail
    <3> QED
      BY <2>2, <3>2, SameItself
  <2> QED
    BY <2>1, <2>2
<1>3. m.s = w /\ (\/ m.kind \in DOMAIN FlagKey /\ FlagKey[m.kind] = key
                  \/ m.kind \in DOMAIN TCPFlagKey /\ TCPFlagKey[m.kind] = key)
  BY <1>2, StrFields DEF FlagKey, TCPFlagKey
<1>4. MarshalMatch(m) = Ok(Field(key, w))
  BY ONLY <1>3, Printer
<1> QED
  BY <1>1, <1>2, <1>4, OkFields, FieldFields DEF KeptAs

(* Every field that a dump of flows can hold, but for the addresses of a   *)
(* tunnel, keeps its key and what its value says through parseMatch and    *)
(* MarshalText, or is an error on the way: for every key, every number of  *)
(* every width, every address, every mask and every list of flags          *)
(* (ovs/matchparser.go, ovs/match.go).                                     *)
THEOREM FieldIsKept ==
  ASSUME NEW key, NEW v, IsValue(v)
  PROVE  ValueKept(key, v)
<1> SUFFICES ASSUME key \notin Renamed, Printed(key, v), PrintedAgain(key, v).ok
             PROVE  KeptAs(key, v, PrintedAgain(key, v))
  BY DEF ValueKept, KeptAs
<1>1. CASE key \in DOMAIN MACMatch
  BY <1>1, MACKept
<1>2. CASE key \in DOMAIN IntMatch \cup DOMAIN PlainIntMatch
  BY <1>2, IntKept
<1>3. CASE key \in DOMAIN PortMatch
  BY <1>3, PortKept
<1>4. CASE key \in DOMAIN StringMatch
  BY <1>4, StringKept
<1>5. CASE key \in {"ct_state", "tcp_flags"}
  BY <1>5, FlagsKept
<1>6. CASE key = "dl_type"
  BY <1>6, DataLinkTypeKept
<1>7. CASE key \in {"dl_vlan", "dl_vlan_pcp"}
  BY <1>7, VLANKept
<1>8. CASE key = "arp_op"
  BY <1>8, ArpOpKept
<1>9. CASE key \in MaskedKeys
  BY <1>9, MaskedKeysKept
<1>10. CASE /\ key \notin DOMAIN MACMatch \cup DOMAIN IntMatch \cup DOMAIN PlainIntMatch \cup DOMAIN PortMatch
                            \cup DOMAIN StringMatch
            /\ key \notin {"ct_state", "tcp_flags", "dl_type", "dl_vlan", "dl_vlan_pcp", "arp_op"} \cup MaskedKeys
  <2>1. parseMatch(key, v) = Skipped
    BY <1>10 DEF parseMatch, MaskedKeys
  <2> QED
    BY <2>1, ReadThenPrinted, OkFields DEF Skipped
<1> QED
  BY <1>1, <1>2, <1>3, <1>4, <1>5, <1>6, <1>7, <1>8, <1>9, <1>10

-----------------------------------------------------------------------------
(* Matches of the library *)

(* A field that is read as a match is printed as that match. *)
LEMMA PrintedIs ==
  ASSUME NEW key, NEW v, NEW m, parseMatch(key, v) = Ok(m), m.kind # "nil"
  PROVE  PrintedAgain(key, v) = MarshalMatch(m)
<1>1. m # NoMatch
  BY NumFields DEF NoMatch
<1>2. PICK r : r = parseMatch(key, v)
  OBVIOUS
<1>3. PrintedAgain(key, v) = IF r.ok THEN IF r.v = NoMatch THEN Fail ELSE MarshalMatch(r.v) ELSE Fail
  BY <1>2 DEF PrintedAgain, Then
<1>4. r.ok /\ r.v = m
  BY <1>2, OkFields
<1> QED
  BY <1>1, <1>3, <1>4

(* MatchReadBack of a match, given its text and what the text is read as.  *)
LEMMA ReadBackIs ==
  ASSUME NEW m, NEW key, NEW v, NEW again,
         MarshalMatch(m).ok => MarshalMatch(m) = Ok(Field(key, v)),
         MarshalMatch(m).ok => /\ parseMatch(key, v) = Ok(again) /\ again.kind # "nil"
                               /\ MarshalMatch(again) = Ok(Field(key, v))
  PROVE  MatchReadBack(m)
<1> SUFFICES ASSUME MarshalMatch(m).ok
             PROVE  PrintedAgain(MarshalMatch(m).v.key, MarshalMatch(m).v.val) = MarshalMatch(m)
  BY DEF MatchReadBack
<1>1. MarshalMatch(m).v.key = key /\ MarshalMatch(m).v.val = v
  BY OkFields, FieldFields
<1>2. PrintedAgain(key, v) = MarshalMatch(again)
  BY PrintedIs
<1> QED
  BY <1>1, <1>2

(* parseClampInt reads a number that is not too large. *)
LEMMA ClampOk ==
  ASSUME NEW n \in Int, NEW max \in Int, -(U64 \div 2) <= n, n < U64 \div 2, n <= max
  PROVE  parseClampInt(<<Dec(n)>>, max) = Ok(n)
<1>1. Dec(n).t = "dec" /\ Dec(n).n = n
  BY DEF Dec, Token
<1>2. Atoi(Dec(n)) = Ok(n)
  BY <1>1 DEF Atoi
<1>3. PICK v, r : v = <<Dec(n)>> /\ r = Atoi(v[1])
  OBVIOUS
<1>4. Len(v) = 1 /\ r.ok /\ r.v = n
  BY <1>2, <1>3, OkFields
<1>5. parseClampInt(v, max) = IF r.ok THEN IF r.v <= max THEN Ok(r.v) ELSE Fail ELSE Fail
  BY <1>3, <1>4 DEF parseClampInt, Then
<1> QED
  BY <1>3, <1>4, <1>5

(* How the widths compare. *)
LEMMA WidthFacts ==
  /\ U16 <= U64 \div 2 /\ U32 <= U64 \div 2 /\ U32 \div 2 <= U32 /\ 7 < U64 \div 2
  /\ U8 <= U64 \div 2 /\ U12 <= U64 \div 2 /\ U32 \div 2 \in Nat /\ U64 \div 2 \in Nat
BY WidthAssumption

(* Every key of a decimal number is printed by the match that is read from *)
(* it, but for the kinds that share a key.                                 *)
LEMMA DecimalTables ==
  /\ \A key \in DOMAIN IntMatch :
        IntMatch[key].kind \in DOMAIN DecimalKey /\ DecimalKey[IntMatch[key].kind] = key
  /\ \A key \in DOMAIN PlainIntMatch :
        PlainIntMatch[key] \in DOMAIN DecimalKey /\ DecimalKey[PlainIntMatch[key]] = key
  /\ DOMAIN IntMatch \cap DOMAIN PlainIntMatch = {}
<1>1. \A key \in DOMAIN IntMatch :
         IntMatch[key].kind \in DOMAIN DecimalKey /\ DecimalKey[IntMatch[key].kind] = key
  BY SMTT(30) DEF IntMatch, IntKind, DecimalKey, Over, QosKey, TTLKey, ICMPKey, InPortKey, ARPOperationKey, ZoneKey
<1>2. \A key \in DOMAIN PlainIntMatch :
         PlainIntMatch[key] \in DOMAIN DecimalKey /\ DecimalKey[PlainIntMatch[key]] = key
  BY SMTT(30) DEF PlainIntMatch, DecimalKey, Over, QosKey, TTLKey, ICMPKey, InPortKey, ARPOperationKey, ZoneKey
<1>3. DOMAIN IntMatch \cap DOMAIN PlainIntMatch = {}
  BY SMTT(30) DEF IntMatch, PlainIntMatch
<1> QED
  BY <1>1, <1>2, <1>3

(* A match of an unsigned number in decimal is read back. *)
LEMMA NumBack ==
  ASSUME NEW kind \in DOMAIN NumKinds, kind \notin {"DataLinkType", "ArpOp", "ARPOperation"},
         NEW n \in 0 .. NumKinds[kind] - 1
  PROVE  MatchReadBack(NumMatch(kind, n))
<1> PICK m, u : m = NumMatch(kind, n) /\ u = NumKinds[kind]
  OBVIOUS
<1>0. PICK key \in DOMAIN IntMatch : IntMatch[key].kind = kind /\ IntMatch[key].u = u
  <2>1. \E key \in DOMAIN IntMatch : IntMatch[key] = IntKind(kind, u)
    BY DEF NumKinds, Single, Over, IntMatch, IntKind
  <2> QED
    BY <2>1 DEF IntKind
<1>1. kind \in DOMAIN DecimalKey /\ DecimalKey[kind] = key /\ kind # "nil" /\ u \in {U8, U16, U32}
  <2>1. kind # "nil" /\ u \in {U8, U16, U32}
    BY DEF NumKinds, Single, Over
  <2> QED
    BY <2>1, <1>0, DecimalTables
<1>2. m.kind = kind /\ m.a = n
  BY NumFields
<1>3. MarshalMatch(m) = Ok(Field(key, <<Dec(n)>>))
  BY <1>1, <1>2, Printer
<1>4. PICK r : r = parseClampInt(<<Dec(n)>>, u - 1)
  OBVIOUS
<1>5. parseMatch(key, <<Dec(n)>>) = parseIntMatch(key, <<Dec(n)>>)
  BY <1>0, <1>1, Parser
<1>6. parseIntMatch(key, <<Dec(n)>>) = IF r.ok THEN Ok(NumMatch(kind, r.v % u)) ELSE Fail
  BY <1>0, <1>1, <1>4 DEF parseIntMatch, Then
<1>7. u \in Nat /\ n \in Int /\ 0 <= n /\ n < u /\ n < U64 \div 2 /\ -(U64 \div 2) <= n
  BY <1>1, WidthAssumption, WidthFacts
<1>8. r = Ok(n) /\ n % u = n
  BY <1>4, <1>7, ClampOk, Cut
<1>9. parseMatch(key, <<Dec(n)>>) = Ok(m)
  BY <1>5, <1>6, <1>8, OkFields
<1> QED
  BY <1>1, <1>2, <1>3, <1>9, ReadBackIs

(* A match of an int is read back, up to the largest that parseClampInt    *)
(* accepts.                                                                *)
LEMMA IntBack ==
  ASSUME NEW kind \in IntKinds, NEW n \in -(U64 \div 2) .. MaxInt32
  PROVE  MatchReadBack(NumMatch(kind, n))
<1> PICK m : m = NumMatch(kind, n)
  OBVIOUS
<1>0. PICK key \in DOMAIN PlainIntMatch : PlainIntMatch[key] = kind
  BY DEF IntKinds, PlainIntMatch
<1>1. kind \in DOMAIN DecimalKey /\ DecimalKey[kind] = key /\ kind # "nil" /\ key \notin DOMAIN IntMatch
  BY <1>0, DecimalTables DEF IntKinds
<1>2. m.kind = kind /\ m.a = n
  BY NumFields
<1>3. MarshalMatch(m) = Ok(Field(key, <<Dec(n)>>))
  BY <1>1, <1>2, Printer
<1>4. PICK r : r = parseClampInt(<<Dec(n)>>, MaxInt32)
  OBVIOUS
<1>5. parseMatch(key, <<Dec(n)>>) = parseIntMatch(key, <<Dec(n)>>)
  BY <1>0, <1>1, Parser
<1>6. parseIntMatch(key, <<Dec(n)>>) = IF r.ok THEN Ok(NumMatch(kind, r.v)) ELSE Fail
  BY <1>0, <1>1, <1>4 DEF parseIntMatch, Then
<1>7. MaxInt32 \in Int /\ n \in Int /\ n <= MaxInt32 /\ n < U64 \div 2 /\ -(U64 \div 2) <= n
  BY WidthAssumption, WidthFacts DEF MaxInt32
<1>8. r = Ok(n)
  BY <1>4, <1>7, ClampOk
<1>9. parseMatch(key, <<Dec(n)>>) = Ok(m)
  BY <1>5, <1>6, <1>8, OkFields
<1> QED
  BY <1>1, <1>2, <1>3, <1>9, ReadBackIs

(* DataLinkType is read back. *)
LEMMA DataLinkTypeBack ==
  ASSUME NEW n \in 0 .. U16 - 1
  PROVE  MatchReadBack(NumMatch("DataLinkType", n))
<1> PICK m, key : m = NumMatch("DataLinkType", n) /\ key = "dl_type"
  OBVIOUS
<1>2. m.kind = "DataLinkType" /\ m.a = n
  BY NumFields
<1>3. MarshalMatch(m) = Ok(Field(key, <<Hex(n)>>))
  BY <1>2, Printer DEF MarshalVLAN
<1>4. parseHexUint16(Hex(n)) = Ok(n)
  <2>1. ParseHex(Hex(n), U32) = Ok(n)
    BY WidthAssumption DEF ParseHex, Hex, Token
  <2> QED
    BY <2>1, OkFields, Cut, WidthAssumption DEF parseHexUint16, Then
<1>5. PICK v, r : v = <<Hex(n)>> /\ r = parseHexUint16(v[1])
  OBVIOUS
<1>6. Len(v) = 1 /\ r.ok /\ r.v = n
  BY <1>4, <1>5, OkFields
<1>7. parseMatch(key, v) = IF Len(v) # 1 THEN Fail ELSE IF r.ok THEN Ok(NumMatch("DataLinkType", r.v)) ELSE Fail
  BY <1>5, Parser DEF Then
<1>8. parseMatch(key, v) = Ok(m)
  BY <1>6, <1>7
<1> QED
  BY <1>2, <1>3, <1>5, <1>8, ReadBackIs

(* strconv.ParseUint reads a number that fits. *)
LEMMA HexOk ==
  ASSUME NEW n \in Int, NEW u \in Nat, 0 <= n, n < u
  PROVE  ParseHex(Hex(n), u) = Ok(n)
BY DEF ParseHex, Hex, Token

(* So does parseHexUint16. *)
LEMMA Hex16Ok ==
  ASSUME NEW n \in 0 .. U16 - 1
  PROVE  parseHexUint16(Hex(n)) = Ok(n)
<1>1. ParseHex(Hex(n), U32) = Ok(n)
  BY HexOk, WidthAssumption
<1> QED
  BY <1>1, OkFields, Cut, WidthAssumption DEF parseHexUint16, Then

(* DataLinkVLAN and DataLinkVLANPCP are read back, or not printed. *)
LEMMA VLANBack ==
  ASSUME NEW kind \in {"DataLinkVLAN", "DataLinkVLANPCP"}, NEW n \in Int
  PROVE  MatchReadBack(NumMatch(kind, n))
<1> PICK m, key : m = NumMatch(kind, n) /\ key = IF kind = "DataLinkVLAN" THEN "dl_vlan" ELSE "dl_vlan_pcp"
  OBVIOUS
<1>1. m.kind = kind /\ m.a = n
  BY NumFields
<1>2. PICK tok : tok = IF kind = "DataLinkVLAN" /\ n = VLANNone THEN Hex(n) ELSE Dec(n)
  OBVIOUS
<1>3. MarshalMatch(m).ok => /\ MarshalMatch(m) = Ok(Field(key, <<tok>>))
                            /\ tok = Hex(n) => n = U16 - 1
                            /\ tok = Dec(n) => 0 <= n /\ n < U64 \div 2
  <2>1. MarshalMatch(m) = MarshalVLAN(m)
    BY <1>1, Printer
  <2>2. Dec(n) # Hex(n)
    BY DEF Dec, Hex, Token
  <2> QED
    BY <1>1, <1>2, <2>1, <2>2, WidthAssumption, WidthFacts DEF MarshalVLAN, Fail, VLANNone, validVLANVID, validVLANPCP
<1>4. ASSUME MarshalMatch(m).ok
      PROVE  parseMatch(key, <<tok>>) = Ok(m)
  <2>1. (IF tok.t = "hex" THEN parseHexUint16(tok) ELSE Atoi(tok)) = Ok(n)
    <3>1. CASE tok = Hex(n)
      BY <3>1, <1>3, <1>4, Hex16Ok, WidthAssumption DEF Hex, Token
    <3>2. CASE tok = Dec(n)
      BY <3>2, <1>3, <1>4, WidthFacts DEF Dec, Token, Atoi
    <3> QED
      BY <1>2, <3>1, <3>2
  <2>2. PICK v, r : v = <<tok>> /\ r = IF v[1].t = "hex" THEN parseHexUint16(v[1]) ELSE Atoi(v[1])
    OBVIOUS
  <2>3. Len(v) = 1 /\ r.ok /\ r.v = n
    BY <2>1, <2>2, OkFields
  <2>4. parseVLAN(kind, v) = IF r.ok THEN Ok(NumMatch(kind, r.v)) ELSE Fail
    BY <2>2, <2>3 DEF parseVLAN, Then
  <2>5. parseMatch(key, v) = parseVLAN(kind, v)
    BY Parser DEF parseDataLinkVLAN, parseDataLinkVLANPCP
  <2> QED
    BY <2>2, <2>3, <2>4, <2>5
<1> QED
  BY <1>1, <1>3, <1>4, ReadBackIs

(* ArpOp is read back, or not printed. *)
LEMMA ArpOpBack ==
  ASSUME NEW n \in Int
  PROVE  MatchReadBack(NumMatch("ArpOp", n))
<1> PICK m, key : m = NumMatch("ArpOp", n) /\ key = "arp_op"
  OBVIOUS
<1>1. m.kind = "ArpOp" /\ m.a = n
  BY NumFields
<1>2. MarshalMatch(m) = MarshalArpOp(m)
  BY <1>1, Printer
<1>3. MarshalMatch(m).ok => MarshalMatch(m) = Ok(Field(key, <<Dec(n)>>)) /\ 0 <= n /\ n < U16
  BY <1>1, <1>2, WidthAssumption DEF MarshalArpOp, validARPOP, Fail
<1>4. ASSUME MarshalMatch(m).ok
      PROVE  parseMatch(key, <<Dec(n)>>) = Ok(m)
  <2>1. PICK v, r : /\ v = <<Dec(n)>>
                    /\ r = IF v[1].t = "hex" THEN parseHexUint16(v[1])
                           ELSE IF v[1].t = "dec" /\ 0 <= v[1].n /\ v[1].n < U16 THEN Ok(v[1].n) ELSE Fail
    OBVIOUS
  <2>2. Len(v) = 1 /\ r = Ok(n)
    BY <1>3, <1>4, <2>1 DEF Dec, Token
  <2>3. parseArpOp(v) = IF r.ok THEN Ok(NumMatch("ArpOp", r.v)) ELSE Fail
    BY <2>1, <2>2 DEF parseArpOp, Then
  <2>4. parseMatch(key, v) = parseArpOp(v)
    BY Parser
  <2> QED
    BY <2>1, <2>2, <2>3, <2>4, OkFields
<1> QED
  BY <1>1, <1>3, <1>4, ReadBackIs

(* A transport port with its mask is read back. *)
LEMMA PortBack ==
  ASSUME NEW kind \in DOMAIN PortKey, NEW a \in 0 .. U16 - 1, NEW b \in 0 .. U16 - 1
  PROVE  MatchReadBack(MaskMatch(kind, a, b))
<1> PICK m : m = MaskMatch(kind, a, b)
  OBVIOUS
<1>0. PICK key \in DOMAIN PortMatch : PortMatch[key] = kind /\ PortKey[kind] = key /\ kind # "nil"
  BY DEF PortMatch, PortKey
<1>1. m.kind = kind /\ m.a = a /\ m.b = b
  BY MaskFields
<1>2. MarshalMatch(m) = Ok(Field(key, portText(a, b)))
  BY <1>0, <1>1, Printer
<1>3. PICK v : v = portText(a, b)
  OBVIOUS
<1>4. parseMatch(key, v) = parsePort(key, v)
  BY <1>0, Parser
<1>5. parsePort(key, v) = Ok(m)
  <2>1. CASE b = 0
    <3>1. v = <<Dec(a)>> /\ Len(v) = 1
      BY <1>3, <2>1 DEF portText
    <3>2. parseClampInt(v, U16 - 1) = Ok(a)
      BY <3>1, ClampOk, WidthFacts, WidthAssumption
    <3>3. PICK r : r = parseClampInt(v, U16 - 1)
      OBVIOUS
    <3>4. parsePort(key, v) = IF r.ok THEN Ok(NumMatch(kind, r.v % U16)) ELSE Fail
      BY <3>1, <3>3, <1>0 DEF parsePort, Then
    <3>5. a % U16 = a
      BY Cut, WidthAssumption
    <3>6. m = NumMatch(kind, a)
      BY <2>1 DEF MaskMatch, NumMatch
    <3> QED
      BY <3>2, <3>3, <3>4, <3>5, <3>6, OkFields
  <2>2. CASE b # 0
    <3>1. v = <<Hex(a), Hex(b)>> /\ Len(v) = 2 /\ v[1] = Hex(a) /\ v[2] = Hex(b)
      BY <1>3, <2>2 DEF portText
    <3>2. PICK r, q : r = ParseHex(v[1], U16) /\ q = ParseHex(v[2], U16)
      OBVIOUS
    <3>3. r = Ok(a) /\ q = Ok(b)
      BY <3>1, <3>2, HexOk, WidthAssumption
    <3>4. parsePort(key, v) = IF r.ok THEN IF q.ok THEN Ok(MaskMatch(kind, r.v, q.v)) ELSE Fail ELSE Fail
      BY <3>1, <3>2, <1>0 DEF parsePort, Then
    <3> QED
      BY <3>3, <3>4, OkFields
  <2> QED
    BY <2>1, <2>2
<1> QED
  BY <1>0, <1>1, <1>2, <1>3, <1>4, <1>5, ReadBackIs

(* parseMasked reads what Masked prints. *)
LEMMA MaskedOk ==
  ASSUME NEW kind, NEW u \in {U16, U32, U64}, NEW a \in 0 .. u - 1, NEW b \in 0 .. u - 1
  PROVE  parseMasked(kind, Masked(a, b), u) = Ok(MaskMatch(kind, a, b))
<1> DEFINE num(tok) == IF tok.t = "hex"
                       THEN IF u = U16 THEN parseHexUint16(tok)
                            ELSE IF u = U32 THEN parseHexUint32(tok) ELSE parseHexUint64(tok)
                       ELSE Atoi(tok)
<1>1. ASSUME NEW n \in 0 .. u - 1
      PROVE  num(Hex(n)) = Ok(n) /\ n % u = n
  <2>1. Hex(n).t = "hex"
    BY DEF Hex, Token
  <2>2. u \in Nat /\ n \in Int /\ 0 <= n /\ n < u
    BY WidthAssumption
  <2>3. n % u = n
    BY <2>2, Cut
  <2>4. CASE u = U16
    BY <2>1, <2>3, <2>4, Hex16Ok
  <2>5. CASE u = U32
    BY <2>1, <2>2, <2>3, <2>5, HexOk, WidthAssumption DEF parseHexUint32
  <2>6. CASE u = U64
    BY <2>1, <2>2, <2>3, <2>6, HexOk, WidthAssumption DEF parseHexUint64
  <2> QED
    BY <2>4, <2>5, <2>6
<1>2. PICK v : v = Masked(a, b)
  OBVIOUS
<1>3. CASE b = 0
  <2>1. Len(v) = 1 /\ v[1] = Hex(a)
    BY <1>2, <1>3 DEF Masked
  <2>2. PICK r : r = num(v[1])
    OBVIOUS
  <2>3. parseMasked(kind, v, u) = IF r.ok THEN Ok(NumMatch(kind, r.v % u)) ELSE Fail
    BY <2>1, <2>2 DEF parseMasked, Then
  <2>4. MaskMatch(kind, a, b) = NumMatch(kind, a)
    BY <1>3 DEF MaskMatch, NumMatch
  <2> HIDE DEF num
  <2>5. r.ok /\ r.v % u = a
    BY <1>1, <2>1, <2>2, OkFields
  <2> QED
    BY <1>2, <2>3, <2>4, <2>5
<1>4. CASE b # 0
  <2>1. Len(v) = 2 /\ v[1] = Hex(a) /\ v[2] = Hex(b)
    BY <1>2, <1>4 DEF Masked
  <2>2. PICK r, q : r = num(v[1]) /\ q = num(v[2])
    OBVIOUS
  <2>3. parseMasked(kind, v, u) = IF r.ok THEN IF q.ok THEN Ok(MaskMatch(kind, r.v % u, q.v % u)) ELSE Fail ELSE Fail
    BY <2>1, <2>2 DEF parseMasked, Then
  <2> HIDE DEF num
  <2>5. r.ok /\ r.v % u = a /\ q.ok /\ q.v % u = b
    BY <1>1, <2>1, <2>2, OkFields
  <2> QED
    BY <1>2, <2>3, <2>5
<1> QED
  BY <1>3, <1>4

(* The matches of masked numbers are read back. *)
LEMMA MaskedBack ==
  ASSUME NEW kind \in DOMAIN MaskKinds \ DOMAIN PortKey,
         NEW a \in 0 .. MaskKinds[kind] - 1, NEW b \in 0 .. MaskKinds[kind] - 1
  PROVE  MatchReadBack(MaskMatch(kind, a, b))
<1> PICK m, u : m = MaskMatch(kind, a, b) /\ u = MaskKinds[kind]
  OBVIOUS
<1>1. m.kind = kind /\ m.a = a /\ m.b = b
  BY MaskFields
<1>2. PICK key : key = IF kind = "IPv6Label" THEN "ipv6_label" ELSE MaskedKey[kind]
  OBVIOUS
<1>3. /\ u \in {U16, U32, U64} /\ kind # "nil"
      /\ \/ kind = "IPv6Label" /\ u = U32
         \/ kind \in DOMAIN MaskedKey /\ kind # "IPv6Label"
  BY DEF MaskKinds, MaskedKey, Over, PortKey, TCIKey, MarkKey, MetadataKey, TunnelIDKey
<1>4. \A v : parseMatch(key, v) = parseMasked(kind, v, u)
  <2>1. CASE kind = "IPv6Label"
    BY <2>1, <1>2, <1>3, Parser DEF parseIPv6Label
  <2>2. CASE kind # "IPv6Label"
    <3>1. \/ kind = "VLANTCI" /\ key = "vlan_tci" /\ u = U16
          \/ kind = "VLANTCI1" /\ key = "vlan_tci1" /\ u = U16
          \/ kind = "ConnectionTrackingMark" /\ key = "ct_mark" /\ u = U32
          \/ kind = "MetadataWithMask" /\ key = "metadata" /\ u = U64
          \/ kind = "TunnelIDWithMask" /\ key = "tun_id" /\ u = U64
      BY <1>2, <1>3, <2>2 DEF MaskKinds, MaskedKey, Over, PortKey, TCIKey, MarkKey, MetadataKey, TunnelIDKey
    <3>2. ASSUME kind = "VLANTCI", key = "vlan_tci", u = U16, NEW v
          PROVE  parseMatch(key, v) = parseMasked(kind, v, u)
      BY <3>2, Parser DEF parseVLANTCI
    <3>3. ASSUME kind = "VLANTCI1", key = "vlan_tci1", u = U16, NEW v
          PROVE  parseMatch(key, v) = parseMasked(kind, v, u)
      BY <3>3, Parser DEF parseVLANTCI1
    <3>4. ASSUME kind = "ConnectionTrackingMark", key = "ct_mark", u = U32, NEW v
          PROVE  parseMatch(key, v) = parseMasked(kind, v, u)
      BY <3>4, Parser DEF parseCTMark
    <3>5. ASSUME kind = "MetadataWithMask", key = "metadata", u = U64, NEW v
          PROVE  parseMatch(key, v) = parseMasked(kind, v, u)
      BY <3>5, Parser DEF parseMetadata
    <3>6. ASSUME kind = "TunnelIDWithMask", key = "tun_id", u = U64, NEW v
          PROVE  parseMatch(key, v) = parseMasked(kind, v, u)
      BY <3>6, Parser DEF parseTunID
    <3> QED
      BY <3>1, <3>2, <3>3, <3>4, <3>5, <3>6
  <2> QED
    BY <2>1, <2>2
<1>5. parseMatch(key, Masked(a, b)) = Ok(m)
  BY <1>3, <1>4, MaskedOk
<1>6. MarshalMatch(m).ok => MarshalMatch(m) = Ok(Field(key, Masked(a, b)))
  <2>1. CASE kind = "IPv6Label"
    <3>1. MarshalMatch(m) = MarshalIPv6Label(m)
      BY <1>1, <2>1, Printer
    <3> QED
      BY <1>1, <1>2, <2>1, <3>1 DEF MarshalIPv6Label, Fail
  <2>2. CASE kind # "IPv6Label"
    BY <1>1, <1>2, <1>3, <2>2, Printer
  <2> QED
    BY <2>1, <2>2
<1> QED
  BY <1>1, <1>3, <1>5, <1>6, ReadBackIs

(* The matches of an address that parseMatch reads. *)
AddressKinds == DOMAIN NetworkKey \cup DOMAIN ARPProtocolKey \cup DOMAIN IPv6Key \cup {"NeighborDiscoveryTarget"}

(* How a match of an address is printed, and how its field is read. *)
LEMMA AddressPrinter ==
  ASSUME NEW kind \in AddressKinds
  PROVE  \E key \in DOMAIN StringMatch, family \in {"ip4", "ip6"} :
            /\ StringMatch[key] = kind /\ kind # "nil"
            /\ \A m : m.kind = kind => MarshalMatch(m) = matchAddress(key, family, m.s)
<1>1. CASE kind \in DOMAIN NetworkKey
  <2>1. NetworkKey[kind] \in DOMAIN StringMatch /\ StringMatch[NetworkKey[kind]] = kind /\ kind # "nil"
    BY <1>1 DEF StringMatch, NetworkKey
  <2> QED
    BY <1>1, <2>1, Printer DEF matchIPv4AddressOrCIDR
<1>2. CASE kind \in DOMAIN ARPProtocolKey
  <2>1. ARPProtocolKey[kind] \in DOMAIN StringMatch /\ StringMatch[ARPProtocolKey[kind]] = kind /\ kind # "nil"
    BY <1>2 DEF StringMatch, ARPProtocolKey
  <2> QED
    BY <1>2, <2>1, Printer DEF matchIPv4AddressOrCIDR
<1>3. CASE kind \in DOMAIN IPv6Key
  <2>1. IPv6Key[kind] \in DOMAIN StringMatch /\ StringMatch[IPv6Key[kind]] = kind /\ kind # "nil"
    BY <1>3 DEF StringMatch, IPv6Key
  <2> QED
    BY <1>3, <2>1, Printer DEF matchIPv6AddressOrCIDR
<1>4. CASE kind = "NeighborDiscoveryTarget"
  <2>1. "nd_target" \in DOMAIN StringMatch /\ StringMatch["nd_target"] = kind
    BY <1>4 DEF StringMatch
  <2> QED
    BY <1>4, <2>1, Printer DEF matchIPv6AddressOrCIDR
<1> QED
  BY <1>1, <1>2, <1>3, <1>4 DEF AddressKinds

(* They are read back, or not printed. *)
LEMMA AddressBack ==
  ASSUME NEW kind \in AddressKinds, NEW v, IsValue(v)
  PROVE  MatchReadBack(StrMatch(kind, v))
<1> PICK m : m = StrMatch(kind, v)
  OBVIOUS
<1>1. PICK key \in DOMAIN StringMatch, family \in {"ip4", "ip6"} :
            /\ StringMatch[key] = kind /\ kind # "nil"
            /\ \A x : x.kind = kind => MarshalMatch(x) = matchAddress(key, family, x.s)
  BY AddressPrinter
<1>2. m.kind = kind /\ m.s = v
  BY StrFields
<1>3. MarshalMatch(m) = matchAddress(key, family, v)
  BY <1>1, <1>2
<1>4. PICK w : w = IF IsCIDR(v) THEN v ELSE <<Canonical(v[1])>>
  OBVIOUS
<1>5. MarshalMatch(m).ok => /\ MarshalMatch(m) = Ok(Field(key, w))
                            /\ v[1].t = family /\ (IsCIDR(v) \/ Len(v) = 1)
  BY <1>3, <1>4 DEF matchAddress, Fail
<1>6. PICK again : again = StrMatch(kind, w)
  OBVIOUS
<1>7. parseMatch(key, w) = Ok(again) /\ again.kind = kind /\ again.s = w
  BY <1>1, <1>6, Parser, StrFields
<1>8. ASSUME MarshalMatch(m).ok
      PROVE  matchAddress(key, family, w) = Ok(Field(key, w))
  <2>1. CASE IsCIDR(v)
    BY <1>4, <1>5, <1>8, <2>1 DEF matchAddress
  <2>2. CASE ~IsCIDR(v)
    <3>1. IsToken(v[1])
      BY DEF IsValue
    <3>2. PICK tok : tok = Canonical(v[1])
      OBVIOUS
    <3>3. tok.t = family /\ Canonical(tok) = tok
      BY <1>5, <1>8, <3>1, <3>2 DEF Canonical, IsToken, Token
    <3>4. w = <<tok>> /\ Len(w) = 1 /\ w[1] = tok
      BY <1>4, <2>2, <3>2
    <3>5. ~IsCIDR(w)
      BY <3>4 DEF IsCIDR
    <3> QED
      BY <3>3, <3>4, <3>5 DEF matchAddress
  <2> QED
    BY <2>1, <2>2
<1>9. MarshalMatch(m).ok => MarshalMatch(again) = Ok(Field(key, w))
  BY <1>1, <1>7, <1>8
<1> QED
  BY <1>1, <1>5, <1>7, <1>9, ReadBackIs

(* A match of a hardware address of ARP or of neighbour discovery is read  *)
(* back, or not printed.                                                   *)
LEMMA HardwareBack ==
  ASSUME NEW kind \in DOMAIN NDKey \cup DOMAIN ARPHardwareKey, NEW v
  PROVE  MatchReadBack(StrMatch(kind, v))
<1> PICK m : m = StrMatch(kind, v)
  OBVIOUS
<1>1. PICK key \in DOMAIN MACMatch :
         /\ MACMatch[key] = kind /\ kind # "nil"
         /\ \/ kind \in DOMAIN NDKey /\ NDKey[kind] = key
            \/ kind \in DOMAIN ARPHardwareKey /\ ARPHardwareKey[kind] = key
  BY DEF MACMatch, NDKey, ARPHardwareKey
<1>2. m.kind = kind /\ m.s = v
  BY StrFields
<1>3. MarshalMatch(m) = matchEthernetHardwareAddress(key, v)
  BY ONLY <1>1, <1>2, Printer
<1>4. MarshalMatch(m).ok => MarshalMatch(m) = Ok(Field(key, v)) /\ Len(v) = 1 /\ IsMac(v[1], {6})
  BY <1>3 DEF matchEthernetHardwareAddress, Fail
<1>5. parseMatch(key, v) = parseMACMatch(key, v)
  BY Parser
<1>6. MarshalMatch(m).ok => parseMatch(key, v) = Ok(m)
  BY <1>1, <1>4, <1>5 DEF parseMACMatch, IsMac
<1> QED
  BY <1>1, <1>2, <1>4, <1>6, ReadBackIs

(* So is one of the source or the destination of a frame, with its mask. *)
LEMMA DataLinkBack ==
  ASSUME NEW kind \in {"DataLinkSource", "DataLinkDestination"}, NEW v
  PROVE  MatchReadBack(StrMatch(kind, v))
<1> PICK m, key : m = StrMatch(kind, v) /\ key = IF kind = "DataLinkSource" THEN "dl_src" ELSE "dl_dst"
  OBVIOUS
<1>1. key \in DOMAIN StringMatch /\ StringMatch[key] = kind
  BY DEF StringMatch
<1>2. m.kind = kind /\ m.s = v
  BY StrFields
<1>3. MarshalMatch(m) = MarshalDataLink(m)
  BY <1>2, Printer
<1>4. MarshalMatch(m).ok => MarshalMatch(m) = Ok(Field(key, v))
  BY <1>2, <1>3 DEF MarshalDataLink, Fail
<1>5. parseMatch(key, v) = Ok(m)
  BY <1>1, Parser
<1> QED
  BY <1>2, <1>4, <1>5, ReadBackIs

(* Flags that all have a sign. *)
Signed(v) == IsValue(v) /\ \A i \in 1 .. Len(v) : v[i].x \in {1, -1}

(* Matches of flags with signs are read back. *)
LEMMA FlagsBack ==
  ASSUME NEW kind \in {"ConnectionTrackingState", "TCPFlags"}, NEW v, Signed(v)
  PROVE  MatchReadBack(StrMatch(kind, v))
<1> PICK m, key : m = StrMatch(kind, v) /\ key = IF kind = "TCPFlags" THEN "tcp_flags" ELSE "ct_state"
  OBVIOUS
<1>1. m.kind = kind /\ m.s = v
  BY StrFields
<1>2. MarshalMatch(m) = Ok(Field(key, v))
  <2>1. \/ m.kind \in DOMAIN FlagKey /\ FlagKey[m.kind] = key
        \/ m.kind \in DOMAIN TCPFlagKey /\ TCPFlagKey[m.kind] = key
    BY <1>1 DEF FlagKey, TCPFlagKey
  <2> QED
    BY ONLY <1>1, <2>1, Printer
<1>3. parseMatch(key, v) = Ok(m)
  <2>1. CASE kind = "TCPFlags"
    <3>1. parseMatch(key, v) = parseTCPFlags(v)
      BY <2>1, Parser
    <3> QED
      BY <2>1, <3>1 DEF parseTCPFlags, Signed
  <2>2. CASE kind = "ConnectionTrackingState"
    <3>1. parseMatch(key, v) = parseCTState(v)
      BY <2>2, Parser
    <3>2. DOMAIN v = 1 .. Len(v) /\ 1 \in DOMAIN v
      BY DEF Signed, IsValue
    <3>3. ~(\E i \in DOMAIN v : v[i].x = 2) /\ \E i \in DOMAIN v : v[i].x \in {1, -1}
      BY <3>2 DEF Signed
    <3> QED
      BY <2>2, <3>1, <3>3 DEF parseCTState
  <2> QED
    BY <2>1, <2>2
<1> QED
  BY <1>1, <1>2, <1>3, ReadBackIs

(* The matches that the constructors of ovs/match.go make: numbers of the  *)
(* type of their argument (an int that is larger than the largest int32 is *)
(* printed, and then rejected by the parser), any strings as addresses,    *)
(* and signed flags, which SetState, UnsetState, SetTCPFlag and            *)
(* UnsetTCPFlag make; and those of Unread, which are read as another match *)
(* or skipped.                                                             *)
Constructed(m) ==
    \/ \E kind \in DOMAIN NumKinds : \E n \in 0 .. NumKinds[kind] - 1 : m = NumMatch(kind, n)
    \/ \E kind \in IntKinds, n \in -(U64 \div 2) .. MaxInt32 : m = NumMatch(kind, n)
    \/ \E kind \in {"DataLinkVLAN", "DataLinkVLANPCP"}, n \in Int : m = NumMatch(kind, n)
    \/ \E kind \in DOMAIN MaskKinds : \E a, b \in 0 .. MaskKinds[kind] - 1 : m = MaskMatch(kind, a, b)
    \/ \E kind \in AddressKinds : \E v : IsValue(v) /\ m = StrMatch(kind, v)
    \/ \E kind \in {"DataLinkSource", "DataLinkDestination"} \cup DOMAIN NDKey \cup DOMAIN ARPHardwareKey :
          \E v : m = StrMatch(kind, v)
    \/ \E kind \in {"ConnectionTrackingState", "TCPFlags"} : \E v : Signed(v) /\ m = StrMatch(kind, v)
    \/ m.kind \in Unread

(* Every match of the library that has a text, but for those of Unread, is *)
(* read back from it and printed the same again: parseMatch never refuses  *)
(* it, nor takes a number, mask, address or flag of it for another         *)
(* (ovs/match.go, ovs/matchparser.go).                                     *)
THEOREM MatchIsReadBack ==
  ASSUME NEW m, Constructed(m)
  PROVE  MatchReadBack(m)
<1>1. CASE \E kind \in DOMAIN NumKinds : \E n \in 0 .. NumKinds[kind] - 1 : m = NumMatch(kind, n)
  <2>1. PICK kind \in DOMAIN NumKinds : \E n \in 0 .. NumKinds[kind] - 1 : m = NumMatch(kind, n)
    BY <1>1
  <2>2. PICK n \in 0 .. NumKinds[kind] - 1 : m = NumMatch(kind, n)
    BY <2>1
  <2>3. CASE kind = "DataLinkType"
    <3>1. NumKinds[kind] = U16
      BY <2>3 DEF NumKinds, Over, Single
    <3> QED
      BY <2>2, <2>3, <3>1, DataLinkTypeBack
  <2>4. CASE kind = "ArpOp"
    <3>1. NumKinds[kind] = U16
      BY <2>4 DEF NumKinds, Over, Single
    <3> QED
      BY <2>2, <2>4, <3>1, ArpOpBack, WidthAssumption
  <2>5. CASE kind = "ARPOperation"
    BY <2>2, <2>5, NumFields DEF MatchReadBack, Unread
  <2> QED
    BY <2>2, <2>3, <2>4, <2>5, NumBack
<1>2. CASE \E kind \in IntKinds, n \in -(U64 \div 2) .. MaxInt32 : m = NumMatch(kind, n)
  BY <1>2, IntBack
<1>3. CASE \E kind \in {"DataLinkVLAN", "DataLinkVLANPCP"}, n \in Int : m = NumMatch(kind, n)
  BY <1>3, VLANBack
<1>4. CASE \E kind \in DOMAIN MaskKinds : \E a, b \in 0 .. MaskKinds[kind] - 1 : m = MaskMatch(kind, a, b)
  <2>1. PICK kind \in DOMAIN MaskKinds : \E a, b \in 0 .. MaskKinds[kind] - 1 : m = MaskMatch(kind, a, b)
    BY <1>4
  <2>2. PICK a \in 0 .. MaskKinds[kind] - 1, b \in 0 .. MaskKinds[kind] - 1 : m = MaskMatch(kind, a, b)
    BY <2>1
  <2>3. CASE kind \in DOMAIN PortKey
    <3>1. MaskKinds[kind] = U16
      BY <2>3 DEF MaskKinds, Over
    <3> QED
      BY <2>2, <2>3, <3>1, PortBack
  <2> QED
    BY <2>2, <2>3, MaskedBack
<1>5. CASE \E kind \in AddressKinds : \E v : IsValue(v) /\ m = StrMatch(kind, v)
  BY <1>5, AddressBack
<1>6. CASE \E kind \in {"DataLinkSource", "DataLinkDestination"} \cup DOMAIN NDKey \cup DOMAIN ARPHardwareKey :
              \E v : m = StrMatch(kind, v)
  BY <1>6, DataLinkBack, HardwareBack
<1>7. CASE \E kind \in {"ConnectionTrackingState", "TCPFlags"} : \E v : Signed(v) /\ m = StrMatch(kind, v)
  BY <1>7, FlagsBack
<1>8. CASE m.kind \in Unread
  BY <1>8 DEF MatchReadBack
<1> QED
  BY <1>1, <1>2, <1>3, <1>4, <1>5, <1>6, <1>7, <1>8 DEF Constructed

-----------------------------------------------------------------------------
(* Actions of the library *)

(* MarshalText of an action, by the kind of the action (ovs/action.go). *)
LEMMA SimplePrinter ==
  ASSUME NEW a
  PROVE  /\ a.kind \in TextActions => MarshalSimple(a) = Ok(ActText(a.kind, <<>>))
         /\ a.kind = "ConnectionTracking" => MarshalSimple(a) = MarshalCT(a)
         /\ a.kind \in DOMAIN DataLinkWord => MarshalSimple(a) = MarshalModDataLink(a)
         /\ a.kind \in DOMAIN NetworkWord => MarshalSimple(a) = MarshalModNetwork(a)
         /\ a.kind \in DOMAIN TransportWord => MarshalSimple(a) = MarshalModTransportPort(a)
         /\ a.kind = "ModVLANVID" => MarshalSimple(a) = MarshalModVLANVID(a)
         /\ a.kind = "Output" => MarshalSimple(a) = MarshalOutput(a)
         /\ a.kind = "OutputField" => MarshalSimple(a) = MarshalOutputField(a)
         /\ a.kind = "Multipath" => MarshalSimple(a) = MarshalMultipath(a)
         /\ a.kind = "Conjunction" => MarshalSimple(a) = MarshalConjunction(a)
         /\ a.kind = "ResubmitPort" => MarshalSimple(a) = MarshalResubmitPort(a)
         /\ a.kind = "Resubmit" => MarshalSimple(a) = MarshalResubmit(a)
         /\ a.kind \in DOMAIN ArrowWord => MarshalSimple(a) = MarshalLoadSetField(a)
         /\ a.kind = "SetTunnel" => MarshalSimple(a) = MarshalSetTunnel(a)
         /\ a.kind = "Move" => MarshalSimple(a) = MarshalMove(a)
BY DEF MarshalSimple, TextActions, DataLinkWord, NetworkWord, TransportWord, ArrowWord

(* parseAction dispatches on the word (ovs/actionparser.go). *)
LEMMA ActionParser ==
  ASSUME NEW t, ~t.up
  PROVE  /\ t.word \in SimpleWords => parseAction(t) = Ok(Action(t.word, <<>>, <<>>))
         /\ t.word = "ct" =>
               parseAction(t) = IF t.args[1] = Empty THEN Fail
                                ELSE Ok(Action("ConnectionTracking", <<>>, t.args))
         /\ t.word = "mod_dl_dst" => parseAction(t) = parseModDataLink("ModDataLinkDestination", t)
         /\ t.word = "mod_dl_src" => parseAction(t) = parseModDataLink("ModDataLinkSource", t)
         /\ t.word = "mod_nw_dst" => parseAction(t) = parseModNetwork("ModNetworkDestination", t)
         /\ t.word = "mod_nw_src" => parseAction(t) = parseModNetwork("ModNetworkSource", t)
         /\ t.word = "mod_tp_dst" => parseAction(t) = parseModTransport("ModTransportDestinationPort", t)
         /\ t.word = "mod_tp_src" => parseAction(t) = parseModTransport("ModTransportSourcePort", t)
         /\ t.word = "mod_vlan_vid" => parseAction(t) = parseNumber("ModVLANVID", t)
         /\ t.word = "conjunction" => parseAction(t) = parseConjunction(t)
         /\ t.word = "output" => parseAction(t) = parseNumber("Output", t)
         /\ t.word = "resubmit(" => parseAction(t) = parseResubmit(t)
         /\ t.word = "resubmit:" => parseAction(t) = parseResubmitPort(t)
         /\ t.word = "load" => parseAction(t) = parseArrow("Load", t)
         /\ t.word = "move" => parseAction(t) = parseArrow("Move", t)
         /\ t.word = "set_field" => parseAction(t) = parseArrow("SetField", t)
         /\ t.word \in {"all", "multipath", "set_tunnel"} => parseAction(t) = Fail
         /\ t.word = "learn" /\ ~HasLoad(t) => parseAction(t) = Fail
BY DEF parseAction, parseWithArguments, SimpleWords, TextActions

(* The fields of an action ... *)
LEMMA ActionFields ==
  ASSUME NEW k, NEW n, NEW s
  PROVE  Action(k, n, s).kind = k /\ Action(k, n, s).n = n /\ Action(k, n, s).s = s
BY DEF Action

(* ... and of its text. *)
LEMMA ActTextFields ==
  ASSUME NEW w, NEW args
  PROVE  /\ ActText(w, args).word = w /\ ActText(w, args).args = args /\ ~ActText(w, args).up
         /\ ~HasLoad(ActText(w, args))
<1>1. ActText(w, args).inner = <<>> /\ ActText(w, args).word = w /\ ActText(w, args).args = args /\ ~ActText(w, args).up
  BY DEF ActText
<1> QED
  BY <1>1 DEF HasLoad

(* ActionReadBack of an action, given its text and what the text is read   *)
(* as.                                                                     *)
LEMMA ActionBackIs ==
  ASSUME NEW a, a.kind \notin Unparsed \cup {"Learn"}, NEW w, NEW args, NEW again,
         MarshalSimple(a).ok =>
            /\ MarshalSimple(a) = Ok(ActText(w, args))
            /\ parseAction(ActText(w, args)) = Ok(again)
            /\ again.kind # "Learn" /\ MarshalSimple(again) = Ok(ActText(w, args))
  PROVE  ActionReadBack(a)
<1>1. MarshalAction(a) = MarshalSimple(a)
  BY DEF MarshalAction
<1> SUFFICES ASSUME MarshalSimple(a).ok
             PROVE  Then(parseAction(MarshalSimple(a).v), MarshalAction) = MarshalSimple(a)
  BY <1>1 DEF ActionReadBack
<1>2. MarshalSimple(a).v = ActText(w, args)
  BY OkFields
<1>3. PICK r : r = parseAction(ActText(w, args))
  OBVIOUS
<1>4. r.ok /\ r.v = again
  BY <1>3, OkFields
<1>5. Then(r, MarshalAction) = MarshalAction(again)
  BY <1>4 DEF Then
<1>6. MarshalAction(again) = MarshalSimple(a)
  BY DEF MarshalAction
<1> QED
  BY <1>2, <1>3, <1>5, <1>6

(* ActionReadBack of an action whose text no rule of the parser accepts. *)
LEMMA UnparsedBackIs ==
  ASSUME NEW a, a.kind \in Unparsed, NEW w, NEW args,
         MarshalSimple(a).ok =>
            /\ MarshalSimple(a) = Ok(ActText(w, args))
            /\ ~parseAction(ActText(w, args)).ok
  PROVE  ActionReadBack(a)
<1>1. MarshalAction(a) = MarshalSimple(a)
  BY DEF MarshalAction, Unparsed
<1> SUFFICES ASSUME MarshalSimple(a).ok
             PROVE  Then(parseAction(MarshalSimple(a).v), MarshalAction) = Fail
  BY <1>1 DEF ActionReadBack
<1>2. MarshalSimple(a).v = ActText(w, args)
  BY OkFields
<1> QED
  BY <1>2 DEF Then

(* The numbers of Go's int. *)
Int64 == -(U64 \div 2) .. (U64 \div 2) - 1

(* strconv.Atoi reads an int back. *)
LEMMA ScanOk ==
  ASSUME NEW n \in Int64
  PROVE  Atoi(Dec(n)) = Ok(n) /\ ScanInt(Dec(n)) = Ok(n)
<1>1. Dec(n).t = "dec" /\ Dec(n).n = n
  BY DEF Dec, Token
<1> QED
  BY <1>1, WidthFacts DEF Atoi, ScanInt, Int64

(* One number in decimal. *)
LEMMA OneDec ==
  ASSUME NEW n \in Int
  PROVE  Decs(<<n>>) = <<Dec(n)>>
BY DEF Decs

(* An action that is a word is read back. *)
LEMMA TextBack ==
  ASSUME NEW w \in TextActions
  PROVE  ActionReadBack(Action(w, <<>>, <<>>))
<1> PICK a, t : a = Action(w, <<>>, <<>>) /\ t = ActText(w, <<>>)
  OBVIOUS
<1>1. a.kind = w /\ MarshalSimple(a) = Ok(t)
  BY ActionFields, SimplePrinter
<1>2. t.word = w /\ ~t.up
  BY ActTextFields
<1>3. CASE w = "all"
  <2>1. parseAction(t) = Fail
    BY <1>2, <1>3, ActionParser
  <2>2. w \in Unparsed
    BY <1>3 DEF Unparsed
  <2> QED
    BY <1>1, <2>1, <2>2, UnparsedBackIs DEF Fail
<1>4. CASE w # "all"
  <2>1. parseAction(t) = Ok(a)
    BY <1>2, <1>4, ActionParser DEF SimpleWords
  <2>2. w \notin Unparsed \cup {"Learn"}
    BY <1>4 DEF Unparsed, TextActions
  <2> QED
    BY <1>1, <2>1, <2>2, ActionBackIs
<1> QED
  BY <1>3, <1>4

(* ct with its arguments is read back, or not printed. *)
LEMMA CTBack ==
  ASSUME NEW s
  PROVE  ActionReadBack(Action("ConnectionTracking", <<>>, <<s>>))
<1> PICK a, t : a = Action("ConnectionTracking", <<>>, <<s>>) /\ t = ActText("ct", <<s>>)
  OBVIOUS
<1>1. a.kind = "ConnectionTracking" /\ a.s = <<s>> /\ a.s[1] = s
  BY ActionFields
<1>2. MarshalSimple(a) = MarshalCT(a)
  BY <1>1, SimplePrinter
<1>3. MarshalSimple(a).ok => MarshalSimple(a) = Ok(t) /\ s # Empty
  BY <1>1, <1>2 DEF MarshalCT, Fail
<1>4. t.word = "ct" /\ t.args = <<s>> /\ t.args[1] = s /\ ~t.up
  BY ActTextFields
<1>5. s # Empty => parseAction(t) = Ok(a)
  BY <1>4, ActionParser
<1>6. a.kind \notin Unparsed \cup {"Learn"}
  BY <1>1 DEF Unparsed
<1> QED
  BY <1>1, <1>3, <1>5, <1>6, ActionBackIs

(* OutputField is not taken for Output: its argument is no number. *)
LEMMA OutputFieldBack ==
  ASSUME NEW s, s = Empty \/ s.t \notin {"dec", "hex"}
  PROVE  ActionReadBack(Action("OutputField", <<>>, <<s>>))
<1> PICK a, t : a = Action("OutputField", <<>>, <<s>>) /\ t = ActText("output", <<s>>)
  OBVIOUS
<1>1. a.kind = "OutputField" /\ a.s = <<s>> /\ a.s[1] = s
  BY ActionFields
<1>2. MarshalSimple(a) = MarshalOutputField(a)
  BY <1>1, SimplePrinter
<1>3. MarshalSimple(a).ok => MarshalSimple(a) = Ok(t) /\ s # Empty
  BY <1>1, <1>2 DEF MarshalOutputField, Fail
<1>4. t.word = "output" /\ t.args[1] = s /\ ~t.up
  BY ActTextFields
<1>5. s # Empty => ~parseAction(t).ok
  <2>1. s # Empty => ~ScanInt(s).ok
    BY DEF ScanInt, Atoi, Fail
  <2>2. parseAction(t) = parseNumber("Output", t)
    BY <1>4, ActionParser
  <2> QED
    BY <1>4, <2>1, <2>2 DEF parseNumber, Then, Fail
<1>6. a.kind \in Unparsed
  BY <1>1 DEF Unparsed
<1> QED
  BY <1>3, <1>5, <1>6, UnparsedBackIs

(* The actions that set an address are read back, or the address is        *)
(* rejected.                                                               *)
LEMMA AddressActionBack ==
  ASSUME NEW kind \in DOMAIN DataLinkWord \cup DOMAIN NetworkWord, NEW s, IsToken(s)
  PROVE  ActionReadBack(Action(kind, <<>>, <<s>>))
<1> PICK a : a = Action(kind, <<>>, <<s>>)
  OBVIOUS
<1>1. a.kind = kind /\ a.s = <<s>> /\ a.s[1] = s
  BY ActionFields
<1>2. kind \notin Unparsed \cup {"Learn"}
  BY DEF Unparsed, DataLinkWord, NetworkWord
<1>3. CASE kind \in DOMAIN DataLinkWord
  <2>1. PICK w : w = DataLinkWord[kind]
    OBVIOUS
  <2>2. PICK t : t = ActText(w, <<s>>)
    OBVIOUS
  <2>3. MarshalSimple(a).ok => MarshalSimple(a) = Ok(t) /\ IsMac(s, {6})
    BY <1>1, <1>3, <2>1, <2>2, SimplePrinter DEF MarshalModDataLink, Fail
  <2>4. parseAction(t) = parseModDataLink(kind, t) /\ t.args = <<s>> /\ t.args[1] = s
    BY <1>3, <2>1, <2>2, ActTextFields, ActionParser DEF DataLinkWord
  <2>5. IsMac(s, {6}) => parseAction(t) = Ok(a)
    BY <2>4 DEF parseModDataLink, IsMac
  <2> QED
    BY <1>1, <1>2, <2>2, <2>3, <2>5, ActionBackIs
<1>4. CASE kind \in DOMAIN NetworkWord
  <2>1. PICK w, c : w = NetworkWord[kind] /\ c = Canonical(s)
    OBVIOUS
  <2>2. PICK t, again : t = ActText(w, <<c>>) /\ again = Action(kind, <<>>, <<c>>)
    OBVIOUS
  <2>3. c.t = s.t /\ Canonical(c) = c
    BY <2>1 DEF Canonical, IsToken, Token
  <2>4. MarshalSimple(a).ok => MarshalSimple(a) = Ok(t) /\ s.t = "ip4"
    BY <1>1, <1>4, <2>1, <2>2, SimplePrinter DEF MarshalModNetwork, Fail
  <2>5. parseAction(t) = parseModNetwork(kind, t) /\ t.args[1] = c
    BY <1>4, <2>1, <2>2, ActTextFields, ActionParser DEF NetworkWord
  <2>6. s.t = "ip4" => parseAction(t) = Ok(again)
    BY <2>2, <2>3, <2>5 DEF parseModNetwork
  <2>7. again.kind = kind /\ again.s[1] = c
    BY <2>2, ActionFields
  <2>8. s.t = "ip4" => MarshalSimple(again) = Ok(t)
    BY <1>4, <2>1, <2>2, <2>3, <2>7, SimplePrinter DEF MarshalModNetwork
  <2> QED
    BY <1>1, <1>2, <2>2, <2>4, <2>6, <2>7, <2>8, ActionBackIs
<1> QED
  BY <1>3, <1>4

(* The actions that set a transport port are read back. *)
LEMMA TransportBack ==
  ASSUME NEW kind \in DOMAIN TransportWord, NEW n \in 0 .. U16 - 1
  PROVE  ActionReadBack(Action(kind, <<n>>, <<>>))
<1> PICK a, w : a = Action(kind, <<n>>, <<>>) /\ w = TransportWord[kind]
  OBVIOUS
<1> PICK t : t = ActText(w, <<Dec(n)>>)
  OBVIOUS
<1>1. a.kind = kind /\ a.n = <<n>>
  BY ActionFields
<1>2. MarshalSimple(a) = Ok(t)
  BY <1>1, SimplePrinter, OneDec, WidthAssumption DEF MarshalModTransportPort
<1>3. parseAction(t) = parseModTransport(kind, t) /\ t.args[1] = Dec(n)
  BY ActTextFields, ActionParser DEF TransportWord
<1>4. ScanUint16(Dec(n)) = Ok(n)
  <2>1. ScanInt(Dec(n)) = Ok(n)
    BY ScanOk, WidthFacts, WidthAssumption DEF Int64
  <2> QED
    BY <2>1, OkFields DEF ScanUint16, Then
<1>5. parseAction(t) = Ok(a)
  BY <1>3, <1>4, OkFields DEF parseModTransport, Then
<1>6. kind \notin Unparsed \cup {"Learn"}
  BY DEF Unparsed, TransportWord
<1> QED
  BY <1>1, <1>2, <1>5, <1>6, ActionBackIs

(* The actions with one int are read back, or not printed. *)
LEMMA NumberBack ==
  ASSUME NEW kind \in {"ModVLANVID", "Output", "ResubmitPort"}, NEW n \in Int64
  PROVE  ActionReadBack(Action(kind, <<n>>, <<>>))
<1> PICK a, w : /\ a = Action(kind, <<n>>, <<>>)
                /\ w = IF kind = "Output" THEN "output"
                       ELSE IF kind = "ModVLANVID" THEN "mod_vlan_vid" ELSE "resubmit:"
  OBVIOUS
<1> PICK t : t = ActText(w, <<Dec(n)>>)
  OBVIOUS
<1>1. a.kind = kind /\ a.n = <<n>> /\ a.n[1] = n
  BY ActionFields
<1>2. Decs(a.n) = <<Dec(n)>> /\ n \in Int
  BY <1>1, OneDec, WidthFacts DEF Int64
<1>3. MarshalSimple(a).ok => MarshalSimple(a) = Ok(t) /\ (kind = "ResubmitPort" => n >= 0)
  BY <1>1, <1>2, SimplePrinter DEF MarshalModVLANVID, MarshalOutput, MarshalResubmitPort, Fail
<1>4. t.word = w /\ t.args[1] = Dec(n) /\ ~t.up
  BY ActTextFields
<1>5. ScanInt(Dec(n)) = Ok(n)
  BY ScanOk
<1>6. ASSUME kind = "ResubmitPort" => n >= 0
      PROVE  parseAction(t) = Ok(a)
  <2>1. CASE kind = "ResubmitPort"
    <3>1. parseAction(t) = parseResubmitPort(t)
      BY <1>4, <2>1, ActionParser
    <3> QED
      BY <1>4, <1>5, <1>6, <2>1, <3>1, OkFields DEF parseResubmitPort, Then
  <2>2. CASE kind # "ResubmitPort"
    <3>1. parseAction(t) = parseNumber(kind, t)
      BY <1>4, <2>2, ActionParser
    <3> QED
      BY <1>4, <1>5, <3>1, OkFields DEF parseNumber, Then
  <2> QED
    BY <2>1, <2>2
<1>7. kind \notin Unparsed \cup {"Learn"}
  BY DEF Unparsed
<1> QED
  BY <1>1, <1>3, <1>6, <1>7, ActionBackIs

(* SetTunnel and Multipath are rejected: the parser has no rule for them.  *)
LEMMA NoRuleBack ==
  ASSUME NEW kind \in {"SetTunnel", "Multipath"}, NEW n, NEW s
  PROVE  ActionReadBack(Action(kind, n, s))
<1> PICK a, w : a = Action(kind, n, s) /\ w = IF kind = "SetTunnel" THEN "set_tunnel" ELSE "multipath"
  OBVIOUS
<1>1. a.kind = kind
  BY ActionFields
<1>2. PICK args : MarshalSimple(a) = Ok(ActText(w, args))
  BY <1>1, SimplePrinter DEF MarshalSetTunnel, MarshalMultipath
<1>3. parseAction(ActText(w, args)) = Fail
  BY ActTextFields, ActionParser
<1>4. kind \in Unparsed
  BY DEF Unparsed
<1> QED
  BY <1>1, <1>2, <1>3, <1>4, UnparsedBackIs DEF Fail

(* Resubmit is read back; an argument that is 0 is printed as none, and    *)
(* none is read as 0.                                                      *)
LEMMA ResubmitBack ==
  ASSUME NEW n \in Int64, NEW m \in Int64, 0 <= n, 0 <= m
  PROVE  ActionReadBack(Action("Resubmit", <<n, m>>, <<>>))
<1> PICK a : a = Action("Resubmit", <<n, m>>, <<>>)
  OBVIOUS
<1>0. n \in Int /\ m \in Int
  BY WidthFacts DEF Int64
<1>1. a.kind = "Resubmit" /\ a.n = <<n, m>> /\ a.n[1] = n /\ a.n[2] = m
  BY ActionFields
<1>2. PICK args : args = [i \in 1 .. 2 |-> IF a.n[i] = 0 THEN Empty ELSE Dec(a.n[i])]
  OBVIOUS
<1> PICK t : t = ActText("resubmit(", args)
  OBVIOUS
<1>3. MarshalSimple(a).ok => MarshalSimple(a) = Ok(t)
  <2>1. MarshalSimple(a) = MarshalResubmit(a)
    BY <1>1, SimplePrinter
  <2> QED
    BY <1>2, <2>1 DEF MarshalResubmit, Fail
<1>4. parseAction(t) = parseResubmit(t) /\ t.args = args
  BY ActTextFields, ActionParser
<1>5. Empty.n = 0
  BY DEF Empty, Word, Token
<1>6. ASSUME NEW x \in Int64, 0 <= x, NEW tok, tok = IF x = 0 THEN Empty ELSE Dec(x)
      PROVE  tok.n = x /\ (tok = Empty \/ (Atoi(tok).ok /\ tok.n >= 0))
  <2>1. x \in Int /\ Dec(x).n = x /\ Atoi(Dec(x)).ok
    BY ScanOk, OkFields, WidthFacts DEF Dec, Token, Int64
  <2> QED
    BY <1>5, <1>6, <2>1
<1>7. /\ args[1].n = n /\ (args[1] = Empty \/ (Atoi(args[1]).ok /\ args[1].n >= 0))
      /\ args[2].n = m /\ (args[2] = Empty \/ (Atoi(args[2]).ok /\ args[2].n >= 0))
  <2>1. args[1] = (IF n = 0 THEN Empty ELSE Dec(n)) /\ args[2] = (IF m = 0 THEN Empty ELSE Dec(m))
    BY <1>1, <1>2
  <2> QED
    BY <2>1, <1>6
<1>8. parseAction(t) = Ok(a)
  BY <1>4, <1>7 DEF parseResubmit
<1>9. a.kind \notin Unparsed \cup {"Learn"}
  BY <1>1 DEF Unparsed
<1> QED
  BY <1>1, <1>3, <1>8, <1>9, ActionBackIs

(* Conjunction is read back, or not printed. *)
LEMMA ConjunctionBack ==
  ASSUME NEW i \in Int64, NEW n \in Int64, NEW m \in Int64
  PROVE  ActionReadBack(Action("Conjunction", <<i, n, m>>, <<>>))
<1> PICK a, args : a = Action("Conjunction", <<i, n, m>>, <<>>) /\ args = Decs(a.n)
  OBVIOUS
<1> PICK t : t = ActText("conjunction", args)
  OBVIOUS
<1>1. a.kind = "Conjunction" /\ a.n = <<i, n, m>>
  BY ActionFields
<1>2. MarshalSimple(a).ok => MarshalSimple(a) = Ok(t)
  <2>1. MarshalSimple(a) = MarshalConjunction(a)
    BY <1>1, SimplePrinter
  <2> QED
    BY <2>1 DEF MarshalConjunction, Fail
<1>3. parseAction(t) = parseConjunction(t) /\ t.args = args
  BY ActTextFields, ActionParser
<1>4. args = [j \in 1 .. 3 |-> Dec(a.n[j])] /\ Len(args) = 3
  <2>1. Len(a.n) = 3
    BY <1>1
  <2>2. args = [j \in 1 .. 3 |-> Dec(a.n[j])]
    BY <2>1 DEF Decs
  <2> QED
    BY <2>2
<1>5. ASSUME NEW j \in 1 .. 3
      PROVE  args[j] = Dec(a.n[j]) /\ Atoi(args[j]).ok /\ args[j].n = a.n[j]
  <2>1. a.n[j] \in Int64
    BY <1>1
  <2> QED
    BY <1>4, <2>1, ScanOk, OkFields DEF Dec, Token
<1>6. [j \in 1 .. 3 |-> args[j].n] = <<i, n, m>>
  BY <1>1, <1>5
<1>7. parseAction(t) = Ok(a)
  BY <1>3, <1>4, <1>5, <1>6 DEF parseConjunction
<1>8. a.kind \notin Unparsed \cup {"Learn"}
  BY <1>1 DEF Unparsed
<1> QED
  BY <1>1, <1>2, <1>7, <1>8, ActionBackIs

(* Load, SetField and Move are read back, or not printed. *)
LEMMA ArrowBack ==
  ASSUME NEW kind \in {"Load", "SetField", "Move"}, NEW s
  PROVE  ActionReadBack(Action(kind, <<>>, s))
<1> PICK a, w : /\ a = Action(kind, <<>>, s)
                /\ w = IF kind = "Load" THEN "load" ELSE IF kind = "SetField" THEN "set_field" ELSE "move"
  OBVIOUS
<1> PICK t : t = ActText(w, s)
  OBVIOUS
<1>1. a.kind = kind /\ a.s = s
  BY ActionFields
<1>2. MarshalSimple(a) = IF Empty \in {s[1], s[2]} THEN Fail ELSE Ok(t)
  BY <1>1, SimplePrinter DEF MarshalLoadSetField, MarshalMove, ArrowWord
<1>3. parseAction(t) = parseArrow(kind, t) /\ t.args = s
  BY ActTextFields, ActionParser
<1>4. MarshalSimple(a).ok => MarshalSimple(a) = Ok(t) /\ parseAction(t) = Ok(a)
  BY <1>2, <1>3 DEF parseArrow, Fail
<1>5. kind \notin Unparsed \cup {"Learn"}
  BY DEF Unparsed
<1> QED
  BY <1>1, <1>4, <1>5, ActionBackIs

(* Learn is rejected, if it holds no load. *)
LEMMA LearnBack ==
  ASSUME NEW a, a.kind = "Learn"
  PROVE  ActionReadBack(a)
<1> SUFFICES ASSUME MarshalAction(a).ok, ~HasLoad(MarshalAction(a).v)
             PROVE  Then(parseAction(MarshalAction(a).v), MarshalAction) = Fail
  BY DEF ActionReadBack
<1>1. MarshalAction(a) = MarshalLearn(a)
  BY DEF MarshalAction
<1>2. PICK r : r = MarshalLearnedFlow(a.sub[1])
  OBVIOUS
<1>3. MarshalLearn(a) = IF a.sub = <<>> THEN Fail
                        ELSE IF r.ok THEN Ok([ActText("learn", <<>>) EXCEPT !.inner = <<r.v>>]) ELSE Fail
  BY <1>2 DEF MarshalLearn, Then
<1>4. PICK t : t = MarshalAction(a).v
  OBVIOUS
<1>5. t = [ActText("learn", <<>>) EXCEPT !.inner = <<r.v>>]
  BY <1>1, <1>3, <1>4, OkFields DEF Fail
<1>6. t.word = "learn" /\ ~t.up
  BY <1>5 DEF ActText
<1>7. parseAction(t) = Fail
  BY <1>4, <1>6, ActionParser
<1> QED
  BY <1>4, <1>7 DEF Then, Fail

(* The actions that the constructors of ovs/action.go make: a transport    *)
(* port is a uint16, other numbers are ints. A port and a table of         *)
(* Resubmit are not negative, since the parser takes digits only, and the  *)
(* field of OutputField is the name of a field, no number.                 *)
LibraryAction(a) ==
    \/ \E w \in TextActions : a = Action(w, <<>>, <<>>)
    \/ \E s : a = Action("ConnectionTracking", <<>>, <<s>>)
    \/ \E s : (s = Empty \/ s.t \notin {"dec", "hex"}) /\ a = Action("OutputField", <<>>, <<s>>)
    \/ \E kind \in DOMAIN DataLinkWord \cup DOMAIN NetworkWord :
          \E s : IsToken(s) /\ a = Action(kind, <<>>, <<s>>)
    \/ \E kind \in DOMAIN TransportWord, n \in 0 .. U16 - 1 : a = Action(kind, <<n>>, <<>>)
    \/ \E kind \in {"ModVLANVID", "Output", "ResubmitPort"}, n \in Int64 : a = Action(kind, <<n>>, <<>>)
    \/ \E n, m \in Int64 : 0 <= n /\ 0 <= m /\ a = Action("Resubmit", <<n, m>>, <<>>)
    \/ \E i, n, m \in Int64 : a = Action("Conjunction", <<i, n, m>>, <<>>)
    \/ \E kind \in {"Load", "SetField", "Move"} : \E s : a = Action(kind, <<>>, s)
    \/ \E kind \in {"SetTunnel", "Multipath"} : \E n, s : a = Action(kind, n, s)
    \/ a.kind = "Learn"

(* The text of every action of the library is parsed as that action, or is *)
(* rejected if the parser has no rule for it, and is never taken for       *)
(* another one, whatever its numbers, addresses and strings                *)
(* (ovs/action.go, ovs/actionparser.go).                                   *)
THEOREM ActionIsReadBack ==
  ASSUME NEW a, LibraryAction(a)
  PROVE  ActionReadBack(a)
<1>1. CASE \E w \in TextActions : a = Action(w, <<>>, <<>>)
  BY <1>1, TextBack
<1>2. CASE \E s : a = Action("ConnectionTracking", <<>>, <<s>>)
  BY <1>2, CTBack
<1>3. CASE \E s : (s = Empty \/ s.t \notin {"dec", "hex"}) /\ a = Action("OutputField", <<>>, <<s>>)
  BY <1>3, OutputFieldBack
<1>4. CASE \E kind \in DOMAIN DataLinkWord \cup DOMAIN NetworkWord :
              \E s : IsToken(s) /\ a = Action(kind, <<>>, <<s>>)
  BY <1>4, AddressActionBack
<1>5. CASE \E kind \in DOMAIN TransportWord, n \in 0 .. U16 - 1 : a = Action(kind, <<n>>, <<>>)
  BY <1>5, TransportBack
<1>6. CASE \E kind \in {"ModVLANVID", "Output", "ResubmitPort"}, n \in Int64 : a = Action(kind, <<n>>, <<>>)
  BY <1>6, NumberBack
<1>7. CASE \E n, m \in Int64 : 0 <= n /\ 0 <= m /\ a = Action("Resubmit", <<n, m>>, <<>>)
  BY <1>7, ResubmitBack
<1>8. CASE \E i, n, m \in Int64 : a = Action("Conjunction", <<i, n, m>>, <<>>)
  BY <1>8, ConjunctionBack
<1>9. CASE \E kind \in {"Load", "SetField", "Move"} : \E s : a = Action(kind, <<>>, s)
  BY <1>9, ArrowBack
<1>10. CASE \E kind \in {"SetTunnel", "Multipath"} : \E n, s : a = Action(kind, n, s)
  BY <1>10, NoRuleBack
<1>11. CASE a.kind = "Learn"
  BY <1>11, LearnBack
<1> QED
  BY <1>1, <1>2, <1>3, <1>4, <1>5, <1>6, <1>7, <1>8, <1>9, <1>10, <1>11 DEF LibraryAction

-----------------------------------------------------------------------------
(* Texts of dumped actions *)

(* The words that take one argument ... *)
OneArgument == {"ct", "mod_dl_dst", "mod_dl_src", "mod_nw_dst", "mod_nw_src", "mod_tp_dst", "mod_tp_src",
                "mod_vlan_vid", "output", "resubmit:"}

(* ... and two. *)
TwoArguments == {"resubmit(", "load", "move", "set_field"}

(* The text of an action, with as many arguments as its word takes. *)
Dumped(text) ==
    /\ text = [word |-> text.word, args |-> text.args, up |-> text.up, inner |-> text.inner]
    /\ text.up \in BOOLEAN
    /\ text.word # "learn" => text.inner = <<>>
    /\ Len(text.args) \in Nat /\ text.args = [i \in 1 .. Len(text.args) |-> text.args[i]]
    /\ \A i \in 1 .. Len(text.args) : IsToken(text.args[i])
    /\ text.word \in TextActions => text.args = <<>>
    /\ text.word \in OneArgument => Len(text.args) = 1
    /\ text.word \in TwoArguments => Len(text.args) = 2

(* What ActionKept asks of an argument: none stands for 0 in resubmit, and *)
(* an address of mod_nw_ for its canonical form.                           *)
Norm(text, i) ==
    IF text.word = "resubmit(" /\ text.args[i] = Dec(0) THEN Empty
    ELSE IF text.word \in {"mod_nw_dst", "mod_nw_src"} THEN Canonical(text.args[i]) ELSE text.args[i]

(* The text that ActionKept compares with, as a text in lower case. *)
LEMMA TextReplaced ==
  ASSUME NEW text, Dumped(text), text.word # "learn", NEW args,
         NEW new, new = [text EXCEPT !.up = FALSE, !.args = args]
  PROVE  new = ActText(text.word, args)
<1> DEFINE Of == [word : {text.word}, args : {text.args, args}, up : BOOLEAN, inner : {<<>>}]
<1>1. text \in Of
  BY DEF Dumped
<1>2. new \in Of /\ new.args = args /\ new.up = FALSE
  BY <1>1
<1>3. new = [word |-> text.word, args |-> args, up |-> FALSE, inner |-> <<>>]
  BY ONLY <1>2
<1> QED
  BY <1>3 DEF ActText

(* ActionKept of a text, given what it is read as and how that is printed. *)
LEMMA KeptIs ==
  ASSUME NEW text, Dumped(text), text.word # "learn", NEW again, NEW args,
         parseAction(text).ok => parseAction(text).v = again,
         parseAction(text).ok /\ MarshalAction(again).ok => MarshalAction(again) = Ok(ActText(text.word, args)),
         parseAction(text).ok /\ MarshalAction(again).ok => args = [i \in DOMAIN text.args |-> Norm(text, i)]
  PROVE  ActionKept(text)
<1>1. PICK r : r = Then(parseAction(text), MarshalAction)
  OBVIOUS
<1> SUFFICES ASSUME r.ok
             PROVE  r.v = [text EXCEPT !.up = FALSE, !.args = [i \in DOMAIN text.args |-> Norm(text, i)]]
  BY <1>1 DEF ActionKept, Norm
<1>2. PICK p : p = parseAction(text)
  OBVIOUS
<1>3. r = IF p.ok THEN MarshalAction(p.v) ELSE Fail
  BY <1>1, <1>2 DEF Then
<1>4. p.ok /\ p.v = again /\ r = MarshalAction(again)
  BY <1>2, <1>3 DEF Fail
<1>5. r.v = ActText(text.word, args) /\ args = [i \in DOMAIN text.args |-> Norm(text, i)]
  BY <1>2, <1>4, OkFields
<1>6. PICK new : new = [text EXCEPT !.up = FALSE, !.args = args]
  OBVIOUS
<1>7. new = ActText(text.word, args)
  BY <1>6, TextReplaced
<1> QED
  BY <1>5, <1>6, <1>7

(* A text that is rejected has lost nothing. *)
LEMMA RejectedIsKept ==
  ASSUME NEW text, ~parseAction(text).ok
  PROVE  ActionKept(text)
BY DEF ActionKept, Then, Fail

(* Words with arguments are not read in upper case. *)
LEMMA UpperIsRejected ==
  ASSUME NEW text, text.up, text.word \notin SimpleWords
  PROVE  ~parseAction(text).ok
BY DEF parseAction, Fail

(* Arguments that stand for themselves. *)
LEMMA SameArguments ==
  ASSUME NEW text, Dumped(text), text.word \notin {"resubmit(", "mod_nw_dst", "mod_nw_src"}
  PROVE  text.args = [i \in DOMAIN text.args |-> Norm(text, i)]
<1>1. text.args = [i \in DOMAIN text.args |-> text.args[i]]
  BY DEF Dumped
<1>2. \A i \in DOMAIN text.args : Norm(text, i) = text.args[i]
  BY DEF Norm
<1>3. [i \in DOMAIN text.args |-> text.args[i]] = [i \in DOMAIN text.args |-> Norm(text, i)]
  BY <1>2
<1> QED
  BY <1>1, <1>3

(* A text with one argument. *)
LEMMA OneArgumentIs ==
  ASSUME NEW text, Dumped(text), text.word \in OneArgument
  PROVE  /\ Len(text.args) = 1 /\ DOMAIN text.args = {1} /\ text.args = <<text.args[1]>>
         /\ IsToken(text.args[1])
<1>1. Len(text.args) = 1
  BY DEF Dumped
<1>2. DOMAIN text.args = {1} /\ IsToken(text.args[1])
  BY <1>1 DEF Dumped
<1>3. text.args = [i \in 1 .. 1 |-> text.args[i]]
  BY <1>1 DEF Dumped
<1>4. text.args = <<text.args[1]>>
  BY <1>3
<1> QED
  BY <1>1, <1>2, <1>4

(* A decimal token is its number. *)
LEMMA DecIs ==
  ASSUME NEW tok, IsToken(tok), Atoi(tok).ok
  PROVE  tok = Dec(tok.n) /\ Atoi(tok).v = tok.n /\ tok.n \in Int
BY AtoiIs DEF IsToken, Dec

(* A word alone is kept. *)
LEMMA SimpleKept ==
  ASSUME NEW text, Dumped(text), text.word \in SimpleWords
  PROVE  ActionKept(text)
<1> PICK a : a = Action(text.word, <<>>, <<>>)
  OBVIOUS
<1>1. parseAction(text) = Ok(a)
  BY DEF parseAction
<1>2. text.word \in TextActions /\ text.word \notin {"resubmit(", "mod_nw_dst", "mod_nw_src", "learn", "Learn"}
  BY DEF SimpleWords, TextActions
<1>3. text.args = <<>>
  BY <1>2 DEF Dumped
<1>4. a.kind = text.word
  BY ActionFields
<1>5. MarshalAction(a) = Ok(ActText(text.word, <<>>))
  BY <1>2, <1>4, SimplePrinter DEF MarshalAction
<1>6. text.args = [i \in DOMAIN text.args |-> Norm(text, i)]
  BY <1>2, SameArguments
<1>7. parseAction(text).v = a /\ MarshalAction(a) = Ok(ActText(text.word, text.args))
  BY <1>1, <1>3, <1>5, OkFields
<1> QED
  BY <1>2, <1>6, <1>7, KeptIs

(* ct is kept. *)
LEMMA CTKept ==
  ASSUME NEW text, Dumped(text), ~text.up, text.word = "ct"
  PROVE  ActionKept(text)
<1> PICK a : a = Action("ConnectionTracking", <<>>, text.args)
  OBVIOUS
<1>1. parseAction(text).ok => parseAction(text).v = a
  BY ActionParser, OkFields DEF Fail
<1>2. a.kind = "ConnectionTracking" /\ a.s = text.args
  BY ActionFields
<1>3. MarshalAction(a) = MarshalCT(a)
  BY <1>2, SimplePrinter DEF MarshalAction
<1>4. MarshalAction(a).ok => MarshalAction(a) = Ok(ActText(text.word, text.args))
  BY <1>2, <1>3 DEF MarshalCT, Fail
<1>5. text.args = [i \in DOMAIN text.args |-> Norm(text, i)]
  BY SameArguments
<1> QED
  BY <1>1, <1>4, <1>5, KeptIs

(* mod_dl_src and mod_dl_dst are kept. *)
LEMMA DataLinkActionKept ==
  ASSUME NEW text, Dumped(text), ~text.up, text.word \in {"mod_dl_dst", "mod_dl_src"}
  PROVE  ActionKept(text)
<1> PICK kind : kind = IF text.word = "mod_dl_dst" THEN "ModDataLinkDestination" ELSE "ModDataLinkSource"
  OBVIOUS
<1> PICK a : a = Action(kind, <<>>, text.args)
  OBVIOUS
<1>1. parseAction(text).ok => parseAction(text).v = a
  BY ActionParser, OkFields DEF parseModDataLink, Fail
<1>2. a.kind = kind /\ a.s = text.args /\ kind \in DOMAIN DataLinkWord /\ DataLinkWord[kind] = text.word
  BY ActionFields DEF DataLinkWord
<1>3. MarshalAction(a) = MarshalModDataLink(a)
  BY <1>2, SimplePrinter DEF MarshalAction
<1>4. MarshalAction(a).ok => MarshalAction(a) = Ok(ActText(text.word, text.args))
  BY <1>2, <1>3 DEF MarshalModDataLink, Fail
<1>5. text.args = [i \in DOMAIN text.args |-> Norm(text, i)]
  BY SameArguments
<1> QED
  BY <1>1, <1>4, <1>5, KeptIs

(* mod_nw_src and mod_nw_dst are kept. *)
LEMMA NetworkActionKept ==
  ASSUME NEW text, Dumped(text), ~text.up, text.word \in {"mod_nw_dst", "mod_nw_src"}
  PROVE  ActionKept(text)
<1> PICK kind, c : /\ kind = IF text.word = "mod_nw_dst" THEN "ModNetworkDestination" ELSE "ModNetworkSource"
                   /\ c = Canonical(text.args[1])
  OBVIOUS
<1> PICK a : a = Action(kind, <<>>, <<c>>)
  OBVIOUS
<1>0. DOMAIN text.args = {1} /\ IsToken(text.args[1])
  BY OneArgumentIs DEF OneArgument
<1>1. parseAction(text).ok => parseAction(text).v = a
  BY ActionParser, OkFields DEF parseModNetwork, Fail
<1>2. a.kind = kind /\ a.s[1] = c /\ kind \in DOMAIN NetworkWord /\ NetworkWord[kind] = text.word
  BY ActionFields DEF NetworkWord
<1>3. MarshalAction(a) = MarshalModNetwork(a)
  BY <1>2, SimplePrinter DEF MarshalAction
<1>4. Canonical(c) = c
  BY <1>0 DEF Canonical, IsToken, Token
<1>5. MarshalAction(a).ok => MarshalAction(a) = Ok(ActText(text.word, <<c>>))
  BY <1>2, <1>3, <1>4 DEF MarshalModNetwork, Fail
<1>6. <<c>> = [i \in DOMAIN text.args |-> Norm(text, i)]
  <2>1. Norm(text, 1) = c
    BY DEF Norm
  <2> QED
    BY <1>0, <2>1
<1> QED
  BY <1>1, <1>5, <1>6, KeptIs

(* The action that a word with one number stands for. *)
NumberKind(w) ==
    CASE w = "mod_tp_dst" -> "ModTransportDestinationPort"
      [] w = "mod_tp_src" -> "ModTransportSourcePort"
      [] w = "mod_vlan_vid" -> "ModVLANVID"
      [] w = "output" -> "Output"
      [] w = "resubmit:" -> "ResubmitPort"

(* The words with one number are kept. *)
LEMMA NumberActionKept ==
  ASSUME NEW text, Dumped(text), ~text.up, text.word \in NumberWords
  PROVE  ActionKept(text)
<1>0. /\ text.args = <<text.args[1]>> /\ IsToken(text.args[1]) /\ DOMAIN text.args = {1}
      /\ text.args = [i \in DOMAIN text.args |-> Norm(text, i)]
  BY OneArgumentIs, SameArguments DEF OneArgument, NumberWords
<1>1. PICK tok, kind : tok = text.args[1] /\ kind = NumberKind(text.word)
  OBVIOUS
<1>2. CASE tok.t = "hex"
  BY <1>0, <1>1, <1>2 DEF ActionKept
<1>3. CASE tok.t # "hex"
  <2>1. PICK r : r = Atoi(tok)
    OBVIOUS
  <2>2. ScanInt(tok) = r
    BY <1>3, <2>1 DEF ScanInt
  <2>3. parseAction(text).ok => r.ok /\ parseAction(text).v = Action(kind, <<r.v>>, <<>>)
    <3>1. CASE text.word \in {"mod_tp_dst", "mod_tp_src"}
      <4>1. parseAction(text) = parseModTransport(kind, text)
        BY <1>1, <3>1, ActionParser DEF NumberKind
      <4>2. PICK q : q = ScanUint16(tok)
        OBVIOUS
      <4>3. q = IF r.ok THEN IF r.v \in 0 .. U16 - 1 THEN Ok(r.v) ELSE Fail ELSE Fail
        BY <2>2, <4>2 DEF ScanUint16, Then
      <4>4. parseAction(text) = IF q.ok THEN Ok(Action(kind, <<q.v>>, <<>>)) ELSE Fail
        BY <1>1, <4>1, <4>2 DEF parseModTransport, Then
      <4> QED
        BY <4>3, <4>4, OkFields DEF Fail
    <3>2. CASE text.word \in {"mod_vlan_vid", "output"}
      <4>1. parseAction(text) = parseNumber(kind, text)
        BY <1>1, <3>2, ActionParser DEF NumberKind
      <4>2. parseAction(text) = IF r.ok THEN Ok(Action(kind, <<r.v>>, <<>>)) ELSE Fail
        BY <1>1, <2>2, <4>1 DEF parseNumber, Then
      <4> QED
        BY <4>2, OkFields DEF Fail
    <3>3. CASE text.word = "resubmit:"
      <4>1. parseAction(text) = parseResubmitPort(text) /\ kind = "ResubmitPort"
        BY <1>1, <3>3, ActionParser DEF NumberKind
      <4>2. parseAction(text) = IF r.ok THEN IF r.v >= 0 THEN Ok(Action("ResubmitPort", <<r.v>>, <<>>)) ELSE Fail ELSE Fail
        BY <1>1, <2>2, <4>1 DEF parseResubmitPort, Then
      <4> QED
        BY <4>1, <4>2, OkFields DEF Fail
    <3> QED
      BY <3>1, <3>2, <3>3 DEF NumberWords
  <2>4. CASE ~r.ok
    BY <2>3, <2>4, RejectedIsKept
  <2>5. CASE r.ok
    <3>1. tok = Dec(r.v) /\ r.v \in Int
      BY <1>0, <1>1, <2>1, <2>5, DecIs
    <3>2. PICK a : a = Action(kind, <<r.v>>, <<>>)
      OBVIOUS
    <3>3. a.kind = kind /\ a.n = <<r.v>> /\ Decs(a.n) = text.args
      BY <1>0, <1>1, <3>1, <3>2, ActionFields, OneDec
    <3>4. MarshalAction(a).ok => MarshalAction(a) = Ok(ActText(text.word, text.args))
      <4>1. CASE text.word \in {"mod_tp_dst", "mod_tp_src"}
        <5>1. kind \in DOMAIN TransportWord /\ TransportWord[kind] = text.word /\ kind # "Learn"
          BY <1>1, <4>1 DEF NumberKind, TransportWord
        <5> QED
          BY <3>3, <5>1, SimplePrinter DEF MarshalAction, MarshalModTransportPort
      <4>2. CASE text.word = "mod_vlan_vid"
        <5>1. kind = "ModVLANVID"
          BY <1>1, <4>2 DEF NumberKind
        <5> QED
          BY <3>3, <4>2, <5>1, SimplePrinter DEF MarshalAction, MarshalModVLANVID, Fail
      <4>3. CASE text.word = "output"
        <5>1. kind = "Output"
          BY <1>1, <4>3 DEF NumberKind
        <5> QED
          BY <3>3, <4>3, <5>1, SimplePrinter DEF MarshalAction, MarshalOutput, Fail
      <4>4. CASE text.word = "resubmit:"
        <5>1. kind = "ResubmitPort"
          BY <1>1, <4>4 DEF NumberKind
        <5> QED
          BY <3>3, <4>4, <5>1, SimplePrinter DEF MarshalAction, MarshalResubmitPort, Fail
      <4> QED
        BY <4>1, <4>2, <4>3, <4>4 DEF NumberWords
    <3>5. text.word # "learn"
      BY DEF NumberWords
    <3> QED
      BY <1>0, <2>3, <3>2, <3>4, <3>5, KeptIs
  <2> QED
    BY <2>4, <2>5
<1> QED
  BY <1>2, <1>3

(* conjunction is kept. *)
LEMMA ConjunctionKept ==
  ASSUME NEW text, Dumped(text), ~text.up, text.word = "conjunction"
  PROVE  ActionKept(text)
<1> PICK n, args : n = [i \in 1 .. 3 |-> text.args[i].n] /\ args = text.args
  OBVIOUS
<1> PICK a : a = Action("Conjunction", n, <<>>)
  OBVIOUS
<1>1. parseAction(text) = parseConjunction(text)
  BY ActionParser
<1>2. parseAction(text).ok => parseAction(text).v = a /\ Len(args) = 3 /\ \A i \in 1 .. 3 : Atoi(args[i]).ok
  BY <1>1, OkFields DEF parseConjunction, Fail
<1>3. a.kind = "Conjunction" /\ a.n = n
  BY ActionFields
<1>4. ASSUME parseAction(text).ok
      PROVE  Decs(n) = args
  <2>1. args = [i \in 1 .. 3 |-> args[i]] /\ \A i \in 1 .. 3 : IsToken(args[i])
    BY <1>2, <1>4 DEF Dumped
  <2>2. \A i \in 1 .. 3 : args[i] = Dec(n[i])
    BY <1>2, <1>4, <2>1, DecIs
  <2>3. Len(n) = 3
    OBVIOUS
  <2>4. Decs(n) = [i \in 1 .. 3 |-> Dec(n[i])]
    BY <2>3 DEF Decs
  <2> QED
    BY <2>1, <2>2, <2>4
<1>5. MarshalAction(a) = MarshalConjunction(a)
  BY <1>3, SimplePrinter DEF MarshalAction
<1>6. parseAction(text).ok /\ MarshalAction(a).ok => MarshalAction(a) = Ok(ActText(text.word, args))
  BY <1>3, <1>4, <1>5 DEF MarshalConjunction, Fail
<1>7. args = [i \in DOMAIN text.args |-> Norm(text, i)]
  BY SameArguments
<1> QED
  BY <1>2, <1>6, <1>7, KeptIs

(* resubmit is kept. *)
LEMMA ResubmitKept ==
  ASSUME NEW text, Dumped(text), ~text.up, text.word = "resubmit("
  PROVE  ActionKept(text)
<1> PICK args : args = text.args
  OBVIOUS
<1> PICK a : a = Action("Resubmit", <<args[1].n, args[2].n>>, <<>>)
  OBVIOUS
<1>0. DOMAIN args = 1 .. 2 /\ IsToken(args[1]) /\ IsToken(args[2])
  BY DEF Dumped, TwoArguments
<1>1. parseAction(text) = parseResubmit(text)
  BY ActionParser
<1>2. parseAction(text).ok =>
         /\ parseAction(text).v = a
         /\ \A i \in 1 .. 2 : args[i] = Empty \/ (Atoi(args[i]).ok /\ args[i].n >= 0)
  BY <1>1, OkFields DEF parseResubmit, Fail
<1>3. a.kind = "Resubmit" /\ a.n = <<args[1].n, args[2].n>> /\ a.n[1] = args[1].n /\ a.n[2] = args[2].n
  BY ActionFields
<1>4. PICK new : new = [i \in 1 .. 2 |-> IF a.n[i] = 0 THEN Empty ELSE Dec(a.n[i])]
  OBVIOUS
<1>5. MarshalAction(a).ok => MarshalAction(a) = Ok(ActText(text.word, new))
  <2>1. MarshalAction(a) = MarshalResubmit(a)
    BY <1>3, SimplePrinter DEF MarshalAction
  <2>2. MarshalResubmit(a) = IF a.n = <<0, 0>> THEN Fail ELSE Ok(ActText("resubmit(", new))
    BY <1>4, Zenon DEF MarshalResubmit
  <2>3. ~Fail.ok
    BY DEF Fail
  <2> QED
    BY <2>1, <2>2, <2>3, Zenon
<1>6. ASSUME parseAction(text).ok, NEW i \in 1 .. 2
      PROVE  new[i] = Norm(text, i)
  <2>0. a.n[i] = args[i].n /\ IsToken(args[i])
    <3>1. CASE i = 1
      BY <3>1, <1>0, <1>3
    <3>2. CASE i = 2
      BY <3>2, <1>0, <1>3
    <3> QED BY <3>1, <3>2
  <2>1. new[i] = (IF args[i].n = 0 THEN Empty ELSE Dec(args[i].n)) /\ IsToken(args[i])
    <3>1. new[i] = IF a.n[i] = 0 THEN Empty ELSE Dec(a.n[i])
      BY <1>4, Zenon
    <3> QED BY <2>0, <3>1, Zenon
  <2>2. CASE args[i] = Empty
    <3>1. Empty.n = 0 /\ Norm(text, i) = Empty
      BY <2>2 DEF Empty, Word, Token, Norm
    <3> QED
      BY <2>1, <2>2, <3>1
  <2>3. CASE Atoi(args[i]).ok
    <3>1. args[i] = Dec(args[i].n) /\ args[i].n \in Int
      BY <2>1, <2>3, DecIs
    <3>2. Dec(0).n = 0
      BY DEF Dec, Token
    <3>3. Norm(text, i) = IF args[i] = Dec(0) THEN Empty ELSE args[i]
      BY DEF Norm
    <3> QED
      BY <2>1, <3>1, <3>2, <3>3
  <2> QED
    BY <1>2, <1>6, <2>2, <2>3
<1>7. parseAction(text).ok => new = [i \in DOMAIN text.args |-> Norm(text, i)]
  BY <1>0, <1>4, <1>6
<1> QED
  BY <1>2, <1>5, <1>7, KeptIs

(* load, set_field and move are kept. *)
LEMMA ArrowKept ==
  ASSUME NEW text, Dumped(text), ~text.up, text.word \in {"load", "move", "set_field"}
  PROVE  ActionKept(text)
<1> PICK kind : kind = IF text.word = "load" THEN "Load" ELSE IF text.word = "move" THEN "Move" ELSE "SetField"
  OBVIOUS
<1> PICK a : a = Action(kind, <<>>, text.args)
  OBVIOUS
<1>1. parseAction(text) = parseArrow(kind, text)
  BY ActionParser
<1>2. parseAction(text).ok => parseAction(text).v = a
  BY <1>1, OkFields DEF parseArrow, Fail
<1>3. a.kind = kind /\ a.s = text.args
  BY ActionFields
<1>4. MarshalAction(a).ok => MarshalAction(a) = Ok(ActText(text.word, text.args))
  BY <1>3, SimplePrinter DEF MarshalAction, MarshalLoadSetField, MarshalMove, ArrowWord, Fail
<1>5. text.args = [i \in DOMAIN text.args |-> Norm(text, i)]
  BY SameArguments
<1> QED
  BY <1>2, <1>4, <1>5, KeptIs

(* Every action of a dumped flow keeps its word and its arguments through  *)
(* parseAction and MarshalText, or is an error on the way, for every       *)
(* number, address and string among its arguments (ovs/actionparser.go,    *)
(* ovs/action.go).                                                         *)
THEOREM ActionIsKept ==
  ASSUME NEW text, Dumped(text)
  PROVE  ActionKept(text)
<1>1. CASE text.word \in SimpleWords
  BY <1>1, SimpleKept
<1>2. CASE text.word \notin SimpleWords /\ text.up
  BY <1>2, UpperIsRejected, RejectedIsKept
<1>3. CASE text.word \notin SimpleWords /\ ~text.up
  <2>1. CASE text.word = "ct"
    BY <1>3, <2>1, CTKept
  <2>2. CASE text.word \in {"mod_dl_dst", "mod_dl_src"}
    BY <1>3, <2>2, DataLinkActionKept
  <2>3. CASE text.word \in {"mod_nw_dst", "mod_nw_src"}
    BY <1>3, <2>3, NetworkActionKept
  <2>4. CASE text.word \in NumberWords
    BY <1>3, <2>4, NumberActionKept
  <2>5. CASE text.word = "conjunction"
    BY <1>3, <2>5, ConjunctionKept
  <2>6. CASE text.word = "resubmit("
    BY <1>3, <2>6, ResubmitKept
  <2>7. CASE text.word \in {"load", "move", "set_field"}
    BY <1>3, <2>7, ArrowKept
  <2>8. CASE text.word = "learn"
    <3>1. CASE HasLoad(text)
      BY <3>1 DEF ActionKept
    <3>2. CASE ~HasLoad(text)
      BY <1>3, <2>8, <3>2, ActionParser, RejectedIsKept DEF Fail
    <3> QED
      BY <3>1, <3>2
  <2>9. CASE text.word \notin {"ct", "mod_dl_dst", "mod_dl_src", "mod_nw_dst", "mod_nw_src", "conjunction",
                               "resubmit(", "load", "move", "set_field", "learn"} \cup NumberWords
    <3>1. parseAction(text) = Fail
      BY <1>3, <2>9 DEF parseAction, parseWithArguments, NumberWords
    <3> QED
      BY <3>1, RejectedIsKept DEF Fail
  <2> QED
    BY <2>1, <2>2, <2>3, <2>4, <2>5, <2>6, <2>7, <2>8, <2>9
<1> QED
  BY <1>1, <1>2, <1>3 DEF Dumped

-----------------------------------------------------------------------------
(* Lists of actions *)

(* The loop of Parse as a sequence of steps. *)
LEMMA CharsRead ==
    ASSUME NEW chars, Len(chars) \in Nat
    PROVE  \E W : /\ Parse(chars) = AtEOF(W[Len(chars)])
                  /\ W[0] = newActionParser
                  /\ \A i \in 1 .. Len(chars) : W[i] = Read(W[i - 1], chars[i])
<1> DEFINE n == Len(chars)
           Step(r, i) == Read(r, chars[i])
           F(f) == [i \in 0 .. n |-> IF i = 0 THEN newActionParser ELSE Step(f[i - 1], i)]
           Upto(W, m) == /\ W[0] = newActionParser
                         /\ \A i \in 1 .. m : W[i] = Step(W[i - 1], i)
           S == {m \in Nat : \E W : Upto(W, m)}
<1> HIDE DEF Step
<1>1. 0 \in S
  <2>1. Upto([i \in 0 .. 0 |-> newActionParser], 0)
    OBVIOUS
  <2> HIDE DEF Upto
  <2> QED BY <2>1
<1>2. \A m \in Nat : m \in S => m + 1 \in S
  <2> SUFFICES ASSUME NEW m \in Nat, m \in S PROVE \E W : Upto(W, m + 1)
    <3> HIDE DEF Upto
    <3> QED OBVIOUS
  <2>1. PICK W : Upto(W, m)
    <3> HIDE DEF Upto
    <3> QED OBVIOUS
  <2> DEFINE V == [i \in 0 .. m + 1 |-> IF i = m + 1 THEN Step(W[m], i) ELSE W[i]]
  <2>2. /\ \A i \in 0 .. m : V[i] = W[i]
        /\ V[m + 1] = Step(W[m], m + 1)
    OBVIOUS
  <2> HIDE DEF V
  <2>3. ASSUME NEW i \in 1 .. m + 1 PROVE V[i] = Step(V[i - 1], i)
    <3>1. CASE i = m + 1
      <4>1. i - 1 = m /\ V[m] = W[m]
        BY <3>1, <2>2
      <4> QED BY <3>1, <4>1, <2>2
    <3>2. CASE i \in 1 .. m
      <4>1. V[i] = W[i] /\ V[i - 1] = W[i - 1]
        BY <3>2, <2>2
      <4> QED BY <3>2, <4>1, <2>1
    <3> QED BY <3>1, <3>2
  <2>4. V[0] = newActionParser
    BY <2>1, <2>2
  <2> QED BY <2>3, <2>4
<1>3. Nat \subseteq S
  <2> HIDE DEF S
  <2> QED BY <1>1, <1>2, Induction
<1>4. PICK W : Upto(W, n)
  BY <1>3
<1> DEFINE V == [i \in 0 .. n |-> W[i]]
           loop == CHOOSE f : f = F(f)
<1>5. V = F(V)
  <2>1. \A i \in 0 .. n : V[i] = IF i = 0 THEN newActionParser ELSE Step(V[i - 1], i)
    <3> SUFFICES ASSUME NEW i \in 0 .. n PROVE V[i] = IF i = 0 THEN newActionParser ELSE Step(V[i - 1], i)
      OBVIOUS
    <3>1. CASE i = 0
      BY <3>1, <1>4
    <3>2. CASE i \in 1 .. n
      <4>1. i - 1 \in 0 .. n /\ i # 0
        BY <3>2
      <4>2. V[i] = W[i] /\ V[i - 1] = W[i - 1]
        BY <4>1
      <4> QED BY <3>2, <4>1, <4>2, <1>4
    <3> QED BY <3>1, <3>2
  <2>2. V = [i \in 0 .. n |-> V[i]]
    OBVIOUS
  <2> HIDE DEF V
  <2> QED BY <2>1, <2>2
<1>6. loop = F(loop)
  <2> HIDE DEF F, V
  <2> QED BY <1>5, Zenon
<1>7. \A i \in 0 .. n : loop[i] = IF i = 0 THEN newActionParser ELSE Step(loop[i - 1], i)
  <2> HIDE DEF loop
  <2> QED BY <1>6, Zenon
<1>8. Parse(chars) = AtEOF(loop[n])
  BY Zenon DEF Parse, Step
<1> HIDE DEF loop, F
<1>9. loop[0] = newActionParser /\ \A i \in 1 .. n : loop[i] = Step(loop[i - 1], i)
  BY <1>7
<1> QED BY <1>8, <1>9 DEF Step

(* The texts joined again, as a sequence of steps ... *)
LEMMA PiecesJoined ==
    ASSUME NEW pieces, Len(pieces) \in Nat
    PROVE  \E W : /\ Joined(pieces) = W[Len(pieces)]
                  /\ W[0] = <<>>
                  /\ \A i \in 1 .. Len(pieces) : W[i] = W[i - 1] \o pieces[i] \o <<",">>
<1> DEFINE n == Len(pieces)
           Step(r, i) == r \o pieces[i] \o <<",">>
           F(f) == [i \in 0 .. n |-> IF i = 0 THEN <<>> ELSE Step(f[i - 1], i)]
           Upto(W, m) == /\ W[0] = <<>>
                         /\ \A i \in 1 .. m : W[i] = Step(W[i - 1], i)
           S == {m \in Nat : \E W : Upto(W, m)}
<1> HIDE DEF Step
<1>1. 0 \in S
  <2>1. Upto([i \in 0 .. 0 |-> <<>>], 0)
    OBVIOUS
  <2> HIDE DEF Upto
  <2> QED BY <2>1
<1>2. \A m \in Nat : m \in S => m + 1 \in S
  <2> SUFFICES ASSUME NEW m \in Nat, m \in S PROVE \E W : Upto(W, m + 1)
    <3> HIDE DEF Upto
    <3> QED OBVIOUS
  <2>1. PICK W : Upto(W, m)
    <3> HIDE DEF Upto
    <3> QED OBVIOUS
  <2> DEFINE V == [i \in 0 .. m + 1 |-> IF i = m + 1 THEN Step(W[m], i) ELSE W[i]]
  <2>2. /\ \A i \in 0 .. m : V[i] = W[i]
        /\ V[m + 1] = Step(W[m], m + 1)
    OBVIOUS
  <2> HIDE DEF V
  <2>3. ASSUME NEW i \in 1 .. m + 1 PROVE V[i] = Step(V[i - 1], i)
    <3>1. CASE i = m + 1
      <4>1. i - 1 = m /\ V[m] = W[m]
        BY <3>1, <2>2
      <4> QED BY <3>1, <4>1, <2>2
    <3>2. CASE i \in 1 .. m
      <4>1. V[i] = W[i] /\ V[i - 1] = W[i - 1]
        BY <3>2, <2>2
      <4> QED BY <3>2, <4>1, <2>1
    <3> QED BY <3>1, <3>2
  <2>4. V[0] = <<>>
    BY <2>1, <2>2
  <2> QED BY <2>3, <2>4
<1>3. Nat \subseteq S
  <2> HIDE DEF S
  <2> QED BY <1>1, <1>2, Induction
<1>4. PICK W : Upto(W, n)
  BY <1>3
<1> DEFINE V == [i \in 0 .. n |-> W[i]]
           loop == CHOOSE f : f = F(f)
<1>5. V = F(V)
  <2>1. \A i \in 0 .. n : V[i] = IF i = 0 THEN <<>> ELSE Step(V[i - 1], i)
    <3> SUFFICES ASSUME NEW i \in 0 .. n PROVE V[i] = IF i = 0 THEN <<>> ELSE Step(V[i - 1], i)
      OBVIOUS
    <3>1. CASE i = 0
      BY <3>1, <1>4
    <3>2. CASE i \in 1 .. n
      <4>1. i - 1 \in 0 .. n /\ i # 0
        BY <3>2
      <4>2. V[i] = W[i] /\ V[i - 1] = W[i - 1]
        BY <4>1
      <4> QED BY <3>2, <4>1, <4>2, <1>4
    <3> QED BY <3>1, <3>2
  <2>2. V = [i \in 0 .. n |-> V[i]]
    OBVIOUS
  <2> HIDE DEF V
  <2> QED BY <2>1, <2>2
<1>6. loop = F(loop)
  <2> HIDE DEF F, V
  <2> QED BY <1>5, Zenon
<1>7. \A i \in 0 .. n : loop[i] = IF i = 0 THEN <<>> ELSE Step(loop[i - 1], i)
  <2> HIDE DEF loop
  <2> QED BY <1>6, Zenon
<1>8. Joined(pieces) = loop[n]
  BY Zenon DEF Joined, Step
<1> HIDE DEF loop, F
<1>9. loop[0] = <<>> /\ \A i \in 1 .. n : loop[i] = Step(loop[i - 1], i)
  BY <1>7
<1> QED BY <1>8, <1>9 DEF Step

(* ... from none ... *)
LEMMA JoinedEmpty == Joined(<<>>) = <<>>
<1>1. Len(<<>>) = 0
  OBVIOUS
<1>2. PICK W : Joined(<<>>) = W[0] /\ W[0] = <<>>
  BY <1>1, PiecesJoined
<1> QED BY <1>2

(* ... to one more. *)
LEMMA JoinedAppend ==
    ASSUME NEW S, NEW pieces \in Seq(S), NEW x \in S
    PROVE  Joined(Append(pieces, x)) = Joined(pieces) \o x \o <<",">>
<1> DEFINE n == Len(pieces)
           more == Append(pieces, x)
<1>1. n \in Nat /\ Len(more) = n + 1 /\ more[n + 1] = x /\ \A i \in 1 .. n : more[i] = pieces[i]
  OBVIOUS
<1> HIDE DEF more
<1>2. PICK W : Joined(pieces) = W[n] /\ W[0] = <<>> /\ \A i \in 1 .. n : W[i] = W[i - 1] \o pieces[i] \o <<",">>
  BY <1>1, PiecesJoined
<1>3. PICK V : Joined(more) = V[n + 1] /\ V[0] = <<>> /\ \A i \in 1 .. n + 1 : V[i] = V[i - 1] \o more[i] \o <<",">>
  <2>1. PICK V : Joined(more) = V[Len(more)] /\ V[0] = <<>> /\ \A i \in 1 .. Len(more) : V[i] = V[i - 1] \o more[i] \o <<",">>
    <3>1. Len(more) \in Nat
      BY <1>1
    <3> QED BY <3>1, PiecesJoined
  <2>2. Len(more) = n + 1
    BY <1>1
  <2> QED BY <2>1, <2>2
<1> DEFINE T == {i \in Nat : i <= n => V[i] = W[i]}
<1>4. 0 \in T
  BY <1>2, <1>3
<1>5. \A i \in Nat : i \in T => i + 1 \in T
  <2> SUFFICES ASSUME NEW i \in Nat, V[i] = W[i], i + 1 <= n PROVE V[i + 1] = W[i + 1]
    OBVIOUS
  <2>1. i + 1 \in 1 .. n /\ i + 1 \in 1 .. n + 1 /\ (i + 1) - 1 = i
    BY <1>1
  <2>2. V[i + 1] = V[i] \o more[i + 1] \o <<",">>
    BY <1>3, <2>1
  <2>3. W[i + 1] = W[i] \o pieces[i + 1] \o <<",">>
    BY <1>2, <2>1
  <2>4. more[i + 1] = pieces[i + 1]
    BY <1>1, <2>1
  <2> QED BY <2>2, <2>3, <2>4
<1>6. Nat \subseteq T
  <2> HIDE DEF T
  <2> QED BY <1>4, <1>5, Induction
<1>7. V[n] = W[n]
  BY <1>1, <1>6
<1>8. V[n + 1] = V[n] \o x \o <<",">>
  <2>1. n + 1 \in 1 .. n + 1 /\ (n + 1) - 1 = n
    BY <1>1
  <2> QED BY <2>1, <1>1, <1>3
<1> QED BY <1>2, <1>3, <1>7, <1>8 DEF more

(* How often a character is among the first i. *)
Count(cs, i, c) == Cardinality({j \in 1 .. i : cs[j] = c})

(* It is counted character by character, ... *)
LEMMA CountStep ==
    ASSUME NEW cs, NEW i \in Nat, NEW c
    PROVE  /\ Count(cs, i, c) \in Nat /\ Count(cs, 0, c) = 0
           /\ Count(cs, i + 1, c) = Count(cs, i, c) + (IF cs[i + 1] = c THEN 1 ELSE 0)
<1> DEFINE A == {j \in 1 .. i : cs[j] = c}
           B == {j \in 1 .. i + 1 : cs[j] = c}
<1>1. IsFiniteSet(A)
  <2>1. IsFiniteSet(1 .. i) /\ A \subseteq 1 .. i
    BY FS_Interval
  <2> QED BY <2>1, FS_Subset
<1>2. B = IF cs[i + 1] = c THEN A \cup {i + 1} ELSE A
  OBVIOUS
<1>3. i + 1 \notin A
  OBVIOUS
<1>4. Count(cs, i, c) = Cardinality(A) /\ Count(cs, i + 1, c) = Cardinality(B)
  BY DEF Count
<1>5. {j \in 1 .. 0 : cs[j] = c} = {}
  OBVIOUS
<1>6. Count(cs, 0, c) = 0
  BY <1>5, FS_EmptySet DEF Count
<1> HIDE DEF A, B
<1>7. Cardinality(A) \in Nat
  BY <1>1, FS_CardinalityType
<1>8. Cardinality(A \cup {i + 1}) = Cardinality(A) + 1
  BY <1>1, <1>3, FS_AddElement
<1> QED BY <1>2, <1>4, <1>6, <1>7, <1>8

(* ... and so is the depth of the parentheses. *)
LEMMA DepthStep ==
    ASSUME NEW cs, NEW i \in Nat
    PROVE  /\ Depth(cs, 0) = 0 /\ Depth(cs, i) \in Int
           /\ cs[i + 1] = "(" => Depth(cs, i + 1) = Depth(cs, i) + 1
           /\ cs[i + 1] = ")" => Depth(cs, i + 1) = Depth(cs, i) - 1
           /\ cs[i + 1] \notin {"(", ")"} => Depth(cs, i + 1) = Depth(cs, i)
<1>1. \A j : Depth(cs, j) = Count(cs, j, "(") - Count(cs, j, ")")
  BY Zenon DEF Depth, Count
<1>2. /\ Count(cs, i, "(") \in Nat /\ Count(cs, 0, "(") = 0
      /\ Count(cs, i + 1, "(") = Count(cs, i, "(") + (IF cs[i + 1] = "(" THEN 1 ELSE 0)
  BY CountStep
<1>3. /\ Count(cs, i, ")") \in Nat /\ Count(cs, 0, ")") = 0
      /\ Count(cs, i + 1, ")") = Count(cs, i, ")") + (IF cs[i + 1] = ")" THEN 1 ELSE 0)
  BY CountStep
<1> QED BY <1>1, <1>2, <1>3

(* The depth in a part is the depth in the whole, less the depth before    *)
(* the part.                                                               *)
LEMMA DepthOfPart ==
    ASSUME NEW S, NEW cs \in Seq(S), NEW s \in Nat, NEW e \in Nat, s <= e, e <= Len(cs)
    PROVE  /\ Len(SubSeq(cs, s + 1, e)) = e - s
           /\ \A j \in 1 .. e - s : SubSeq(cs, s + 1, e)[j] = cs[s + j]
           /\ \A j \in 0 .. e - s : Depth(SubSeq(cs, s + 1, e), j) = Depth(cs, s + j) - Depth(cs, s)
<1> DEFINE part == SubSeq(cs, s + 1, e)
           T == {j \in Nat : j <= e - s => Depth(part, j) = Depth(cs, s + j) - Depth(cs, s)}
<1>1. Len(part) = e - s /\ \A j \in 1 .. e - s : part[j] = cs[s + j]
  OBVIOUS
<1> HIDE DEF part
<1>2. 0 \in T
  <2>1. Depth(part, 0) = 0 /\ Depth(cs, s) \in Int /\ s + 0 = s
    BY DepthStep
  <2> QED BY <2>1
<1>3. \A j \in Nat : j \in T => j + 1 \in T
  <2> SUFFICES ASSUME NEW j \in Nat, j + 1 <= e - s, Depth(part, j) = Depth(cs, s + j) - Depth(cs, s)
               PROVE  Depth(part, j + 1) = Depth(cs, s + (j + 1)) - Depth(cs, s)
    OBVIOUS
  <2>1. part[j + 1] = cs[(s + j) + 1] /\ s + (j + 1) = (s + j) + 1 /\ s + j \in Nat
    BY <1>1
  <2>2. /\ Depth(part, j) \in Int
        /\ part[j + 1] = "(" => Depth(part, j + 1) = Depth(part, j) + 1
        /\ part[j + 1] = ")" => Depth(part, j + 1) = Depth(part, j) - 1
        /\ part[j + 1] \notin {"(", ")"} => Depth(part, j + 1) = Depth(part, j)
    BY DepthStep
  <2>3. /\ Depth(cs, s + j) \in Int
        /\ cs[(s + j) + 1] = "(" => Depth(cs, (s + j) + 1) = Depth(cs, s + j) + 1
        /\ cs[(s + j) + 1] = ")" => Depth(cs, (s + j) + 1) = Depth(cs, s + j) - 1
        /\ cs[(s + j) + 1] \notin {"(", ")"} => Depth(cs, (s + j) + 1) = Depth(cs, s + j)
    BY <2>1, DepthStep
  <2>4. Depth(cs, s) \in Int
    BY DepthStep
  <2> QED BY <2>1, <2>2, <2>3, <2>4
<1>4. Nat \subseteq T
  <2> HIDE DEF T
  <2> QED BY <1>2, <1>3, Induction
<1> QED BY <1>1, <1>4 DEF part

(* A comma outside parentheses, ... *)
OuterAt(cs, i) == cs[i] = "," /\ Depth(cs, i) = 0

(* ... one with no text before it, ... *)
EmptyAt(cs, i) == OuterAt(cs, i) /\ (i = 1 \/ OuterAt(cs, i - 1))

(* ... and the text of one action. *)
Whole(piece) == piece # <<>> /\ Balanced(piece) /\ \A i \in 1 .. Len(piece) : ~OuterAt(piece, i)

(* After i characters the parser is in the action that begins after s:     *)
(* there a comma outside parentheses was read, and none since; no          *)
(* parenthesis has closed that was not open, and no text was empty.        *)
Cutting(cs, i, s) ==
    /\ s \in 0 .. i /\ Depth(cs, s) = 0 /\ (s = 0 \/ OuterAt(cs, s))
    /\ \A j \in 0 .. i : Depth(cs, j) >= 0
    /\ \A j \in s + 1 .. i : ~OuterAt(cs, j)
    /\ \A j \in 1 .. i : ~EmptyAt(cs, j)

(* The state of the parser then. *)
CutSoFar(cs, i, s, p) ==
    /\ Cutting(cs, i, s)
    /\ p.end = "reading" /\ p.depth = Depth(cs, i) /\ p.buf = SubSeq(cs, s + 1, i)
    /\ Joined(p.pieces) = SubSeq(cs, 1, s)
    /\ \A k \in 1 .. Len(p.pieces) : Whole(p.pieces[k])

(* The states of a parser. *)
Parsers == [depth : Int, buf : Seq(Chars), pieces : Seq(Seq(Chars)), end : {"reading", "ok", "error", "panic"}]

(* The invariant of the loop: the parser is in an action, or has met an    *)
(* empty text, or a parenthesis that closes nothing.                       *)
ReadUpTo(cs, i, p) ==
    /\ p \in Parsers
    /\ \/ \E s \in 0 .. i : CutSoFar(cs, i, s, p)
       \/ p.end = "error" /\ \E j \in 1 .. Len(cs) : EmptyAt(cs, j)
       \/ p.end = "panic" /\ ~Closed(cs)

(* It holds at first. *)
LEMMA CutStarts ==
    ASSUME NEW cs \in Seq(Chars)
    PROVE  ReadUpTo(cs, 0, newActionParser)
<1> DEFINE p == newActionParser
<1>1. p \in Parsers /\ p.end = "reading" /\ p.depth = 0 /\ p.buf = <<>> /\ p.pieces = <<>>
  BY DEF newActionParser, Parsers
<1>2. Depth(cs, 0) = 0
  BY DepthStep
<1>3. Cutting(cs, 0, 0)
  BY <1>2 DEF Cutting
<1>4. SubSeq(cs, 1, 0) = <<>> /\ SubSeq(cs, 0 + 1, 0) = <<>>
  OBVIOUS
<1>5. Len(<<>>) = 0
  OBVIOUS
<1> HIDE DEF p
<1>6. CutSoFar(cs, 0, 0, p)
  <2>1. p.depth = Depth(cs, 0) /\ p.buf = SubSeq(cs, 0 + 1, 0)
    BY <1>1, <1>2, <1>4
  <2>2. Joined(p.pieces) = SubSeq(cs, 1, 0)
    BY <1>1, <1>4, JoinedEmpty
  <2>3. \A k \in 1 .. Len(p.pieces) : Whole(p.pieces[k])
    BY <1>1, <1>5
  <2> QED BY <1>1, <1>3, <2>1, <2>2, <2>3 DEF CutSoFar
<1>7. ReadUpTo(cs, 0, p)
  BY <1>1, <1>6 DEF ReadUpTo
<1> QED BY <1>7 DEF p

(* The text since the last cut is that of one action if no parenthesis is  *)
(* open.                                                                   *)
LEMMA PartIsWhole ==
    ASSUME NEW cs \in Seq(Chars), NEW i \in 0 .. Len(cs), NEW s \in 0 .. i, s < i,
           Cutting(cs, i, s), Depth(cs, i) = 0
    PROVE  Whole(SubSeq(cs, s + 1, i))
<1> DEFINE part == SubSeq(cs, s + 1, i)
<1>1. /\ Len(part) = i - s
      /\ \A j \in 1 .. i - s : part[j] = cs[s + j]
      /\ \A j \in 0 .. i - s : Depth(part, j) = Depth(cs, s + j) - Depth(cs, s)
  BY DepthOfPart
<1>2. Depth(cs, s) = 0
  BY DEF Cutting
<1>3. \A j \in 0 .. i - s : Depth(cs, s + j) \in Int
  BY DepthStep
<1>4. part # <<>>
  OBVIOUS
<1> HIDE DEF part
<1>5. \A j \in 0 .. i - s : Depth(part, j) = Depth(cs, s + j)
  BY <1>1, <1>2, <1>3
<1>6. Closed(part)
  <2>1. \A j \in 1 .. i - s : Depth(cs, s + j) >= 0
    BY DEF Cutting
  <2> QED BY <2>1, <1>1, <1>5 DEF Closed
<1>7. Depth(part, Len(part)) = 0
  <2>1. i - s \in 0 .. i - s /\ s + (i - s) = i
    OBVIOUS
  <2> QED BY <2>1, <1>1, <1>5
<1>8. \A j \in 1 .. Len(part) : ~OuterAt(part, j)
  <2> SUFFICES ASSUME NEW j \in 1 .. i - s PROVE ~OuterAt(part, j)
    BY <1>1
  <2>1. ~OuterAt(cs, s + j)
    <3>1. s + j \in s + 1 .. i
      OBVIOUS
    <3> QED BY <3>1 DEF Cutting
  <2>2. part[j] = cs[s + j]
    BY <1>1
  <2>3. Depth(part, j) = Depth(cs, s + j)
    <3>1. j \in 0 .. i - s
      OBVIOUS
    <3> QED BY <3>1, <1>5
  <2> QED BY <2>1, <2>2, <2>3, Zenon DEF OuterAt
<1> QED BY <1>4, <1>6, <1>7, <1>8 DEF Whole, Balanced, part

(* A character that is no comma outside parentheses ... *)
LEMMA CutGoesOn ==
    ASSUME NEW cs \in Seq(Chars), NEW i \in Nat, i + 1 <= Len(cs), NEW s \in 0 .. i,
           Cutting(cs, i, s), ~OuterAt(cs, i + 1), Depth(cs, i + 1) >= 0
    PROVE  Cutting(cs, i + 1, s)
<1>1. ~EmptyAt(cs, i + 1)
  BY DEF EmptyAt
<1>2. \A j \in 0 .. i + 1 : j \in 0 .. i \/ j = i + 1
  OBVIOUS
<1>3. \A j \in 0 .. i + 1 : Depth(cs, j) >= 0
  BY <1>2 DEF Cutting
<1>4. \A j \in s + 1 .. i + 1 : ~OuterAt(cs, j)
  BY <1>2 DEF Cutting
<1>5. \A j \in 1 .. i + 1 : ~EmptyAt(cs, j)
  BY <1>1, <1>2 DEF Cutting
<1> QED BY <1>3, <1>4, <1>5 DEF Cutting

(* ... and one that is. *)
LEMMA CutEnds ==
    ASSUME NEW cs \in Seq(Chars), NEW i \in Nat, i + 1 <= Len(cs), NEW s \in 0 .. i, s < i,
           Cutting(cs, i, s), OuterAt(cs, i + 1)
    PROVE  Cutting(cs, i + 1, i + 1)
<1>1. ~EmptyAt(cs, i + 1)
  <2>1. ~OuterAt(cs, i)
    BY DEF Cutting
  <2> QED BY <2>1 DEF EmptyAt
<1>2. \A j \in 0 .. i + 1 : j \in 0 .. i \/ j = i + 1
  OBVIOUS
<1>3. Depth(cs, i + 1) = 0
  BY DEF OuterAt
<1>4. \A j \in 0 .. i + 1 : Depth(cs, j) >= 0
  BY <1>2, <1>3 DEF Cutting
<1>5. \A j \in 1 .. i + 1 : ~EmptyAt(cs, j)
  BY <1>1, <1>2 DEF Cutting
<1> QED BY <1>3, <1>4, <1>5 DEF Cutting

(* A part grows by the next character. *)
LEMMA PartGrows ==
    ASSUME NEW S, NEW cs \in Seq(S), NEW i \in Nat, i + 1 <= Len(cs), NEW s \in 0 .. i
    PROVE  SubSeq(cs, s + 1, i + 1) = Append(SubSeq(cs, s + 1, i), cs[i + 1])
<1>1. s + 1 \in 1 .. Len(cs) /\ i + 1 \in s + 1 .. Len(cs) /\ (i + 1) - 1 = i
  OBVIOUS
<1>2. SubSeq(cs, s + 1, i + 1) = SubSeq(cs, s + 1, i) \o <<cs[i + 1]>>
  BY <1>1, SubSeqRecursiveSecond
<1>3. SubSeq(cs, s + 1, i) \in Seq(S) /\ cs[i + 1] \in S
  OBVIOUS
<1>4. \A t \in Seq(S), x \in S : Append(t, x) = t \o <<x>>
  OBVIOUS
<1> QED BY <1>2, <1>3, <1>4

(* Each character keeps the invariant, ... *)
LEMMA CharRead ==
    ASSUME NEW cs \in Seq(Chars), NEW i \in Nat, i + 1 <= Len(cs), NEW p, ReadUpTo(cs, i, p)
    PROVE  ReadUpTo(cs, i + 1, Read(p, cs[i + 1]))
<1> DEFINE ch == cs[i + 1]
           q == Read(p, ch)
<1>1. p \in Parsers /\ ch \in Chars /\ i + 1 \in 1 .. Len(cs)
  BY DEF ReadUpTo
<1>2. CASE p.end # "reading"
  <2>1. q = p
    BY <1>2, Zenon DEF Read
  <2>2. \/ p.end = "error" /\ \E j \in 1 .. Len(cs) : EmptyAt(cs, j)
        \/ p.end = "panic" /\ ~Closed(cs)
    BY <1>2 DEF ReadUpTo, CutSoFar
  <2> HIDE DEF q
  <2> QED BY <2>1, <2>2, <1>1 DEF ReadUpTo, q
<1>3. CASE p.end = "reading"
  <2>1. PICK s \in 0 .. i : CutSoFar(cs, i, s, p)
    BY <1>3 DEF ReadUpTo
  <2>2. /\ Cutting(cs, i, s) /\ p.depth = Depth(cs, i) /\ p.buf = SubSeq(cs, s + 1, i)
        /\ Joined(p.pieces) = SubSeq(cs, 1, s) /\ \A k \in 1 .. Len(p.pieces) : Whole(p.pieces[k])
    BY <2>1 DEF CutSoFar
  <2>3. /\ Depth(cs, i) \in Int
        /\ ch = "(" => Depth(cs, i + 1) = Depth(cs, i) + 1
        /\ ch = ")" => Depth(cs, i + 1) = Depth(cs, i) - 1
        /\ ch \notin {"(", ")"} => Depth(cs, i + 1) = Depth(cs, i)
    BY DepthStep
  <2>4. Depth(cs, i) >= 0
    BY <2>2 DEF Cutting
  <2>5. CASE ch = "," /\ p.depth = 0
    <3>1. OuterAt(cs, i + 1)
      BY <2>2, <2>3, <2>5 DEF OuterAt
    <3>2. q = Piece(p)
      BY <1>3, <2>5, Zenon DEF Read
    <3>3. CASE p.buf = <<>>
      <4>1. q = [p EXCEPT !.end = "error"]
        BY <3>2, <3>3, Zenon DEF Piece
      <4>2. q \in Parsers /\ q.end = "error"
        BY <4>1, <1>1 DEF Parsers
      <4>3. s = i
        BY <2>2, <3>3
      <4>4. EmptyAt(cs, i + 1)
        <5>1. i = 0 \/ OuterAt(cs, i)
          BY <2>2, <4>3 DEF Cutting
        <5> QED BY <5>1, <3>1 DEF EmptyAt
      <4> HIDE DEF q
      <4>5. ReadUpTo(cs, i + 1, q)
        BY <4>2, <4>4, <1>1 DEF ReadUpTo
      <4> QED BY <4>5 DEF q
    <3>4. CASE p.buf # <<>>
      <4>1. q = [p EXCEPT !.buf = <<>>, !.pieces = Append(@, p.buf)]
        <5>1. p.depth \in Int /\ p.depth = 0
          BY <2>5, <1>1 DEF Parsers
        <5>2. ~(p.depth > 0)
          BY <5>1
        <5> QED BY <5>2, <3>2, <3>4, Zenon DEF Piece
      <4>2. /\ p.pieces \in Seq(Seq(Chars)) /\ p.buf \in Seq(Chars)
        BY <1>1 DEF Parsers
      <4>3. <<>> \in Seq(Chars) /\ Append(p.pieces, p.buf) \in Seq(Seq(Chars))
        BY <4>2
      <4>4. q \in Parsers /\ q.end = "reading" /\ q.depth = p.depth /\ q.buf = <<>> /\ q.pieces = Append(p.pieces, p.buf)
        BY <4>1, <4>3, <1>1, <1>3 DEF Parsers
      <4>5. s < i
        BY <2>2, <3>4
      <4>6. Cutting(cs, i + 1, i + 1)
        BY <4>5, <3>1, <2>2, CutEnds
      <4>7. Whole(p.buf)
        <5>1. Depth(cs, i) = 0
          BY <2>2, <2>5
        <5>2. i \in 0 .. Len(cs)
          OBVIOUS
        <5> QED BY <5>1, <5>2, <4>5, <2>2, PartIsWhole
      <4>8. Joined(q.pieces) = SubSeq(cs, 1, i + 1)
        <5>1. Joined(q.pieces) = Joined(p.pieces) \o p.buf \o <<",">>
          BY <4>2, <4>4, JoinedAppend
        <5>2. SubSeq(cs, 1, s) \o SubSeq(cs, s + 1, i) = SubSeq(cs, 1, i)
          <6>1. s \in Nat /\ i \in Nat /\ s <= i /\ i <= Len(cs)
            OBVIOUS
          <6> QED BY <6>1
        <5>3. SubSeq(cs, 1, i) \o <<",">> = SubSeq(cs, 1, i + 1)
          <6>1. SubSeq(cs, 1, i) \in Seq(Chars) /\ SubSeq(cs, 0 + 1, i + 1) = Append(SubSeq(cs, 0 + 1, i), ch)
            BY <1>1, PartGrows
          <6>2. \A t \in Seq(Chars), c \in Chars : Append(t, c) = t \o <<c>>
            OBVIOUS
          <6>3. SubSeq(cs, 1, i + 1) = SubSeq(cs, 1, i) \o <<ch>>
            <7>1. SubSeq(cs, 1, i) \in Seq(Chars) /\ 0 + 1 = 1
              BY <6>1
            <7> QED BY <7>1, <6>1, <6>2, <1>1
          <6>4. ch = ","
            BY <2>5
          <6> QED BY <6>3, <6>4, Zenon
        <5> QED BY <5>1, <5>2, <5>3, <2>2
      <4>9. \A k \in 1 .. Len(q.pieces) : Whole(q.pieces[k])
        <5> DEFINE n == Len(p.pieces)
        <5>1. Len(q.pieces) = n + 1 /\ n \in Nat /\ q.pieces[n + 1] = p.buf /\ \A k \in 1 .. n : q.pieces[k] = p.pieces[k]
          BY <4>2, <4>4
        <5>2. \A k \in 1 .. n + 1 : k = n + 1 \/ k \in 1 .. n
          BY <5>1
        <5> QED BY <5>1, <5>2, <4>7, <2>2
      <4>10. q.buf = SubSeq(cs, (i + 1) + 1, i + 1)
        BY <4>4
      <4>11. q.depth = Depth(cs, i + 1)
        BY <4>4, <2>2, <2>3, <2>5
      <4> HIDE DEF q
      <4>12. CutSoFar(cs, i + 1, i + 1, q)
        BY <4>4, <4>6, <4>8, <4>9, <4>10, <4>11 DEF CutSoFar
      <4>13. i + 1 \in 0 .. i + 1
        OBVIOUS
      <4>14. ReadUpTo(cs, i + 1, q)
        BY <4>4, <4>12, <4>13 DEF ReadUpTo
      <4> QED BY <4>14 DEF q
    <3> QED BY <3>3, <3>4
  <2>6. CASE ch = ")" /\ p.depth = 0
    <3>1. q = [p EXCEPT !.end = "panic"]
      BY <1>3, <2>6 DEF Read
    <3>2. q \in Parsers /\ q.end = "panic"
      BY <3>1, <1>1 DEF Parsers
    <3>3. Depth(cs, i + 1) = -1
      BY <2>2, <2>3, <2>6
    <3>4. ~Closed(cs)
      BY <3>3, <1>1 DEF Closed
    <3> HIDE DEF q
    <3>5. ReadUpTo(cs, i + 1, q)
      BY <3>2, <3>4 DEF ReadUpTo
    <3> QED BY <3>5 DEF q
  <2>7. CASE ~(ch = "," /\ p.depth = 0) /\ ~(ch = ")" /\ p.depth = 0)
    <3> DEFINE d == IF ch = "(" THEN p.depth + 1 ELSE IF ch = ")" THEN p.depth - 1 ELSE p.depth
               b == Append(p.buf, ch)
    <3>1. q = [p EXCEPT !.buf = b, !.depth = d]
      BY <1>3, <2>7, Zenon DEF Read
    <3>2. d = Depth(cs, i + 1) /\ d \in Int
      BY <2>2, <2>3
    <3>3. b = SubSeq(cs, s + 1, i + 1) /\ b \in Seq(Chars)
      <4>1. SubSeq(cs, s + 1, i + 1) = Append(SubSeq(cs, s + 1, i), ch)
        BY PartGrows
      <4>2. p.buf \in Seq(Chars)
        BY <1>1 DEF Parsers
      <4>3. b = SubSeq(cs, s + 1, i + 1)
        BY <4>1, <2>2, Zenon
      <4>4. b \in Seq(Chars)
        BY <4>2, <1>1
      <4> QED BY <4>3, <4>4
    <3> HIDE DEF d, b
    <3>4. q \in Parsers /\ q.end = "reading" /\ q.depth = d /\ q.buf = b /\ q.pieces = p.pieces
      BY <3>1, <3>2, <3>3, <1>1, <1>3 DEF Parsers
    <3>5. ~OuterAt(cs, i + 1) /\ Depth(cs, i + 1) >= 0
      <4>1. Depth(cs, i + 1) >= 0
        <5>1. CASE ch = "("
          BY <5>1, <2>3, <2>4
        <5>2. CASE ch = ")"
          <6>1. Depth(cs, i) # 0
            BY <5>2, <2>2, <2>7, Zenon
          <6> QED BY <6>1, <5>2, <2>3, <2>4
        <5>3. CASE ch \notin {"(", ")"}
          BY <5>3, <2>3, <2>4
        <5> QED BY <5>1, <5>2, <5>3
      <4>2. ASSUME ch = ",", Depth(cs, i + 1) = 0 PROVE FALSE
        <5>1. ch \notin {"(", ")"}
          BY <4>2
        <5> QED BY <5>1, <4>2, <2>2, <2>3, <2>7
      <4> QED BY <4>1, <4>2, Zenon DEF OuterAt
    <3>6. Cutting(cs, i + 1, s)
      BY <3>5, <2>2, CutGoesOn
    <3> HIDE DEF q
    <3>7. CutSoFar(cs, i + 1, s, q)
      BY <3>2, <3>3, <3>4, <3>6, <2>2 DEF CutSoFar
    <3>8. ReadUpTo(cs, i + 1, q)
      BY <3>4, <3>7 DEF ReadUpTo
    <3> QED BY <3>8 DEF q
  <2> QED BY <2>5, <2>6, <2>7
<1> QED BY <1>2, <1>3

(* ... so that it holds at the end of the text. *)
LEMMA AllRead ==
    ASSUME NEW cs \in Seq(Chars)
    PROVE  \E p : ReadUpTo(cs, Len(cs), p) /\ Parse(cs) = AtEOF(p)
<1> DEFINE n == Len(cs)
<1>1. n \in Nat
  OBVIOUS
<1>2. PICK W : /\ Parse(cs) = AtEOF(W[n]) /\ W[0] = newActionParser
               /\ \A i \in 1 .. n : W[i] = Read(W[i - 1], cs[i])
  BY <1>1, CharsRead
<1> DEFINE T == {i \in Nat : i <= n => ReadUpTo(cs, i, W[i])}
<1>3. 0 \in T
  BY <1>2, CutStarts
<1>4. \A i \in Nat : i \in T => i + 1 \in T
  <2> SUFFICES ASSUME NEW i \in Nat, i + 1 <= n, ReadUpTo(cs, i, W[i]) PROVE ReadUpTo(cs, i + 1, W[i + 1])
    OBVIOUS
  <2>1. i + 1 \in 1 .. n /\ (i + 1) - 1 = i
    OBVIOUS
  <2>2. W[i + 1] = Read(W[i], cs[i + 1])
    BY <2>1, <1>2
  <2> QED BY <2>2, CharRead
<1>5. Nat \subseteq T
  <2> HIDE DEF T
  <2> QED BY <1>3, <1>4, Induction
<1> QED BY <1>1, <1>2, <1>5

(* What CutExact asks of a result. *)
CutWell(cs, r) ==
    /\ r.end = "ok" <=> Balanced(cs) /\ \A j \in 1 .. Len(cs) : ~EmptyAt(cs, j)
    /\ r.end = "panic" => ~Closed(cs)
    /\ r.end = "ok" => /\ Joined(r.pieces) \in {cs, cs \o <<",">>}
                       /\ \A k \in 1 .. Len(r.pieces) : Whole(r.pieces[k])

(* (So it is written in CutExact.) *)
LEMMA CutWellIsExact ==
    ASSUME NEW cs, CutWell(cs, Parse(cs))
    PROVE  CutExact(cs)
<1> DEFINE r == Parse(cs)
           outer(s) == \E i \in 1 .. Len(s) : s[i] = "," /\ Depth(s, i) = 0
           empty == \E i \in 1 .. Len(cs) : cs[i] = "," /\ Depth(cs, i) = 0
                       /\ (i = 1 \/ (cs[i - 1] = "," /\ Depth(cs, i - 1) = 0))
<1>1. empty <=> ~ \A j \in 1 .. Len(cs) : ~EmptyAt(cs, j)
  BY DEF EmptyAt, OuterAt
<1>2. \A s : Whole(s) => s # <<>> /\ Balanced(s) /\ ~outer(s)
  BY DEF Whole, OuterAt
<1>3. CutExact(cs) = (/\ r.end = "ok" <=> (Balanced(cs) /\ ~empty)
                      /\ r.end = "panic" => ~Closed(cs)
                      /\ r.end = "ok" =>
                            /\ Joined(r.pieces) \in {cs, cs \o <<",">>}
                            /\ \A i \in 1 .. Len(r.pieces) :
                                  r.pieces[i] # <<>> /\ Balanced(r.pieces[i]) /\ ~outer(r.pieces[i]))
  BY Zenon DEF CutExact
<1> HIDE DEF empty, outer, r
<1>4. CutWell(cs, r)
  BY DEF r
<1> QED BY <1>1, <1>2, <1>3, <1>4, Zenon DEF CutWell

(* The end of the text, with or without a text after the last comma. *)
LEMMA EndRead ==
    ASSUME NEW cs \in Seq(Chars), NEW p, ReadUpTo(cs, Len(cs), p)
    PROVE  CutWell(cs, AtEOF(p))
<1> DEFINE n == Len(cs)
           r == AtEOF(p)
           t == [p EXCEPT !.buf = <<>>, !.pieces = Append(@, p.buf)]
<1>1. p \in Parsers /\ n \in Nat
  BY DEF ReadUpTo
<1>2. CASE p.end # "reading"
  <2>1. r = p
    BY <1>2, Zenon DEF AtEOF
  <2>2. \/ p.end = "error" /\ \E j \in 1 .. Len(cs) : EmptyAt(cs, j)
        \/ p.end = "panic" /\ ~Closed(cs)
    BY <1>2 DEF ReadUpTo, CutSoFar
  <2> HIDE DEF r
  <2>3. CutWell(cs, r)
    BY <2>1, <2>2 DEF CutWell, Balanced
  <2> QED BY <2>3 DEF r
<1>3. CASE p.end = "reading"
  <2>1. PICK s \in 0 .. n : CutSoFar(cs, n, s, p)
    BY <1>3 DEF ReadUpTo
  <2>2. /\ Cutting(cs, n, s) /\ p.depth = Depth(cs, n) /\ p.buf = SubSeq(cs, s + 1, n)
        /\ Joined(p.pieces) = SubSeq(cs, 1, s) /\ \A k \in 1 .. Len(p.pieces) : Whole(p.pieces[k])
    BY <2>1 DEF CutSoFar
  <2>3. /\ Depth(cs, n) \in Int /\ Depth(cs, n) >= 0 /\ Depth(cs, s) = 0 /\ Closed(cs)
        /\ \A j \in 1 .. Len(cs) : ~EmptyAt(cs, j)
    <3>1. Depth(cs, n) \in Int
      BY <1>1, DepthStep
    <3> QED BY <3>1, <2>2, <1>1 DEF Cutting, Closed
  <2>4. CASE p.buf = <<>>
    <3>1. r = [p EXCEPT !.end = "ok"]
      BY <1>3, <2>4, Zenon DEF AtEOF
    <3>2. r.end = "ok" /\ r.pieces = p.pieces
      BY <3>1, <1>1 DEF Parsers
    <3>3. s = n
      BY <2>2, <2>4, <1>1
    <3>4. Balanced(cs)
      BY <2>3, <3>3 DEF Balanced
    <3>5. SubSeq(cs, 1, n) = cs
      OBVIOUS
    <3>6. Joined(r.pieces) \in {cs, cs \o <<",">>}
      BY <3>2, <3>3, <3>5, <2>2
    <3> HIDE DEF r
    <3>7. CutWell(cs, r)
      BY <3>2, <3>4, <3>6, <2>2, <2>3 DEF CutWell
    <3> QED BY <3>7 DEF r
  <2>5. CASE p.buf # <<>> /\ p.depth > 0
    <3>1. Piece(p) = [p EXCEPT !.end = "error"]
      BY <2>5, Zenon DEF Piece
    <3>2. [p EXCEPT !.end = "error"].end = "error"
      BY <1>1 DEF Parsers
    <3>3. r = [p EXCEPT !.end = "error"]
      BY <1>3, <2>5, <3>1, <3>2, Zenon DEF AtEOF
    <3>4. r.end = "error"
      BY <3>2, <3>3
    <3>5. ~Balanced(cs)
      BY <2>2, <2>3, <2>5 DEF Balanced
    <3> HIDE DEF r
    <3>6. CutWell(cs, r)
      BY <3>4, <3>5 DEF CutWell
    <3> QED BY <3>6 DEF r
  <2>6. CASE p.buf # <<>> /\ ~(p.depth > 0)
    <3>1. p.pieces \in Seq(Seq(Chars)) /\ p.buf \in Seq(Chars) /\ <<>> \in Seq(Chars)
      BY <1>1 DEF Parsers
    <3>2. Append(p.pieces, p.buf) \in Seq(Seq(Chars))
      BY <3>1
    <3>3. t \in Parsers /\ t.end = "reading" /\ t.pieces = Append(p.pieces, p.buf)
      BY <3>1, <3>2, <1>1, <1>3 DEF Parsers
    <3>4. Piece(p) = t
      BY <2>6, Zenon DEF Piece
    <3>5. t.end # "error"
      BY <3>3
    <3> HIDE DEF t
    <3>6. r = [t EXCEPT !.end = "ok"]
      BY <1>3, <2>6, <3>4, <3>5, Zenon DEF AtEOF
    <3>7. r.end = "ok" /\ r.pieces = Append(p.pieces, p.buf)
      BY <3>3, <3>6 DEF Parsers
    <3> HIDE DEF r
    <3>8. Depth(cs, n) = 0 /\ Balanced(cs)
      BY <2>2, <2>3, <2>6 DEF Balanced
    <3>9. s < n
      BY <2>2, <2>6, <1>1
    <3>10. Whole(p.buf)
      <4>1. n \in 0 .. Len(cs)
        BY <1>1
      <4> QED BY <4>1, <3>8, <3>9, <2>2, PartIsWhole
    <3>11. Joined(r.pieces) = cs \o <<",">>
      <4>1. Joined(r.pieces) = Joined(p.pieces) \o p.buf \o <<",">>
        BY <3>1, <3>7, JoinedAppend
      <4>2. SubSeq(cs, 1, s) \o SubSeq(cs, s + 1, n) = SubSeq(cs, 1, n)
        <5>1. s \in Nat /\ n \in Nat /\ s <= n /\ n <= Len(cs)
          BY <1>1
        <5>2. 1 \in 1 .. Len(cs) + 1 /\ s \in 1 - 1 .. Len(cs) /\ n \in s .. Len(cs)
          BY <5>1
        <5> QED BY <5>2, ConcatAdjacentSubSeq
      <4>3. SubSeq(cs, 1, n) = cs
        OBVIOUS
      <4> QED BY <4>1, <4>2, <4>3, <2>2
    <3>12. \A k \in 1 .. Len(r.pieces) : Whole(r.pieces[k])
      <4> DEFINE m == Len(p.pieces)
      <4>1. Len(r.pieces) = m + 1 /\ m \in Nat /\ r.pieces[m + 1] = p.buf /\ \A k \in 1 .. m : r.pieces[k] = p.pieces[k]
        BY <3>1, <3>7
      <4>2. \A k \in 1 .. m + 1 : k = m + 1 \/ k \in 1 .. m
        BY <4>1
      <4> QED BY <4>1, <4>2, <3>10, <2>2
    <3>13. CutWell(cs, r)
      BY <3>7, <3>8, <3>11, <3>12, <2>3 DEF CutWell
    <3> QED BY <3>13 DEF r
  <2> QED BY <2>4, <2>5, <2>6
<1> QED BY <1>2, <1>3

(* Parse cuts every text of any length exactly: it succeeds on the texts   *)
(* with matching parentheses and no empty action and on no other, at the   *)
(* commas outside parentheses and at no other, and panics only where a     *)
(* parenthesis closes that is not open (ovs/actionparser.go).              *)
THEOREM ListsAreCut ==
    ASSUME NEW cs \in Seq(Chars)
    PROVE  CutExact(cs)
<1>1. PICK p : ReadUpTo(cs, Len(cs), p) /\ Parse(cs) = AtEOF(p)
  BY AllRead
<1>2. CutWell(cs, Parse(cs))
  BY <1>1, EndRead
<1> QED BY <1>2, CutWellIsExact

-----------------------------------------------------------------------------
(* Flows of the library *)

(* The value of a field that parseField does not skip. *)
Plain(v) == v # <<>> /\ ~Contains(v, Word("="))

(* The text of a match, if it has one, is a field of its own.              *)
PlainText(m) ==
    MarshalMatch(m).ok => \E key, v : MarshalMatch(m) = Ok(Field(key, v)) /\ key # "in_port" /\ Plain(v)

(* A token is no equals sign if it is a number, an address or a flag. *)
LEMMA PlainTokens ==
  /\ \A tok : tok.t \in {"dec", "hex", "mac", "ip4", "ip6"} \/ tok.x \in {1, -1} => tok # Word("=")
  /\ \A n : Dec(n).t = "dec" /\ Hex(n).t = "hex"
<1>1. Word("=").t = "=" /\ Word("=").x = 0
  BY DEF Word, Token
<1>2. \A n : Dec(n).t = "dec" /\ Hex(n).t = "hex"
  BY DEF Dec, Hex, Token
<1> QED
  BY <1>1, <1>2

(* A value of such tokens is plain. *)
LEMMA PlainValue ==
  ASSUME NEW v, Len(v) \in Nat \ {0}, \A i \in 1 .. Len(v) : v[i] # Word("=")
  PROVE  Plain(v)
<1>1. Len(<<>>) = 0
  OBVIOUS
<1>2. v # <<>>
  BY <1>1
<1> QED
  BY <1>2 DEF Plain, Contains

(* So is one of two tokens. *)
LEMMA PlainPair ==
  ASSUME NEW v, Len(v) = 2, v[1] # Word("="), v[2] # Word("=")
  PROVE  Plain(v)
<1>1. ASSUME NEW i \in 1 .. 2 PROVE v[i] # Word("=")
  <2>1. CASE i = 1
    BY <2>1
  <2>2. CASE i = 2
    BY <2>2
  <2> QED BY <2>1, <2>2
<1> QED
  BY <1>1, PlainValue

(* So are one number and two. *)
LEMMA PlainNumbers ==
  \A a, b : Plain(<<Dec(a)>>) /\ Plain(<<Hex(a)>>) /\ Plain(<<Hex(a), Hex(b)>>)
<1> SUFFICES ASSUME NEW a, NEW b PROVE Plain(<<Dec(a)>>) /\ Plain(<<Hex(a)>>) /\ Plain(<<Hex(a), Hex(b)>>)
  OBVIOUS
<1>1. ASSUME NEW t, t # Word("=") PROVE Plain(<<t>>)
  <2>1. PICK v : v = <<t>>
    OBVIOUS
  <2>2. Len(v) = 1 /\ v[1] = t
    BY <2>1
  <2> QED BY <2>1, <2>2, <1>1, PlainValue
<1>2. ASSUME NEW t, t # Word("="), NEW u, u # Word("=") PROVE Plain(<<t, u>>)
  <2>1. PICK v : v = <<t, u>>
    OBVIOUS
  <2>2. Len(v) = 2 /\ v[1] = t /\ v[2] = u
    BY <2>1
  <2> QED BY <2>1, <2>2, <1>2, PlainValue
<1>3. Dec(a) # Word("=") /\ Hex(a) # Word("=") /\ Hex(b) # Word("=")
  BY PlainTokens
<1> QED
  BY <1>1, <1>2, <1>3

(* PlainText of a match that prints one field, given the field. *)
LEMMA PlainTextIs ==
  ASSUME NEW m, NEW key, NEW v, MarshalMatch(m) = Ok(Field(key, v)), key # "in_port", Plain(v)
  PROVE  PlainText(m)
BY DEF PlainText

(* The keys of numbers: only InPortMatch has that of the port of a flow. *)
LEMMA NumberKeys ==
  /\ \A kind \in DOMAIN DecimalKey : kind # "InPortMatch" => DecimalKey[kind] # "in_port"
  /\ \A kind \in DOMAIN PortKey : PortKey[kind] # "in_port"
  /\ \A kind \in DOMAIN MaskedKey : MaskedKey[kind] # "in_port"
<1>1. \A kind \in DOMAIN DecimalKey : kind # "InPortMatch" => DecimalKey[kind] # "in_port"
  BY SMTT(30) DEF DecimalKey, Over, QosKey, TTLKey, ICMPKey, InPortKey, ARPOperationKey, ZoneKey
<1>2. \A kind \in DOMAIN PortKey : PortKey[kind] # "in_port"
  BY DEF PortKey
<1>3. \A kind \in DOMAIN MaskedKey : MaskedKey[kind] # "in_port"
  BY SMTT(30) DEF MaskedKey, Over, TCIKey, MarkKey, MetadataKey, TunnelIDKey
<1> QED
  BY <1>1, <1>2, <1>3

(* The texts of the matches of numbers, *)
LEMMA NumberText ==
  ASSUME NEW m, m.kind # "InPortMatch",
         \/ m.kind \in (DOMAIN NumKinds \cup IntKinds) \cup {"DataLinkVLAN", "DataLinkVLANPCP"}
         \/ m.kind \in DOMAIN MaskKinds
  PROVE  PlainText(m)
<1>1. CASE m.kind \in {"DataLinkType", "DataLinkVLAN", "DataLinkVLANPCP"}
  <2>1. MarshalMatch(m) = MarshalVLAN(m)
    BY <1>1, Printer
  <2>2. MarshalMatch(m).ok => \E key \in {"dl_type", "dl_vlan", "dl_vlan_pcp"} : \E n :
           MarshalMatch(m) = Ok(Field(key, <<Hex(n)>>)) \/ MarshalMatch(m) = Ok(Field(key, <<Dec(n)>>))
    BY <2>1, <1>1 DEF MarshalVLAN, Fail
  <2> QED
    BY <2>2, PlainNumbers DEF PlainText
<1>2. CASE m.kind = "ArpOp"
  <2>1. MarshalMatch(m) = MarshalArpOp(m)
    BY <1>2, Printer
  <2>2. MarshalMatch(m).ok => MarshalMatch(m) = Ok(Field("arp_op", <<Dec(m.a)>>))
    BY <2>1 DEF MarshalArpOp, Fail
  <2> QED
    BY <2>2, PlainNumbers DEF PlainText
<1>3. CASE m.kind = "IPv6Label"
  <2>1. MarshalMatch(m) = MarshalIPv6Label(m)
    BY <1>3, Printer
  <2>2. MarshalMatch(m).ok => MarshalMatch(m) = Ok(Field("ipv6_label", Masked(m.a, m.b)))
    BY <2>1 DEF MarshalIPv6Label, Fail
  <2>3. Plain(Masked(m.a, m.b))
    BY PlainNumbers DEF Masked
  <2> QED
    BY <2>2, <2>3 DEF PlainText
<1>4. CASE m.kind \in DOMAIN DecimalKey
  <2>1. MarshalMatch(m) = Ok(Field(DecimalKey[m.kind], <<Dec(m.a)>>))
    BY <1>4, Printer
  <2> QED
    BY <2>1, <1>4, NumberKeys, PlainNumbers, PlainTextIs
<1>5. CASE m.kind \in DOMAIN PortKey
  <2>1. MarshalMatch(m) = Ok(Field(PortKey[m.kind], portText(m.a, m.b)))
    BY <1>5, Printer
  <2>2. Plain(portText(m.a, m.b))
    BY PlainNumbers DEF portText
  <2> QED
    BY <2>1, <2>2, <1>5, NumberKeys, PlainTextIs
<1>6. CASE m.kind \in DOMAIN MaskedKey
  <2>1. MarshalMatch(m) = Ok(Field(MaskedKey[m.kind], Masked(m.a, m.b)))
    BY <1>6, Printer
  <2>2. Plain(Masked(m.a, m.b))
    BY PlainNumbers DEF Masked
  <2> QED
    BY <2>1, <2>2, <1>6, NumberKeys, PlainTextIs
<1>7. \/ m.kind \in {"DataLinkType", "DataLinkVLAN", "DataLinkVLANPCP"} \/ m.kind = "ArpOp" \/ m.kind = "IPv6Label"
      \/ m.kind \in DOMAIN DecimalKey \/ m.kind \in DOMAIN PortKey \/ m.kind \in DOMAIN MaskedKey
  BY SMTT(60) DEF NumKinds, IntKinds, MaskKinds, Over, Single, DecimalKey, QosKey, TTLKey, ICMPKey, InPortKey,
     ARPOperationKey, ZoneKey, PortKey, MaskedKey, TCIKey, MarkKey, MetadataKey, TunnelIDKey
<1> QED
  BY <1>1, <1>2, <1>3, <1>4, <1>5, <1>6, <1>7

(* of addresses, *)
LEMMA AddressText ==
  ASSUME NEW kind \in AddressKinds, NEW v, IsValue(v)
  PROVE  PlainText(StrMatch(kind, v))
<1> PICK m : m = StrMatch(kind, v)
  OBVIOUS
<1>1. PICK key \in DOMAIN StringMatch, family \in {"ip4", "ip6"} :
            \A x : x.kind = kind => MarshalMatch(x) = matchAddress(key, family, x.s)
  BY AddressPrinter
<1>2. MarshalMatch(m) = matchAddress(key, family, v)
  BY <1>1, StrFields
<1>3. key # "in_port"
  BY DEF StringMatch
<1>4. PICK w : w = IF IsCIDR(v) THEN v ELSE <<Canonical(v[1])>>
  OBVIOUS
<1>5. MarshalMatch(m).ok => /\ MarshalMatch(m) = Ok(Field(key, w))
                            /\ v[1].t = family /\ (IsCIDR(v) \/ Len(v) = 1)
  BY <1>2, <1>4 DEF matchAddress, Fail
<1>6. ASSUME MarshalMatch(m).ok PROVE Plain(w)
  <2>1. CASE IsCIDR(v)
    <3>1. w = v /\ Len(w) = 2 /\ w[1].t = family /\ w[2].t = "dec"
      BY <1>4, <1>5, <1>6, <2>1 DEF IsCIDR
    <3>2. w[1] # Word("=") /\ w[2] # Word("=")
      BY <3>1, PlainTokens
    <3> QED BY <3>1, <3>2, PlainPair
  <2>2. CASE ~IsCIDR(v)
    <3>1. IsToken(v[1])
      BY DEF IsValue
    <3>2. Canonical(v[1]).t = family
      BY <1>5, <1>6, <3>1 DEF Canonical, IsToken, Token
    <3>3. Canonical(v[1]) # Word("=")
      BY <3>2, PlainTokens
    <3>4. Len(w) = 1 /\ w[1] = Canonical(v[1])
      BY <1>4, <2>2
    <3>5. \A i \in 1 .. Len(w) : w[i] # Word("=")
      BY <3>3, <3>4
    <3> QED BY <3>4, <3>5, PlainValue
  <2> QED BY <2>1, <2>2
<1> QED
  BY <1>3, <1>5, <1>6 DEF PlainText

(* of hardware addresses, *)
LEMMA HardwareText ==
  ASSUME NEW m, IsValue(m.s),
         m.kind \in {"DataLinkSource", "DataLinkDestination"} \cup (DOMAIN NDKey \cup DOMAIN ARPHardwareKey)
  PROVE  PlainText(m)
<1>0. Len(m.s) \in Nat \ {0}
  BY DEF IsValue
<1>1. CASE m.kind \in {"DataLinkSource", "DataLinkDestination"}
  <2>1. MarshalMatch(m) = MarshalDataLink(m)
    BY <1>1, Printer
  <2>2. MarshalMatch(m).ok =>
           /\ \A i \in 1 .. Len(m.s) : m.s[i].t = "mac"
           /\ \E key \in {"dl_src", "dl_dst"} : MarshalMatch(m) = Ok(Field(key, m.s))
    BY <2>1 DEF MarshalDataLink, Fail, IsMac
  <2>3. MarshalMatch(m).ok => Plain(m.s)
    BY <2>2, <1>0, PlainTokens, PlainValue
  <2> QED
    BY <2>2, <2>3 DEF PlainText
<1>2. CASE m.kind \in DOMAIN NDKey \cup DOMAIN ARPHardwareKey
  <2>1. PICK key : key # "in_port" /\ MarshalMatch(m) = matchEthernetHardwareAddress(key, m.s)
    <3>1. \A k \in DOMAIN NDKey : NDKey[k] # "in_port"
      BY DEF NDKey
    <3>2. \A k \in DOMAIN ARPHardwareKey : ARPHardwareKey[k] # "in_port"
      BY DEF ARPHardwareKey
    <3> QED BY <1>2, <3>1, <3>2, Printer
  <2>2. MarshalMatch(m).ok => m.s[1].t = "mac" /\ Len(m.s) = 1 /\ MarshalMatch(m) = Ok(Field(key, m.s))
    BY <2>1 DEF matchEthernetHardwareAddress, Fail, IsMac
  <2>3. MarshalMatch(m).ok => Plain(m.s)
    BY <2>2, <1>0, PlainTokens, PlainValue
  <2> QED
    BY <2>1, <2>2, <2>3 DEF PlainText
<1> QED
  BY <1>1, <1>2

(* and of flags. *)
LEMMA FlagsText ==
  ASSUME NEW kind \in {"ConnectionTrackingState", "TCPFlags"}, NEW v, Signed(v)
  PROVE  PlainText(StrMatch(kind, v))
<1> PICK m, key : m = StrMatch(kind, v) /\ key = IF kind = "TCPFlags" THEN "tcp_flags" ELSE "ct_state"
  OBVIOUS
<1>1. m.kind = kind /\ m.s = v
  BY StrFields
<1>2. MarshalMatch(m) = Ok(Field(key, v))
  <2>1. \/ m.kind \in DOMAIN FlagKey /\ FlagKey[m.kind] = key
        \/ m.kind \in DOMAIN TCPFlagKey /\ TCPFlagKey[m.kind] = key
    BY <1>1 DEF FlagKey, TCPFlagKey
  <2> QED
    BY ONLY <1>1, <2>1, Printer
<1>3. Plain(v)
  BY PlainTokens, PlainValue DEF Signed, IsValue
<1> QED
  BY <1>2, <1>3, PlainTextIs

(* A match that a flow can be read back with: one of the constructors that *)
(* is not of Unread, nor InPortMatch, whose text is that of the port of    *)
(* the flow.                                                               *)
LibraryMatch(m) == Constructed(m) /\ IsValue(m.s) /\ m.kind \notin Unread \cup {"InPortMatch"}

(* The text of such a match is a field of its own ... *)
LEMMA LibraryText ==
  ASSUME NEW m, LibraryMatch(m)
  PROVE  PlainText(m)
<1>1. CASE \E kind \in DOMAIN NumKinds : \E n \in 0 .. NumKinds[kind] - 1 : m = NumMatch(kind, n)
  BY <1>1, NumFields, NumberText DEF LibraryMatch
<1>2. CASE \E kind \in IntKinds, n \in -(U64 \div 2) .. MaxInt32 : m = NumMatch(kind, n)
  BY <1>2, NumFields, NumberText DEF LibraryMatch
<1>3. CASE \E kind \in {"DataLinkVLAN", "DataLinkVLANPCP"}, n \in Int : m = NumMatch(kind, n)
  BY <1>3, NumFields, NumberText DEF LibraryMatch
<1>4. CASE \E kind \in DOMAIN MaskKinds : \E a, b \in 0 .. MaskKinds[kind] - 1 : m = MaskMatch(kind, a, b)
  BY <1>4, MaskFields, NumberText DEF LibraryMatch
<1>5. CASE \E kind \in AddressKinds : \E v : IsValue(v) /\ m = StrMatch(kind, v)
  BY <1>5, AddressText
<1>6. CASE \E kind \in {"DataLinkSource", "DataLinkDestination"} \cup DOMAIN NDKey \cup DOMAIN ARPHardwareKey :
              \E v : m = StrMatch(kind, v)
  BY <1>6, StrFields, HardwareText DEF LibraryMatch
<1>7. CASE \E kind \in {"ConnectionTrackingState", "TCPFlags"} : \E v : Signed(v) /\ m = StrMatch(kind, v)
  BY <1>7, FlagsText
<1> QED
  BY <1>1, <1>2, <1>3, <1>4, <1>5, <1>6, <1>7 DEF LibraryMatch, Constructed

(* parseMatch knows no key of the flow itself but in_port. *)
LEMMA FlowKeysUnknown ==
  ASSUME NEW key \in IgnoredKeys \cup (DOMAIN IntKeys \cup DOMAIN UintKeys), key # "in_port", NEW v
  PROVE  parseMatch(key, v) = Skipped
BY DEF parseMatch, IgnoredKeys, IntKeys, UintKeys, MACMatch, IntMatch, PlainIntMatch, PortMatch, StringMatch

(* ... that parseField takes for that match and prints again. *)
LEMMA LibraryTextRead ==
  ASSUME NEW m, LibraryMatch(m), MarshalMatch(m).ok
  PROVE  TextReadable(MarshalMatch(m).v)
<1>1. PICK key, v : MarshalMatch(m) = Ok(Field(key, v)) /\ key # "in_port" /\ Plain(v)
  BY LibraryText DEF PlainText
<1> PICK x : x = Field(key, v)
  OBVIOUS
<1>2. MarshalMatch(m) = Ok(x) /\ MarshalMatch(m).v = x
  BY <1>1, OkFields
<1>3. x.key = key /\ x.val = v /\ x.blank = FALSE
  BY DEF Field
<1>4. PrintedAgain(key, v) = Ok(x)
  BY <1>2, <1>3, MatchIsReadBack DEF MatchReadBack, LibraryMatch
<1>5. parseMatch(key, v).v # NoMatch
  BY <1>4, OkFields, ReadThenPrinted
<1>6. key \notin IgnoredKeys \cup (DOMAIN IntKeys \cup DOMAIN UintKeys)
  BY <1>1, <1>5, FlowKeysUnknown, OkFields DEF Skipped
<1> QED
  BY <1>1, <1>2, <1>3, <1>4, <1>6 DEF TextReadable, Plain

(* The text of an action other than learn holds no flow. *)
LEMMA SimpleText ==
  ASSUME NEW a, LibraryAction(a), a.kind # "Learn", MarshalSimple(a).ok
  PROVE  \E w, args : MarshalSimple(a) = Ok(ActText(w, args))
<1>1. ASSUME a.kind \in TextActions PROVE \E w, args : MarshalSimple(a) = Ok(ActText(w, args))
  BY <1>1, SimplePrinter
<1>2. ASSUME a.kind \in DOMAIN DataLinkWord \cup DOMAIN NetworkWord PROVE \E w, args : MarshalSimple(a) = Ok(ActText(w, args))
  <2>1. CASE a.kind \in DOMAIN DataLinkWord
    <3>1. MarshalSimple(a) = MarshalModDataLink(a)
      BY <2>1, SimplePrinter
    <3> QED BY <3>1 DEF MarshalModDataLink, Fail
  <2>2. CASE a.kind \in DOMAIN NetworkWord
    <3>1. MarshalSimple(a) = MarshalModNetwork(a)
      BY <2>2, SimplePrinter
    <3> QED BY <3>1 DEF MarshalModNetwork, Fail
  <2> QED BY <1>2, <2>1, <2>2
<1>3. ASSUME a.kind \in DOMAIN TransportWord \cup {"Multipath", "SetTunnel"} PROVE \E w, args : MarshalSimple(a) = Ok(ActText(w, args))
  BY <1>3, SimplePrinter DEF MarshalModTransportPort, MarshalMultipath, MarshalSetTunnel
<1>4. ASSUME a.kind \in {"ModVLANVID", "Output", "ResubmitPort"} PROVE \E w, args : MarshalSimple(a) = Ok(ActText(w, args))
  BY <1>4, SimplePrinter DEF MarshalModVLANVID, MarshalOutput, MarshalResubmitPort, Fail
<1>5. ASSUME a.kind \in {"ConnectionTracking", "OutputField", "Conjunction"} PROVE \E w, args : MarshalSimple(a) = Ok(ActText(w, args))
  BY <1>5, SimplePrinter DEF MarshalCT, MarshalOutputField, MarshalConjunction, Fail
<1>6. ASSUME a.kind = "Resubmit" PROVE \E w, args : MarshalSimple(a) = Ok(ActText(w, args))
  <2>1. PICK args : args = [i \in 1 .. 2 |-> IF a.n[i] = 0 THEN Empty ELSE Dec(a.n[i])]
    OBVIOUS
  <2>2. MarshalSimple(a) = IF a.n = <<0, 0>> THEN Fail ELSE Ok(ActText("resubmit(", args))
    BY <1>6, <2>1, SimplePrinter DEF MarshalResubmit
  <2> QED BY <2>2 DEF Fail
<1>7. ASSUME a.kind \in {"Load", "SetField", "Move"} PROVE \E w, args : MarshalSimple(a) = Ok(ActText(w, args))
  BY <1>7, SimplePrinter DEF MarshalLoadSetField, MarshalMove, ArrowWord, Fail
<1>8. \/ a.kind \in TextActions \/ a.kind \in DOMAIN DataLinkWord \cup DOMAIN NetworkWord
      \/ a.kind \in DOMAIN TransportWord \cup {"Multipath", "SetTunnel"} \/ a.kind \in {"ModVLANVID", "Output", "ResubmitPort"}
      \/ a.kind \in {"ConnectionTracking", "OutputField", "Conjunction"} \/ a.kind = "Resubmit"
      \/ a.kind \in {"Load", "SetField", "Move"}
  <2>1. ASSUME NEW k, NEW n, NEW s, a = Action(k, n, s) PROVE a.kind = k
    BY <2>1, ActionFields
  <2> QED BY <2>1 DEF LibraryAction
<1> QED
  BY <1>1, <1>2, <1>3, <1>4, <1>5, <1>6, <1>7, <1>8

(* The actions for which the parser has no rule are rejected. *)
LEMMA NoRule ==
  ASSUME NEW a, LibraryAction(a), a.kind \in Unparsed, MarshalSimple(a).ok
  PROVE  ~parseAction(MarshalSimple(a).v).ok
<1>1. CASE a.kind = "OutputField"
  <2>1. PICK s : (s = Empty \/ s.t \notin {"dec", "hex"}) /\ a = Action("OutputField", <<>>, <<s>>)
    <3>1. ASSUME NEW k, NEW n, NEW s, a = Action(k, n, s) PROVE k = "OutputField"
      BY <3>1, <1>1, ActionFields
    <3> QED BY <1>1, <3>1 DEF LibraryAction, TextActions, DataLinkWord, NetworkWord, TransportWord
  <2> PICK t : t = ActText("output", <<s>>)
    OBVIOUS
  <2>2. a.s = <<s>> /\ a.s[1] = s
    BY <2>1, ActionFields
  <2>3. MarshalSimple(a) = Ok(t) /\ s # Empty
    BY <1>1, <2>2, SimplePrinter DEF MarshalOutputField, Fail
  <2>4. t.word = "output" /\ t.args[1] = s /\ ~t.up
    BY ActTextFields
  <2>5. ~ScanInt(s).ok
    BY <2>1, <2>3 DEF ScanInt, Atoi, Fail
  <2>6. parseAction(t) = parseNumber("Output", t)
    BY <2>4, ActionParser
  <2>7. MarshalSimple(a).v = t
    BY <2>3, OkFields
  <2> QED
    BY <2>4, <2>5, <2>6, <2>7 DEF parseNumber, Then, Fail
<1>2. CASE a.kind \in {"all", "SetTunnel", "Multipath"}
  <2>1. PICK w : w \in {"all", "multipath", "set_tunnel"} /\ \E args : MarshalSimple(a) = Ok(ActText(w, args))
    BY <1>2, SimplePrinter DEF MarshalSetTunnel, MarshalMultipath, TextActions
  <2> PICK args : MarshalSimple(a) = Ok(ActText(w, args))
    BY <2>1
  <2>2. MarshalSimple(a).v = ActText(w, args)
    BY OkFields
  <2>3. parseAction(ActText(w, args)) = Fail
    BY <2>1, ActTextFields, ActionParser
  <2> QED
    BY <2>2, <2>3 DEF Fail
<1> QED
  BY <1>1, <1>2 DEF Unparsed

(* An action of the library that, if it is learn, learns no load. *)
Loads(a) == \E i \in DOMAIN a.sub[1].Actions : a.sub[1].Actions[i].kind = "Load"
LibraryActionRead(a) == LibraryAction(a) /\ (a.kind = "Learn" /\ a.sub # <<>> => ~Loads(a))

(* The text of learn then holds no load. *)
LEMMA LearnText ==
  ASSUME NEW a, a.kind = "Learn", a.sub # <<>> => ~Loads(a), MarshalAction(a).ok
  PROVE  ~HasLoad(MarshalAction(a).v) /\ ~parseAction(MarshalAction(a).v).ok
<1>1. MarshalAction(a) = MarshalLearn(a)
  BY DEF MarshalAction
<1>2. PICK f, r : f = a.sub[1] /\ r = MarshalLearnedFlow(f)
  OBVIOUS
<1>3. MarshalLearn(a) = IF a.sub = <<>> THEN Fail
                        ELSE IF r.ok THEN Ok([ActText("learn", <<>>) EXCEPT !.inner = <<r.v>>]) ELSE Fail
  BY <1>2 DEF MarshalLearn, Then
<1>4. PICK t : t = MarshalAction(a).v
  OBVIOUS
<1>5. t = [ActText("learn", <<>>) EXCEPT !.inner = <<r.v>>] /\ r.ok /\ a.sub # <<>>
  BY <1>1, <1>3, <1>4, OkFields DEF Fail
<1>6. t.word = "learn" /\ ~t.up /\ t.inner = <<r.v>>
  BY <1>5 DEF ActText
<1> DEFINE printed == [i \in DOMAIN f.Actions |-> MarshalSimple(f.Actions[i])]
           acts == marshalFunctions(printed)
           mm == marshalMatches(f.Matches)
           odd == \/ f.Actions = <<>>
                  \/ \E i \in DOMAIN f.Actions : f.Actions[i].kind \notin {"Load", "OutputField"}
<1>7. r = IF odd THEN Fail
          ELSE IF acts.ok
               THEN IF mm.ok THEN Ok([fields |-> LearnedFields(f, mm.v), actions |-> acts.v]) ELSE Fail
               ELSE Fail
  BY <1>2, Zenon DEF MarshalLearnedFlow, Then
<1>8. ~odd /\ acts.ok /\ r = Ok([fields |-> LearnedFields(f, mm.v), actions |-> acts.v])
  <2> HIDE DEF acts, mm, odd
  <2>1. r # Fail
    BY <1>5 DEF Fail
  <2> QED BY <1>7, <2>1, Zenon
<1>9. r.v.actions = acts.v
  <2> HIDE DEF acts, mm, odd
  <2>1. r.v = [fields |-> LearnedFields(f, mm.v), actions |-> acts.v]
    BY <1>8, OkFields
  <2> QED BY <2>1
<1>10. acts.v = [i \in DOMAIN printed |-> printed[i].v] /\ \A i \in DOMAIN printed : printed[i].ok
  <2> HIDE DEF printed
  <2> QED BY <1>8, FunctionsMarshalled
<1>11. \A i \in DOMAIN acts.v : acts.v[i].word = "output"
  <2> SUFFICES ASSUME NEW i \in DOMAIN acts.v PROVE acts.v[i].word = "output"
    OBVIOUS
  <2>1. i \in DOMAIN f.Actions /\ acts.v[i] = printed[i].v /\ printed[i].ok /\ printed[i] = MarshalSimple(f.Actions[i])
    <3> HIDE DEF acts
    <3> QED BY <1>10
  <2>2. f.Actions[i].kind = "OutputField"
    BY <2>1, <1>2, <1>5, <1>8 DEF Loads
  <2> HIDE DEF acts, printed
  <2>3. printed[i] = Ok(ActText("output", f.Actions[i].s))
    BY <2>1, <2>2, SimplePrinter DEF MarshalOutputField, Fail
  <2> QED BY <2>1, <2>3, OkFields, ActTextFields
<1> HIDE DEF acts
<1>12. ~HasLoad(t)
  <2>1. \A i \in DOMAIN t.inner : t.inner[i] = r.v
    BY <1>6
  <2> QED BY <2>1, <1>9, <1>11 DEF HasLoad
<1>13. parseAction(t) = Fail
  BY <1>6, <1>12, ActionParser
<1> QED
  BY <1>4, <1>12, <1>13 DEF Fail

(* The text of such an action is read as that action, or is an error. *)
LEMMA LibraryActionText ==
  ASSUME NEW a, LibraryActionRead(a), MarshalAction(a).ok
  PROVE  ActionReadable(MarshalAction(a).v)
<1> PICK x : x = MarshalAction(a).v
  OBVIOUS
<1>1. CASE a.kind = "Learn"
  BY <1>1, LearnText DEF LibraryActionRead, ActionReadable
<1>2. CASE a.kind # "Learn"
  <2>1. MarshalAction(a) = MarshalSimple(a) /\ LibraryAction(a)
    BY <1>2 DEF MarshalAction, LibraryActionRead
  <2>2. PICK w, args : MarshalAction(a) = Ok(ActText(w, args))
    BY <1>2, <2>1, SimpleText
  <2>3. MarshalAction(a) = Ok(x) /\ ~HasLoad(x)
    BY <2>2, OkFields, ActTextFields
  <2>4. CASE a.kind \in Unparsed
    BY <2>1, <2>4, NoRule DEF ActionReadable
  <2>5. CASE a.kind \notin Unparsed
    <3>1. Then(parseAction(x), MarshalAction) = Ok(x)
      BY <1>2, <2>1, <2>3, <2>5, ActionIsReadBack DEF ActionReadBack
    <3> PICK r : r = parseAction(x)
      OBVIOUS
    <3>2. r.ok => Then(r, MarshalAction) = MarshalAction(r.v)
      BY DEF Then
    <3> QED BY <3>1, <3>2 DEF ActionReadable
  <2> QED BY <2>4, <2>5
<1> QED
  BY <1>1, <1>2

(* The flows that are read back: the protocol is a word that is no key     *)
(* with which a switch prints the flow itself, and the matches and actions *)
(* are as above.                                                           *)
LibraryFlow(f) ==
    /\ f.Protocol = Word(f.Protocol.t) /\ f.Protocol.t \notin OwnKeysOfLine
    /\ \A i \in DOMAIN f.Matches : LibraryMatch(f.Matches[i])
    /\ \A i \in DOMAIN f.Actions : LibraryActionRead(f.Actions[i])

(* Every such flow survives being printed, dumped by the switch and        *)
(* parsed: if UnmarshalText returns no error, the flow prints the text it  *)
(* was added with.  If it is of one table, its fields are its own          *)
(* (ovs/flow.go, ovs/match.go, ovs/action.go and their parsers).           *)
THEOREM LibraryFlowIsReadBack ==
  ASSUME NEW f, LibraryFlow(f), f.Actions \in Seq(Range(f.Actions)), f.Matches \in Seq(Range(f.Matches))
  PROVE  FlowReadBack(f) /\ (f.Table # AnyTable => OwnFields(f))
<1>1. \A i \in DOMAIN f.Matches : MarshalMatch(f.Matches[i]).ok => TextReadable(MarshalMatch(f.Matches[i]).v)
  BY LibraryTextRead DEF LibraryFlow
<1>2. \A i \in DOMAIN f.Actions : MarshalAction(f.Actions[i]).ok => ActionReadable(MarshalAction(f.Actions[i]).v)
  BY LibraryActionText DEF LibraryFlow
<1>3. FlowReadable(f)
  BY <1>1, <1>2 DEF FlowReadable, LibraryFlow
<1>4. FlowReadBack(f)
  BY <1>3, FlowIsReadBack
<1>5. \A i \in DOMAIN f.Matches :
         MarshalMatch(f.Matches[i]).ok => MarshalMatch(f.Matches[i]).v.key \notin OwnKeysOfLine
  BY <1>1, TextIsRead
<1>6. f.Table # AnyTable => OwnFields(f)
  BY <1>5 DEF OwnFields, OwnKeysOfLine, LibraryFlow
<1> QED
  BY <1>4, <1>6
=============================================================================
