----------------------------- MODULE PortRange -----------------------------
(***************************************************************************)
(* A range of transport ports as a list of ports with masks                *)
(* (ovs/portrange.go; MaskedPorts of ovs/match.go).  Ports are numbers of  *)
(* PortBits bits; the arithmetic is that of their type.                    *)
(***************************************************************************)
EXTENDS Matches, FiniteSetsExt

CONSTANT PortBits   \* 16

(* The powers of two: 1 << b. *)
Pow2[b \in Nat] == IF b = 0 THEN 1 ELSE 2 * Pow2[b - 1]

ASSUME PortBitsAssumption == PortBits \in Nat \ {0} /\ U16 = Pow2[PortBits]

Ports == 0 .. U16 - 1

BitRange(value, mask) == [value |-> value, mask |-> mask]

(* All ones but the lowest bits. *)
getMask(bitLength) == (U16 - 1) - (Pow2[bitLength] - 1)

(* Mutant of getRange: the range ends one too early. *)
getRangeShort(end, bitLength) ==
    LET start == end - (end % Pow2[bitLength])
    IN  [start |-> start, end |-> IF bitLength = 0 THEN start ELSE (start + Pow2[bitLength] - 2) % U16]

getRange(end, bitLength) ==
    LET start == end - (end % Pow2[bitLength])
    IN  [start |-> start, end |-> (start + Pow2[bitLength] - 1) % U16]

Log2(n) == Max({b \in 0 .. PortBits : Pow2[b] <= n})

(* The longest block that ends on a boundary within the range. *)
blockLength(start, end) ==
    LET window == (end - start + 1) % U16
    IN  Max({b \in 0 .. Log2(window) : getRange(end, b).end <= end})

(* That block, after what remains on its left and before what remains on   *)
(* its right.                                                              *)
BitwiseMatch[r \in Ports \X Ports] ==
    LET start  == r[1]
        end    == r[2]
        length == blockLength(start, end)
        block  == getRange(end, length)
        left   == IF start = block.start THEN Ok(<<>>)
                  ELSE BitwiseMatch[<<start, block.start - 1>>]
        right  == IF end = block.end THEN Ok(<<>>) ELSE BitwiseMatch[<<block.end + 1, end>>]
    IN  IF start = 0 \/ end = 0 \/ start > end THEN Fail
        ELSE IF start = end THEN Ok(<<BitRange(start, U16 - 1)>>)
        ELSE IF ~left.ok \/ ~right.ok THEN Fail
        ELSE Ok(left.v \o <<BitRange(block.start, getMask(length))>> \o right.v)

(* MaskedPorts of a range of TransportSource, ... ports: its matches. *)
MaskedPorts(kind, start, end) ==
    LET ranges == BitwiseMatch[<<start, end>>]
    IN  IF ~ranges.ok THEN Fail
        ELSE Ok([i \in DOMAIN ranges.v |-> MaskMatch(kind, ranges.v[i].value, ranges.v[i].mask)])

-----------------------------------------------------------------------------
(* Properties                                                              *)

(* The ports that the text of a port match selects: all that agree with it *)
(* in the bits of the mask, or the one port if no mask is printed.         *)
Selected(val) ==
    IF Len(val) = 1 THEN {val[1].n}
    ELSE LET block == U16 - val[2].n IN {p \in Ports : p \div block = val[1].n \div block}

(* The matches of a range, once printed, select each of its ports exactly  *)
(* once and no other port, in ascending order; there are at most twice as  *)
(* many as a port has bits.  An error is returned only for an empty range  *)
(* or one with port zero.                                                  *)
RangeExact(kind, start, end) ==
    LET r       == MaskedPorts(kind, start, end)
        text(i) == MarshalMatch(r.v[i]).v
        sel(i)  == Selected(text(i).val)
    IN  IF ~r.ok THEN start = 0 \/ start > end
        ELSE /\ UNION {sel(i) : i \in DOMAIN r.v} = start .. end
             /\ \A i \in DOMAIN r.v : text(i).key = PortKey[kind]
             /\ \A i, j \in DOMAIN r.v : i < j => \A p \in sel(i), q \in sel(j) : p < q
             /\ Len(r.v) <= 2 * PortBits
=============================================================================
