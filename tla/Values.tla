------------------------------- MODULE Values -------------------------------
(***************************************************************************)
(* The values that occur in the text of flows, and what strconv and net    *)
(* make of them.                                                           *)
(*                                                                         *)
(* A value is the sequence of its parts between slashes ("0x1/0xf", a      *)
(* CIDR block, a masked hardware address): there is at least one, if only  *)
(* the empty string.  A part is a token: a number with its notation, an    *)
(* address with its spelling, or a word.  Digits and letters are           *)
(* abstracted away; the notation is kept, for the parsers choose by it.    *)
(***************************************************************************)
EXTENDS Integers, Sequences

CONSTANTS
    U8, U12, U16, U20, U32, U64  \* 2^8, 2^12, ...: one more than the largest
                                 \* number of that many bits

ASSUME WidthAssumption ==
    /\ U8 \in Nat /\ U12 \in Nat /\ U16 \in Nat
    /\ U20 \in Nat /\ U32 \in Nat /\ U64 \in Nat
    /\ 7 < U8 /\ U8 < U12 /\ U12 < U16 /\ U16 < U20 /\ U20 < U32 /\ 2 * U32 <= U64

Token(t, n, x) == [t |-> t, n |-> n, x |-> x]

Dec(n) == Token("dec", n, 0)       \* printed with %d
Hex(n) == Token("hex", n, 0)       \* printed with %#x or 0x%04x
Word(w) == Token(w, 0, 0)          \* anything that is no number or address
NoWord == ""
Empty == Word(NoWord)
Mac(id, octets) == Token("mac", id, octets)
(* An address as net.IP prints it (x = 0), or in another spelling (x = 1): *)
(* for IPv4 that is the mapped form ::ffff:a.b.c.d.                        *)
IP4(id, x) == Token("ip4", id, x)
IP6(id, x) == Token("ip6", id, x)
(* A flag of a set of flags: after a plus (1) or a minus (-1), after a bar *)
(* (2), or after nothing (0).                                              *)
Flag(id, sign) == Token("flag", id, sign)

Ok(v) == [ok |-> TRUE, v |-> v]
Fail == [ok |-> FALSE]

(* What follows a call that returns a value and an error: the error is     *)
(* returned, or f goes on with the value.                                  *)
Then(r, f(_)) == IF r.ok THEN f(r.v) ELSE Fail

-----------------------------------------------------------------------------
(* strconv and net                                                         *)

Atoi(tok) ==
    IF tok.t = "dec" /\ -(U64 \div 2) <= tok.n /\ tok.n < U64 \div 2
    THEN Ok(tok.n) ELSE Fail

(* The number that the decimal digits of n make when read as hexadecimal. *)
AsHex[n \in Nat] == IF n < 10 THEN n ELSE 16 * AsHex[n \div 10] + (n % 10)

(* ParseUint in base 16, after TrimPrefix of 0x, of a number below u. *)
ParseHex(tok, u) ==
    LET n == IF tok.t = "hex" THEN tok.n ELSE AsHex[tok.n]
    IN  IF /\ tok.t \in {"dec", "hex"} /\ tok.n >= 0
           /\ n < u
        THEN Ok(n) ELSE Fail

(* ParseUint in base 0, of a number of 64 bits. *)
ParseUint(tok) ==
    IF tok.t \in {"dec", "hex"} /\ 0 <= tok.n /\ tok.n < U64
    THEN Ok(tok.n) ELSE Fail

IsIP(tok) == tok.t \in {"ip4", "ip6"}

(* ParseCIDR: an address and the length of a prefix. *)
IsCIDR(v) ==
    /\ Len(v) = 2 /\ IsIP(v[1]) /\ v[2].t = "dec"
    /\ 0 <= v[2].n
    /\ v[2].n <= IF v[1].t = "ip4" /\ v[1].x = 0 THEN 32 ELSE 128

(* IP.String, and the conversion by To4 of a mapped address. *)
Canonical(tok) == [tok EXCEPT !.x = 0]
=============================================================================
