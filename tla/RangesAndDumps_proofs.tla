------------------------ MODULE RangesAndDumps_proofs ------------------------
(***************************************************************************)
(* Proofs about PortRange, for ports of any number of bits, and about      *)
(* Dumps, for any number of ports, tables and words.                       *)
(*                                                                         *)
(* BitwiseMatch cuts a range into blocks that follow each other, of which  *)
(* there are at most twice as many as a port has bits.                     *)
(*                                                                         *)
(* What DumpPorts and DumpTables return is what was printed, or there is   *)
(* an error.  As long as every part has the same number of lines, the i-th *)
(* group of parseEach is the i-th part (PartsInPlace).  Ports of OpenFlow  *)
(* 1.x with and without custom statistics together are read in groups of   *)
(* five; the first port without shifts the groups, so that the next one    *)
(* begins with the duration of a port, and what is left cannot be cut into *)
(* fives (MixedPortsRead).                                                 *)
(***************************************************************************)
EXTENDS PortRange, Dumps, Services_proofs, SequenceTheorems

-----------------------------------------------------------------------------
(* Powers of two and their multiples *)

Multiple(a, d) == \E q \in Nat : a = q * d

(* The recursion of Pow2: what 1 << b is. *)
LEMMA Powers ==
  /\ Pow2[0] = 1
  /\ \A b \in Nat : Pow2[b] \in Nat \ {0} /\ Pow2[b + 1] = 2 * Pow2[b]
<1> DEFINE Upto(W, m) == W[0] = 1 /\ \A b \in 0 .. m - 1 : W[b + 1] = 2 * W[b]
           S == {m \in Nat : \E W : Upto(W, m)}
<1>1. 0 \in S
  <2>1. Upto([b \in {0} |-> 1], 0)
    OBVIOUS
  <2> HIDE DEF Upto
  <2> QED BY <2>1
<1>2. \A m \in Nat : m \in S => m + 1 \in S
  <2> SUFFICES ASSUME NEW m \in Nat, NEW W, Upto(W, m) PROVE \E V : Upto(V, m + 1)
    <3> HIDE DEF Upto
    <3> QED OBVIOUS
  <2> DEFINE V == [b \in 0 .. m + 1 |-> IF b = m + 1 THEN 2 * W[m] ELSE W[b]]
  <2>1. (\A b \in 0 .. m : V[b] = W[b]) /\ V[m + 1] = 2 * W[m]
    OBVIOUS
  <2> HIDE DEF V
  <2>2. Upto(V, m + 1)
    BY <2>1
  <2> QED BY <2>2
<1>3. Nat \subseteq S
  <2> HIDE DEF S
  <2> QED BY <1>1, <1>2, Induction
<1>4. PICK W : \A m \in Nat : Upto(W[m], m)
  <2>1. \A m \in Nat : \E W : Upto(W, m)
    BY <1>3
  <2> HIDE DEF Upto
  <2>2. \A m \in Nat : Upto([n \in Nat |-> CHOOSE W : Upto(W, n)][m], m)
    BY <2>1
  <2> QED BY <2>2
<1>5. \A b \in Nat : \A m, n \in Nat : b <= m /\ b <= n => W[m][b] = W[n][b]
  <2> DEFINE T == {b \in Nat : \A m, n \in Nat : b <= m /\ b <= n => W[m][b] = W[n][b]}
  <2>1. 0 \in T
    BY <1>4
  <2>2. \A b \in Nat : b \in T => b + 1 \in T
    <3> SUFFICES ASSUME NEW b \in Nat, b \in T, NEW m \in Nat, NEW n \in Nat, b + 1 <= m, b + 1 <= n
                 PROVE W[m][b + 1] = W[n][b + 1]
      OBVIOUS
    <3>1. W[m][b] = W[n][b]
      OBVIOUS
    <3>2. b \in 0 .. m - 1 /\ b \in 0 .. n - 1
      OBVIOUS
    <3>3. W[m][b + 1] = 2 * W[m][b] /\ W[n][b + 1] = 2 * W[n][b]
      BY <1>4, <3>2
    <3> QED BY <3>1, <3>3
  <2>3. Nat \subseteq T
    <3> HIDE DEF T
    <3> QED BY <2>1, <2>2, Induction
  <2> QED BY <2>3
<1> DEFINE V == [b \in Nat |-> W[b][b]]
<1>6. V = [b \in Nat |-> IF b = 0 THEN 1 ELSE 2 * V[b - 1]]
  <2> SUFFICES ASSUME NEW b \in Nat PROVE V[b] = IF b = 0 THEN 1 ELSE 2 * V[b - 1]
    OBVIOUS
  <2>1. CASE b = 0
    BY <2>1, <1>4
  <2>2. CASE b # 0
    <3>1. b - 1 \in Nat /\ b - 1 \in 0 .. b - 1 /\ (b - 1) + 1 = b
      BY <2>2
    <3>2. W[b][b] = 2 * W[b][b - 1]
      BY <3>1, <1>4
    <3>3. W[b][b - 1] = W[b - 1][b - 1]
      BY <3>1, <1>5
    <3> QED BY <2>2, <3>1, <3>2, <3>3
  <2> QED BY <2>1, <2>2
<1>7. Pow2 = [b \in Nat |-> IF b = 0 THEN 1 ELSE 2 * Pow2[b - 1]]
  <2> HIDE DEF V
  <2> QED BY <1>6 DEF Pow2
<1>8. Pow2[0] = 1 /\ \A b \in Nat : Pow2[b + 1] = 2 * Pow2[b]
  BY <1>7
<1> DEFINE T == {b \in Nat : Pow2[b] \in Nat \ {0}}
<1>9. Nat \subseteq T
  <2>1. 0 \in T /\ \A b \in Nat : b \in T => b + 1 \in T
    BY <1>8
  <2> HIDE DEF T
  <2> QED BY <2>1, Induction
<1> QED
  BY <1>8, <1>9

(* A greater power is greater, and a multiple. *)
LEMMA PowersGrow ==
  ASSUME NEW b \in Nat, NEW c \in Nat, b < c
  PROVE  2 * Pow2[b] <= Pow2[c] /\ Pow2[b] < Pow2[c] /\ Multiple(Pow2[c], 2 * Pow2[b])
<1> DEFINE S == {d \in Nat : \E q \in Nat \ {0} : Pow2[b + d + 1] = q * (2 * Pow2[b])}
<1> PICK p : p = Pow2[b]
  OBVIOUS
<1>0. p \in Nat \ {0}
  BY Powers
<1>1. 0 \in S
  <2>1. Pow2[b + 0 + 1] = 1 * (2 * p)
    BY Powers
  <2> QED BY <2>1
<1>2. \A d \in Nat : d \in S => d + 1 \in S
  <2> SUFFICES ASSUME NEW d \in Nat, NEW q \in Nat \ {0}, Pow2[b + d + 1] = q * (2 * p)
               PROVE \E r \in Nat \ {0} : Pow2[b + (d + 1) + 1] = r * (2 * p)
    OBVIOUS
  <2>1. Pow2[b + (d + 1) + 1] = 2 * Pow2[b + d + 1]
    <3>1. b + d + 1 \in Nat /\ b + (d + 1) + 1 = (b + d + 1) + 1
      OBVIOUS
    <3> QED BY <3>1, Powers
  <2>2. 2 * (q * (2 * p)) = (2 * q) * (2 * p)
    BY <1>0
  <2> QED BY <2>1, <2>2
<1>3. Nat \subseteq S
  <2> HIDE DEF S
  <2> QED BY <1>1, <1>2, Induction
<1>4. PICK q \in Nat \ {0} : Pow2[c] = q * (2 * p)
  <2>1. c - b - 1 \in Nat /\ b + (c - b - 1) + 1 = c
    OBVIOUS
  <2> QED BY <2>1, <1>3
<1>5. q * (2 * p) >= 2 * p
  <2>1. q * (2 * p) = (q - 1) * (2 * p) + 2 * p
    BY <1>0
  <2>2. (q - 1) * (2 * p) >= 0
    BY <1>0
  <2> QED BY <2>1, <2>2, <1>0
<1> QED
  BY <1>0, <1>4, <1>5 DEF Multiple

(* A multiple of a multiple is one. *)
LEMMA Multiples ==
  ASSUME NEW a \in Nat, NEW b \in Nat, NEW c \in Nat, Multiple(a, b), Multiple(b, c)
  PROVE  Multiple(a, c)
<1>1. PICK q \in Nat : a = q * b
  BY DEF Multiple
<1>2. PICK r \in Nat : b = r * c
  BY DEF Multiple
<1>3. a = (q * r) * c /\ q * r \in Nat
  BY <1>1, <1>2
<1> QED BY <1>3 DEF Multiple

(* The multiple before a multiple is one. *)
LEMMA MultipleBefore ==
  ASSUME NEW a \in Nat \ {0}, NEW p \in Nat \ {0}, Multiple(a, p)
  PROVE  Multiple(a - p, p)
<1>1. PICK q \in Nat : a = q * p
  BY DEF Multiple
<1>2. q # 0
  BY <1>1
<1>3. (q - 1) * p = q * p - p /\ q - 1 \in Nat
  BY <1>2
<1> QED BY <1>1, <1>3 DEF Multiple

(* A set of numbers up to a bound has a greatest one. *)
LEMMA Greatest ==
  ASSUME NEW n \in Nat, NEW S \in SUBSET (0 .. n), S # {}
  PROVE  Max(S) \in S /\ \A x \in S : x <= Max(S)
<1> DEFINE T == {m \in Nat : \A R \in SUBSET (0 .. m) : R # {} => \E x \in R : \A y \in R : x >= y}
<1>1. 0 \in T
  <2>1. ASSUME NEW R \in SUBSET (0 .. 0), R # {} PROVE \E x \in R : \A y \in R : x >= y
    <3>1. 0 .. 0 = {0}
      OBVIOUS
    <3>2. R = {0}
      BY <2>1, <3>1
    <3> HIDE DEF T
    <3> QED BY <3>2
  <2> QED BY <2>1
<1>2. \A m \in Nat : m \in T => m + 1 \in T
  <2> SUFFICES ASSUME NEW m \in Nat, m \in T, NEW R \in SUBSET (0 .. m + 1), R # {}
               PROVE \E x \in R : \A y \in R : x >= y
    OBVIOUS
  <2>1. CASE m + 1 \in R
    <3>1. \A y \in R : m + 1 >= y
      OBVIOUS
    <3> QED BY <2>1, <3>1
  <2>2. CASE m + 1 \notin R
    <3>1. R \in SUBSET (0 .. m)
      BY <2>2
    <3> QED BY <3>1
  <2> QED BY <2>1, <2>2
<1>3. n \in T
  <2>1. Nat \subseteq T
    <3> HIDE DEF T
    <3> QED BY <1>1, <1>2, Induction
  <2> QED BY <2>1
<1>4. \E x \in S : \A y \in S : x >= y
  BY <1>3
<1> QED
  BY <1>4 DEF Max

-----------------------------------------------------------------------------
(* The block of BitwiseMatch *)

(* math.Log2 of a window, rounded down. *)
LEMMA LogIs ==
  ASSUME NEW n \in 1 .. U16 - 1
  PROVE  /\ Log2(n) \in 0 .. PortBits - 1 /\ Pow2[Log2(n)] <= n
         /\ \A b \in 0 .. PortBits : Pow2[b] <= n => b <= Log2(n)
<1> DEFINE S == {b \in 0 .. PortBits : Pow2[b] <= n}
<1>1. PortBits \in Nat \ {0} /\ U16 = Pow2[PortBits]
  BY PortBitsAssumption
<1>2. 0 \in S
  BY <1>1, Powers
<1>3. S \in SUBSET (0 .. PortBits)
  OBVIOUS
<1>4. Max(S) \in S /\ \A b \in S : b <= Max(S)
  <2> HIDE DEF S
  <2> QED BY <1>1, <1>2, <1>3, Greatest
<1>5. PortBits \notin S
  <2>1. Pow2[PortBits] \in Nat
    BY <1>1, Powers
  <2> QED BY <1>1, <2>1
<1>6. Log2(n) = Max(S)
  BY DEF Log2
<1> HIDE DEF S
<1> QED
  <2> USE DEF S
  <2> QED BY <1>1, <1>4, <1>5, <1>6

(* getRange: the block that ends at the end of the range or beyond it, and *)
(* at the end exactly if that is a boundary.                               *)
LEMMA RangeOf ==
  ASSUME NEW end \in Ports, NEW b \in 0 .. PortBits - 1
  PROVE  /\ getRange(end, b).end <= end <=> Multiple(end + 1, Pow2[b])
         /\ Multiple(end + 1, Pow2[b]) =>
               getRange(end, b) = [start |-> end + 1 - Pow2[b], end |-> end]
<1>a. PICK p : p = Pow2[b]
  OBVIOUS
<1>1. p \in Nat \ {0} /\ U16 \in Nat /\ end \in Nat /\ end < U16
  BY <1>a, Powers, WidthAssumption, PortBitsAssumption DEF Ports
<1>2. PICK k \in Nat : U16 = k * p
  <2>1. Multiple(U16, 2 * p)
    BY <1>a, PowersGrow, PortBitsAssumption
  <2>2. PICK k \in Nat : U16 = k * (2 * p)
    BY <2>1 DEF Multiple
  <2>3. U16 = (k * 2) * p /\ k * 2 \in Nat
    BY <2>2, <1>1
  <2> QED BY <2>3
<1>b. PICK m, q : m = end % p /\ q = end \div p
  OBVIOUS
<1>3. m \in 0 .. p - 1 /\ q \in Nat
  BY <1>b, <1>1
<1>c. PICK s : s = p * q
  OBVIOUS
<1>4. m = end - s
  BY <1>b, <1>c, <1>1
<1>5. s \in Nat /\ end = s + m
  <2>1. s \in Nat
    BY <1>c, <1>1, <1>3
  <2> QED BY <2>1, <1>1, <1>3, <1>4
<1>6. s + p <= U16
  <2>1. p * q < p * k
    BY <1>c, <1>1, <1>2, <1>3, <1>5
  <2>2. q < k
    BY <2>1, <1>1, <1>2, <1>3
  <2>3. p * (q + 1) <= p * k
    BY <2>2, <1>1, <1>2, <1>3
  <2>4. p * (q + 1) = p * q + p
    BY <1>1, <1>3
  <2> QED BY <1>c, <2>3, <2>4, <1>1, <1>2
<1>7. (s + p - 1) % U16 = s + p - 1
  <2>1. PICK e : e = s + p - 1
    OBVIOUS
  <2>2. e \in 0 .. U16 - 1
    BY <2>1, <1>1, <1>5, <1>6
  <2>3. e % U16 = e
    BY <2>2, <1>1
  <2> QED BY <2>1, <2>3
<1>8. getRange(end, b) = [start |-> s, end |-> s + p - 1]
  <2>1. end - (end % Pow2[b]) = s
    BY <1>a, <1>b, <1>1, <1>3, <1>5
  <2> QED BY <1>a, <2>1, <1>7 DEF getRange
<1>9. getRange(end, b).end <= end <=> m = p - 1
  <2>1. s + p - 1 <= end <=> m = p - 1
    BY <1>1, <1>3, <1>5
  <2> QED BY <2>1, <1>8
<1>10. m = p - 1 => end + 1 = (q + 1) * p
  <2>1. (q + 1) * p = s + p
    BY <1>c, <1>1, <1>3
  <2> QED BY <2>1, <1>1, <1>3, <1>5
<1>11. Multiple(end + 1, p) => m = p - 1
  <2> SUFFICES ASSUME NEW r \in Nat, end + 1 = r * p PROVE m = p - 1
    BY DEF Multiple
  <2>1. r # 0
    BY <1>1
  <2>2. PICK z : z \in Nat /\ r = z + 1
    <3>1. r - 1 \in Nat /\ r = (r - 1) + 1
      BY <2>1
    <3> QED BY <3>1
  <2>3. (z + 1) * p = p * z + p
    BY <2>2, <1>1
  <2>4. end = p * z + (p - 1) /\ p - 1 \in 0 .. p - 1 /\ p * z \in Nat
    BY <2>2, <2>3, <1>1
  <2>5. end % p = p - 1
    BY <2>2, <2>4, <1>1
  <2> QED BY <1>b, <2>5
<1>12. m = p - 1 => Multiple(end + 1, p)
  BY <1>3, <1>10 DEF Multiple
<1>13. m = p - 1 => s = end + 1 - p /\ s + p - 1 = end
  BY <1>1, <1>3, <1>5
<1> QED
  BY <1>a, <1>8, <1>9, <1>11, <1>12, <1>13

(* The block that BitwiseMatch picks ends where the range ends, within     *)
(* it, on a boundary, and no longer one does: nothing ever remains on the  *)
(* right.                                                                  *)
LEMMA BlockIs ==
  ASSUME NEW start \in 1 .. U16 - 1, NEW end \in 1 .. U16 - 1, start < end,
         NEW b, b = blockLength(start, end)
  PROVE  /\ b \in 0 .. PortBits - 1 /\ Pow2[b] <= end - start + 1
         /\ Multiple(end + 1, Pow2[b])
         /\ getRange(end, b) = [start |-> end + 1 - Pow2[b], end |-> end]
         /\ \A c \in 0 .. PortBits : Pow2[c] <= end - start + 1 /\ Multiple(end + 1, Pow2[c]) => c <= b
<1> PICK w : w = end - start + 1
  OBVIOUS
<1>1. PortBits \in Nat \ {0} /\ U16 \in Nat
  BY PortBitsAssumption, WidthAssumption
<1>2. w \in 1 .. U16 - 1 /\ end \in Ports
  BY <1>1 DEF Ports
<1>3. w % U16 = w
  BY <1>1, <1>2
<1> PICK n : n = Log2(w)
  OBVIOUS
<1>4. n \in 0 .. PortBits - 1 /\ Pow2[n] <= w
  BY <1>2, LogIs
<1>5. \A c \in 0 .. PortBits : Pow2[c] <= w => c <= n
  BY <1>2, LogIs
<1> DEFINE S == {c \in 0 .. n : getRange(end, c).end <= end}
<1>6. b = Max(S)
  BY <1>3 DEF blockLength
<1>7. \A c \in 0 .. n : c \in S <=> Multiple(end + 1, Pow2[c])
  BY <1>1, <1>2, <1>4, RangeOf
<1>8. 0 \in S
  <2>1. end + 1 = (end + 1) * 1 /\ end + 1 \in Nat
    BY <1>1
  <2>2. Multiple(end + 1, Pow2[0])
    BY <2>1, Powers DEF Multiple
  <2> HIDE DEF S
  <2> QED BY <1>4, <1>7, <2>2
<1>9. S \in SUBSET (0 .. n) /\ n \in Nat
  BY <1>4
<1> HIDE DEF S
<1>10. b \in S /\ \A c \in S : c <= b
  BY <1>6, <1>8, <1>9, Greatest
<1>11. b \in 0 .. PortBits - 1 /\ b <= n /\ b \in Nat /\ b \in 0 .. n
  BY <1>1, <1>4, <1>9, <1>10
<1>12. Multiple(end + 1, Pow2[b])
  BY <1>7, <1>10, <1>11
<1>13. Pow2[b] <= w
  <2>1. CASE b = n
    BY <2>1, <1>4
  <2>2. CASE b # n
    <3>1. b < n
      BY <2>2, <1>4, <1>11
    <3>2. Pow2[b] < Pow2[n] /\ Pow2[b] \in Nat /\ Pow2[n] \in Nat
      BY <3>1, <1>4, <1>11, PowersGrow, Powers
    <3> QED BY <3>2, <1>2, <1>4
  <2> QED BY <2>1, <2>2
<1>14. \A c \in 0 .. PortBits : Pow2[c] <= w /\ Multiple(end + 1, Pow2[c]) => c <= b
  <2> SUFFICES ASSUME NEW c \in 0 .. PortBits, Pow2[c] <= w, Multiple(end + 1, Pow2[c]) PROVE c <= b
    OBVIOUS
  <2>1. c \in 0 .. n
    BY <1>4, <1>5
  <2> QED BY <2>1, <1>7, <1>10
<1>15. getRange(end, b) = [start |-> end + 1 - Pow2[b], end |-> end]
  BY <1>2, <1>11, <1>12, RangeOf
<1> QED
  BY <1>11, <1>12, <1>13, <1>14, <1>15

-----------------------------------------------------------------------------
(* The recursion of BitwiseMatch *)

(* A call of BitwiseMatch whose remainders are given by f. *)
Body(f, start, end) ==
    LET length == blockLength(start, end)
        block  == getRange(end, length)
        left   == IF start = block.start THEN Ok(<<>>) ELSE f[<<start, block.start - 1>>]
        right  == IF end = block.end THEN Ok(<<>>) ELSE f[<<block.end + 1, end>>]
    IN  IF start = 0 \/ end = 0 \/ start > end THEN Fail
        ELSE IF start = end THEN Ok(<<BitRange(start, U16 - 1)>>)
        ELSE IF ~left.ok \/ ~right.ok THEN Fail
        ELSE Ok(left.v \o <<BitRange(block.start, getMask(length))>> \o right.v)

(* It needs what remains on the left only, which ends earlier. *)
LEMMA BodyIs ==
  ASSUME NEW f, NEW start \in Ports, NEW end \in Ports
  PROVE  /\ start = 0 \/ end = 0 \/ start > end => Body(f, start, end) = Fail
         /\ start # 0 /\ end # 0 /\ start = end => Body(f, start, end) = Ok(<<BitRange(start, U16 - 1)>>)
         /\ start # 0 /\ start < end =>
               LET b    == blockLength(start, end)
                   at   == end + 1 - Pow2[b]
                   left == IF start = at THEN Ok(<<>>) ELSE f[<<start, at - 1>>]
               IN  Body(f, start, end) =
                      IF left.ok THEN Ok(left.v \o <<BitRange(at, getMask(b))>> \o <<>>) ELSE Fail
<1>1. start \in Nat /\ end \in Nat /\ start < U16 /\ end < U16 /\ U16 \in Nat
  BY WidthAssumption DEF Ports
<1>2. CASE start = 0 \/ end = 0 \/ start > end
  <2>1. Body(f, start, end) = Fail
    BY <1>2 DEF Body
  <2> QED BY <1>1, <1>2, <2>1
<1>3. CASE start # 0 /\ end # 0 /\ start = end
  <2>1. Body(f, start, end) = Ok(<<BitRange(start, U16 - 1)>>)
    BY <1>1, <1>3 DEF Body
  <2> QED BY <1>1, <1>3, <2>1
<1>4. CASE start # 0 /\ start < end
  <2> PICK b : b = blockLength(start, end)
    OBVIOUS
  <2> PICK at : at = end + 1 - Pow2[b]
    OBVIOUS
  <2>1. getRange(end, b) = [start |-> at, end |-> end]
    BY <1>1, <1>4, BlockIs
  <2>2. getRange(end, b).start = at /\ getRange(end, b).end = end
    BY <2>1
  <2> PICK left : left = IF start = at THEN Ok(<<>>) ELSE f[<<start, at - 1>>]
    OBVIOUS
  <2>3. Ok(<<>>).ok /\ Ok(<<>>).v = <<>>
    BY DEF Ok
  <2>4. ~(start = 0 \/ end = 0 \/ start > end) /\ start # end
    BY <1>1, <1>4
  <2>5. Body(f, start, end) = IF ~left.ok \/ ~Ok(<<>>).ok THEN Fail
                              ELSE Ok(left.v \o <<BitRange(at, getMask(b))>> \o Ok(<<>>).v)
    BY <2>2, <2>4, Zenon DEF Body
  <2>6. Body(f, start, end) = IF left.ok THEN Ok(left.v \o <<BitRange(at, getMask(b))>> \o <<>>) ELSE Fail
    BY <2>3, <2>5
  <2> QED BY <1>1, <1>4, <2>6
<1> QED
  BY <1>1, <1>2, <1>3, <1>4

(* So the recursion ends, and BitwiseMatch is what it computes. *)
LEMMA BitwiseMatchIs ==
  ASSUME NEW start \in Ports, NEW end \in Ports
  PROVE  BitwiseMatch[<<start, end>>] = Body(BitwiseMatch, start, end)
<1> DEFINE Upto(W, m) == \A s, e \in Ports : e < m => W[<<s, e>>] = Body(W, s, e)
           S == {m \in Nat : \E W : Upto(W, m)}
<1>1. U16 \in Nat /\ \A e \in Ports : e \in Nat /\ e < U16
  BY WidthAssumption DEF Ports
<1>2. ASSUME NEW f, NEW g, NEW s \in Ports, NEW e \in Ports,
             \A x, y \in Ports : y < e => f[<<x, y>>] = g[<<x, y>>]
      PROVE  Body(f, s, e) = Body(g, s, e)
  <2>1. CASE s # 0 /\ s < e
    <3> PICK b : b = blockLength(s, e)
      OBVIOUS
    <3> PICK at : at = e + 1 - Pow2[b]
      OBVIOUS
    <3>1. s \in 1 .. U16 - 1 /\ e \in 1 .. U16 - 1
      BY <1>1, <2>1
    <3>2. b \in 0 .. PortBits - 1 /\ Pow2[b] <= e - s + 1
      BY <2>1, <3>1, BlockIs
    <3>3. Pow2[b] \in Nat \ {0}
      BY <3>2, PortBitsAssumption, Powers
    <3>4. s # at => at - 1 \in Ports /\ at - 1 < e
      BY <1>1, <3>1, <3>2, <3>3 DEF Ports
    <3>5. (IF s = at THEN Ok(<<>>) ELSE f[<<s, at - 1>>]) = (IF s = at THEN Ok(<<>>) ELSE g[<<s, at - 1>>])
      BY <1>2, <3>4
    <3> DEFINE R(h) == IF (IF s = at THEN Ok(<<>>) ELSE h[<<s, at - 1>>]).ok
                       THEN Ok((IF s = at THEN Ok(<<>>) ELSE h[<<s, at - 1>>]).v \o <<BitRange(at, getMask(b))>> \o <<>>)
                       ELSE Fail
    <3>6. R(f) = R(g)
      BY <3>5
    <3>7. ASSUME NEW h PROVE Body(h, s, e) = R(h)
      BY <2>1, BodyIs
    <3> HIDE DEF R
    <3> QED BY <3>6, <3>7
  <2>2. CASE ~(s # 0 /\ s < e)
    <3>1. s = 0 \/ e = 0 \/ s > e \/ (s # 0 /\ e # 0 /\ s = e)
      BY <1>1, <2>2
    <3> PICK r : r = Ok(<<BitRange(s, U16 - 1)>>)
      OBVIOUS
    <3>2. ASSUME NEW h PROVE /\ s = 0 \/ e = 0 \/ s > e => Body(h, s, e) = Fail
                             /\ s # 0 /\ e # 0 /\ s = e => Body(h, s, e) = r
      BY BodyIs
    <3> QED BY <3>1, <3>2
  <2> QED BY <2>1, <2>2
<1>3. 0 \in S
  <2>1. Upto(<<>>, 0)
    BY <1>1
  <2> HIDE DEF Upto
  <2> QED BY <2>1
<1>4. \A m \in Nat : m \in S => m + 1 \in S
  <2> SUFFICES ASSUME NEW m \in Nat, NEW W, Upto(W, m) PROVE \E V : Upto(V, m + 1)
    <3> HIDE DEF Upto
    <3> QED OBVIOUS
  <2> DEFINE V == [r \in Ports \X Ports |-> IF r[2] = m THEN Body(W, r[1], r[2]) ELSE W[r]]
  <2>1. \A s, e \in Ports : V[<<s, e>>] = IF e = m THEN Body(W, s, e) ELSE W[<<s, e>>]
    OBVIOUS
  <2> HIDE DEF V
  <2>2. ASSUME NEW s \in Ports, NEW e \in Ports, e < m + 1 PROVE V[<<s, e>>] = Body(V, s, e)
    <3>1. \A x, y \in Ports : y < e => V[<<x, y>>] = W[<<x, y>>]
      BY <1>1, <2>1, <2>2
    <3>2. Body(V, s, e) = Body(W, s, e)
      BY <3>1, <1>2
    <3>3. V[<<s, e>>] = Body(W, s, e)
      <4>1. CASE e = m
        BY <2>1, <4>1
      <4>2. CASE e # m
        <5>1. e < m
          BY <1>1, <2>2, <4>2
        <5> QED BY <2>1, <4>2, <5>1
      <4> QED BY <4>1, <4>2
    <3> QED BY <3>2, <3>3
  <2>3. Upto(V, m + 1)
    BY <2>2
  <2> HIDE DEF Upto
  <2> QED BY <2>3
<1>5. PICK W : Upto(W, U16)
  <2>1. Nat \subseteq S
    <3> HIDE DEF S
    <3> QED BY <1>3, <1>4, Induction
  <2> HIDE DEF Upto
  <2> QED BY <1>1, <2>1
<1> DEFINE V == [r \in Ports \X Ports |-> W[r]]
<1>6. V = [r \in Ports \X Ports |-> Body(V, r[1], r[2])]
  <2> SUFFICES ASSUME NEW s \in Ports, NEW e \in Ports PROVE W[<<s, e>>] = Body(V, s, e)
    OBVIOUS
  <2>1. W[<<s, e>>] = Body(W, s, e)
    BY <1>1, <1>5
  <2>2. \A x, y \in Ports : V[<<x, y>>] = W[<<x, y>>]
    OBVIOUS
  <2> HIDE DEF V
  <2>3. Body(V, s, e) = Body(W, s, e)
    BY <1>2, <2>2
  <2> QED BY <2>1, <2>3
<1> HIDE DEF V
<1>7. BitwiseMatch = CHOOSE f : f = [r \in Ports \X Ports |-> Body(f, r[1], r[2])]
  BY Zenon DEF BitwiseMatch, Body
<1>8. BitwiseMatch = [r \in Ports \X Ports |-> Body(BitwiseMatch, r[1], r[2])]
  <2> DEFINE F(f) == [r \in Ports \X Ports |-> Body(f, r[1], r[2])]
  <2>1. V = F(V) /\ BitwiseMatch = CHOOSE f : f = F(f)
    BY <1>6, <1>7
  <2> HIDE DEF F
  <2>2. BitwiseMatch = F(BitwiseMatch)
    BY <2>1
  <2> QED BY <2>2 DEF F
<1>9. <<start, end>> \in Ports \X Ports /\ <<start, end>>[1] = start /\ <<start, end>>[2] = end
  OBVIOUS
<1> QED
  BY <1>8, <1>9

-----------------------------------------------------------------------------
(* The blocks *)

(* The numbers that agree in all but the b lowest bits, as a mask and the  *)
(* first of them; and what follows them.                                   *)
Blocks == {r \in [value : Ports, mask : Ports] :
             \E b \in 0 .. PortBits - 1 : r.mask = U16 - Pow2[b] /\ Multiple(r.value, Pow2[b])}
After(r) == r.value + (U16 - r.mask)

(* Blocks that follow each other from start to end. *)
InRow(v, start, end) ==
    /\ v \in Seq(Blocks) /\ Len(v) > 0
    /\ v[1].value = start /\ After(v[Len(v)]) = end + 1
    /\ \A i \in 1 .. Len(v) - 1 : v[i + 1].value = After(v[i])

(* While the boundary at the end allows it each block is longer than the   *)
(* one on its right, and from there on shorter.                            *)
Few(n, start, end) ==
    \A j \in 0 .. PortBits : Multiple(end + 1, Pow2[j]) =>
       /\ n <= 2 * PortBits - j
       /\ end - start + 1 < Pow2[j] => n <= j

(* The block that ends at the end of a range. *)
LEMMA LastBlock ==
  ASSUME NEW b \in 0 .. PortBits - 1, NEW at \in Ports, Multiple(at, Pow2[b])
  PROVE  BitRange(at, getMask(b)) \in Blocks /\ After(BitRange(at, getMask(b))) = at + Pow2[b]
<1> PICK p : p = Pow2[b]
  OBVIOUS
<1>1. p \in Nat \ {0} /\ p < U16 /\ U16 \in Nat
  BY PowersGrow, Powers, PortBitsAssumption, WidthAssumption
<1>2. getMask(b) = U16 - p /\ U16 - p \in Ports
  BY <1>1 DEF getMask, Ports
<1> PICK r : r = BitRange(at, U16 - p)
  OBVIOUS
<1>3. r \in [value : Ports, mask : Ports] /\ r.value = at /\ r.mask = U16 - p
  BY <1>2 DEF BitRange
<1>4. r \in Blocks
  BY <1>3 DEF Blocks
<1>5. After(r) = at + p
  BY <1>1, <1>3 DEF After, Ports
<1> QED BY <1>2, <1>4, <1>5

(* A block alone is in a row; *)
LEMMA OneInRow ==
  ASSUME NEW r \in Blocks, NEW start, NEW end, r.value = start, After(r) = end + 1
  PROVE  InRow(<<r>>, start, end) /\ Len(<<r>>) = 1
<1>1. <<r>> \in Seq(Blocks) /\ Len(<<r>>) = 1 /\ <<r>>[1] = r
  OBVIOUS
<1> QED BY <1>1 DEF InRow

(* and it is appended to blocks in a row. *)
LEMMA RowGrows ==
  ASSUME NEW v, NEW start \in Ports, NEW at \in Ports, NEW end \in Ports, InRow(v, start, at - 1),
         NEW r \in Blocks, r.value = at, After(r) = end + 1
  PROVE  InRow(v \o <<r>> \o <<>>, start, end) /\ Len(v \o <<r>> \o <<>>) = Len(v) + 1
<1> DEFINE w == v \o <<r>>
<1>1. v \in Seq(Blocks) /\ Len(v) \in Nat /\ Len(v) > 0
  BY LenProperties DEF InRow
<1>2. w \in Seq(Blocks) /\ Len(w) = Len(v) + 1
  BY <1>1
<1>3. (\A i \in 1 .. Len(v) : w[i] = v[i]) /\ w[Len(w)] = r
  BY <1>1
<1> HIDE DEF w
<1>4. w \o <<>> = w
  BY <1>2
<1>5. at \in Nat
  BY WidthAssumption DEF Ports
<1>6. ASSUME NEW i \in 1 .. Len(w) - 1 PROVE w[i + 1].value = After(w[i])
  <2>1. CASE i = Len(v)
    BY <2>1, <1>1, <1>2, <1>3, <1>5 DEF InRow
  <2>2. CASE i # Len(v)
    <3>1. i \in 1 .. Len(v) - 1 /\ i + 1 \in 1 .. Len(v)
      BY <2>2, <1>1, <1>2
    <3> QED BY <3>1, <1>1, <1>3 DEF InRow
  <2> QED BY <2>1, <2>2
<1>7. InRow(w, start, end)
  <2>1. w[1].value = start
    BY <1>1, <1>3 DEF InRow
  <2> QED BY <2>1, <1>1, <1>2, <1>3, <1>6 DEF InRow
<1> DEFINE z == w \o <<>>
<1>8. InRow(z, start, end) /\ Len(z) = Len(v) + 1
  BY <1>2, <1>4, <1>7
<1> QED BY <1>8 DEF w

(* The block at the end, and what remains before it: at most one more.     *)
LEMMA FewGrow ==
  ASSUME NEW start \in 1 .. U16 - 1, NEW end \in 1 .. U16 - 1, start < end,
         NEW n \in Nat, NEW b, b = blockLength(start, end),
         start # end + 1 - Pow2[b] => Few(n, start, end - Pow2[b]),
         start = end + 1 - Pow2[b] => n = 0
  PROVE  Few(n + 1, start, end)
<1> PICK p, w : p = Pow2[b] /\ w = end - start + 1
  OBVIOUS
<1>1. PortBits \in Nat \ {0} /\ U16 \in Nat
  BY PortBitsAssumption, WidthAssumption
<1>2. /\ b \in 0 .. PortBits - 1 /\ p <= w /\ Multiple(end + 1, p)
      /\ \A c \in 0 .. PortBits : Pow2[c] <= w /\ Multiple(end + 1, Pow2[c]) => c <= b
  BY BlockIs
<1>3. p \in Nat \ {0} /\ Pow2[b + 1] = 2 * p /\ w \in Nat /\ b \in Nat
  BY <1>1, <1>2, Powers
<1> SUFFICES ASSUME NEW j \in 0 .. PortBits, Multiple(end + 1, Pow2[j])
             PROVE  n + 1 <= 2 * PortBits - j /\ (w < Pow2[j] => n + 1 <= j)
  BY DEF Few
<1>4. j \in Nat /\ Pow2[j] \in Nat /\ j <= PortBits
  BY <1>1, Powers
<1>5. w < Pow2[j] => b < j
  <2>1. j < b => Pow2[j] < p
    BY <1>3, <1>4, PowersGrow
  <2> QED BY <2>1, <1>2, <1>3, <1>4
<1>6. ~(w < Pow2[j]) => j <= b
  BY <1>2, <1>3, <1>4
<1>7. PICK q \in Nat : end + 1 = q * p
  BY <1>2 DEF Multiple
<1>8. q # 0
  BY <1>7, <1>3
<1>9. end + 1 - p = (q - 1) * p /\ q - 1 \in Nat
  BY <1>3, <1>7, <1>8
<1>10. CASE start = end + 1 - p
  BY <1>10, <1>1, <1>2, <1>3, <1>4, <1>5
<1>11. CASE start # end + 1 - p /\ 2 * p > w
  <2>1. Multiple((end - p) + 1, p)
    <3>1. (end - p) + 1 = (q - 1) * p
      BY <1>9, <1>3
    <3> QED BY <3>1, <1>9 DEF Multiple
  <2>2. (end - p) - start + 1 < p
    BY <1>3, <1>11
  <2>3. b \in 0 .. PortBits
    BY <1>1, <1>2
  <2>4. Few(n, start, end - p)
    BY <1>11
  <2>5. n <= b
    BY <2>1, <2>2, <2>3, <2>4 DEF Few
  <2> QED BY <2>5, <1>1, <1>2, <1>3, <1>4, <1>5
<1>12. CASE start # end + 1 - p /\ ~(2 * p > w)
  <2>1. ~Multiple(end + 1, 2 * p)
    <3>1. b + 1 \in 0 .. PortBits /\ Pow2[b + 1] <= w
      BY <1>1, <1>2, <1>3, <1>12
    <3>2. ~(b + 1 <= b)
      BY <1>3
    <3> QED BY <3>1, <3>2, <1>2, <1>3
  <2>2. PICK k \in Nat : q = 2 * k + 1
    <3>1. PICK k \in Nat : q = 2 * k \/ q = 2 * k + 1
      <4>1. q \div 2 \in Nat /\ (q = 2 * (q \div 2) \/ q = 2 * (q \div 2) + 1)
        OBVIOUS
      <4> QED BY <4>1
    <3>2. q # 2 * k
      <4>1. ASSUME q = 2 * k PROVE FALSE
        <5>1. end + 1 = k * (2 * p)
          BY <4>1, <1>3, <1>7
        <5> QED BY <5>1, <2>1 DEF Multiple
      <4> QED BY <4>1
    <3> QED BY <3>1, <3>2
  <2>3. Multiple((end - p) + 1, Pow2[b + 1])
    <3>1. (q - 1) * p = k * (2 * p)
      BY <2>2, <1>3
    <3>2. (end - p) + 1 = k * (2 * p)
      BY <3>1, <1>9, <1>3
    <3> QED BY <3>2, <1>3 DEF Multiple
  <2>4. b + 1 \in 0 .. PortBits /\ Few(n, start, end - p)
    BY <1>1, <1>2, <1>12
  <2>5. n <= 2 * PortBits - (b + 1)
    BY <2>3, <2>4 DEF Few
  <2>6. ~(w < Pow2[j])
    <3>1. ASSUME w < Pow2[j] PROVE FALSE
      <4>1. Multiple(Pow2[j], 2 * p) /\ 2 * p \in Nat
        BY <1>3, <1>4, <1>5, <3>1, PowersGrow
      <4>2. Multiple(end + 1, 2 * p)
        BY <4>1, <1>4, Multiples
      <4> QED BY <4>2, <2>1
    <3> QED BY <3>1
  <2> QED BY <2>5, <2>6, <1>1, <1>2, <1>3, <1>4, <1>6
<1> QED
  BY <1>10, <1>11, <1>12

(* What BitwiseMatch makes of a range. *)
IsCut(start, end) ==
    /\ BitwiseMatch[<<start, end>>].ok
    /\ InRow(BitwiseMatch[<<start, end>>].v, start, end)
    /\ Few(Len(BitwiseMatch[<<start, end>>].v), start, end)

(* One call, if that on the left remainder has done so. *)
LEMMA CutStep ==
  ASSUME NEW start \in 1 .. U16 - 1, NEW end \in 1 .. U16 - 1, start <= end,
         \A e \in 1 .. U16 - 1 : start <= e /\ e < end => IsCut(start, e)
  PROVE  IsCut(start, end)
<1> PICK m : m = BitwiseMatch[<<start, end>>]
  OBVIOUS
<1>1. PortBits \in Nat \ {0} /\ U16 \in Nat /\ start \in Ports /\ end \in Ports
  BY PortBitsAssumption, WidthAssumption DEF Ports
<1>2. m = Body(BitwiseMatch, start, end)
  BY <1>1, BitwiseMatchIs
<1>3. \A v : Ok(v).ok /\ Ok(v).v = v
  BY DEF Ok
<1>4. CASE start = end
  <2> PICK r : r = BitRange(start, U16 - 1)
    OBVIOUS
  <2>1. m = Ok(<<r>>)
    <3>1. start # 0 /\ end # 0
      OBVIOUS
    <3>2. Body(BitwiseMatch, start, end) = Ok(<<r>>)
      BY <1>1, <1>4, <3>1, BodyIs
    <3> QED BY <1>2, <3>2
  <2>2. Pow2[0] = 1 /\ 0 \in 0 .. PortBits - 1 /\ Multiple(start, Pow2[0])
    <3>1. start = start * 1 /\ start \in Nat
      OBVIOUS
    <3> QED BY <3>1, <1>1, Powers DEF Multiple
  <2>3. getMask(0) = U16 - 1
    BY <2>2, <1>1 DEF getMask
  <2>4. r \in Blocks /\ After(r) = start + 1
    BY <1>1, <2>2, <2>3, LastBlock
  <2>5. r.value = start
    BY DEF BitRange
  <2>6. InRow(<<r>>, start, end) /\ Len(<<r>>) = 1
    BY <1>4, <2>4, <2>5, OneInRow
  <2>7. Few(1, start, end)
    <3> SUFFICES ASSUME NEW j \in 0 .. PortBits PROVE 1 <= 2 * PortBits - j /\ (end - start + 1 < Pow2[j] => 1 <= j)
      BY DEF Few
    <3>1. end - start + 1 = 1
      BY <1>4
    <3>2. j = 0 => ~(1 < Pow2[j])
      BY <2>2
    <3> QED BY <3>1, <3>2, <1>1
  <2> QED BY <1>3, <2>1, <2>6, <2>7 DEF IsCut
<1>5. CASE start < end
  <2> PICK b : b = blockLength(start, end)
    OBVIOUS
  <2> PICK at : at = end + 1 - Pow2[b]
    OBVIOUS
  <2>1. b \in 0 .. PortBits - 1 /\ Pow2[b] <= end - start + 1 /\ Multiple(end + 1, Pow2[b])
    BY <1>5, BlockIs
  <2>2. Pow2[b] \in Nat \ {0}
    BY <1>1, <2>1, Powers
  <2>3. at \in Ports /\ start <= at /\ at <= end
    BY <1>1, <2>1, <2>2 DEF Ports
  <2> PICK left : left = IF start = at THEN Ok(<<>>) ELSE BitwiseMatch[<<start, at - 1>>]
    OBVIOUS
  <2> PICK r : r = BitRange(at, getMask(b))
    OBVIOUS
  <2>4. m = IF left.ok THEN Ok(left.v \o <<r>> \o <<>>) ELSE Fail
    <3>1. start # 0
      OBVIOUS
    <3>2. Body(BitwiseMatch, start, end) = IF left.ok THEN Ok(left.v \o <<r>> \o <<>>) ELSE Fail
      BY <1>1, <1>5, <3>1, BodyIs
    <3> QED BY <1>2, <3>2
  <2>5. Multiple(at, Pow2[b])
    <3>1. end + 1 \in Nat \ {0}
      OBVIOUS
    <3>2. Multiple((end + 1) - Pow2[b], Pow2[b])
      BY <2>1, <2>2, <3>1, MultipleBefore
    <3>3. at = (end + 1) - Pow2[b]
      BY <2>2
    <3> HIDE DEF Multiple
    <3> QED BY <3>2, <3>3, Zenon
  <2>6. r \in Blocks /\ After(r) = end + 1 /\ r.value = at
    <3>1. r \in Blocks /\ After(r) = at + Pow2[b]
      BY <2>1, <2>3, <2>5, LastBlock
    <3>2. at + Pow2[b] = end + 1
      BY <2>2
    <3> QED BY <3>1, <3>2 DEF BitRange
  <2>7. CASE start = at
    <3>1. left = Ok(<<>>)
      BY <2>7
    <3> DEFINE w == <<>> \o <<r>> \o <<>>
    <3>2. w = <<r>>
      OBVIOUS
    <3> HIDE DEF w
    <3>3. m = Ok(w)
      <4>1. left.ok /\ left.v = <<>>
        BY <3>1, <1>3
      <4> QED BY <4>1, <2>4 DEF w
    <3>4. InRow(w, start, end) /\ Len(w) = 0 + 1
      <4>1. InRow(<<r>>, start, end) /\ Len(<<r>>) = 1
        BY <2>6, <2>7, OneInRow
      <4> QED BY <4>1, <3>2
    <3>5. Few(0 + 1, start, end)
      <4>1. 0 \in Nat
        OBVIOUS
      <4> QED BY <1>5, <2>7, <4>1, FewGrow
    <3> QED BY <1>3, <3>3, <3>4, <3>5 DEF IsCut
  <2>8. CASE start # at
    <3>1. at - 1 \in 1 .. U16 - 1 /\ start <= at - 1 /\ at - 1 < end
      BY <2>3, <2>8, <1>1 DEF Ports
    <3>2. IsCut(start, at - 1) /\ left = BitwiseMatch[<<start, at - 1>>]
      BY <3>1, <2>8
    <3>3. left.ok /\ InRow(left.v, start, at - 1) /\ Few(Len(left.v), start, at - 1)
      BY <3>2 DEF IsCut
    <3> DEFINE w == left.v \o <<r>> \o <<>>
    <3>4. InRow(w, start, end) /\ Len(w) = Len(left.v) + 1
      BY <1>1, <2>3, <2>6, <3>3, RowGrows
    <3>5. m = Ok(w)
      BY <2>4, <3>3
    <3> HIDE DEF w
    <3>6. Len(left.v) \in Nat
      <4>1. left.v \in Seq(Blocks)
        BY <3>3 DEF InRow
      <4> QED BY <4>1, LenProperties
    <3>7. at - 1 = end - Pow2[b]
      BY <2>2
    <3>8. Few(Len(left.v) + 1, start, end)
      BY <1>5, <2>8, <3>3, <3>6, <3>7, FewGrow
    <3> QED BY <1>3, <3>4, <3>5, <3>8 DEF IsCut
  <2> QED BY <2>7, <2>8
<1> QED
  BY <1>4, <1>5

(* A range of ports without port zero becomes blocks in a row from its     *)
(* start to its end, at most twice as many as a port has bits; any other   *)
(* range is an error (PortRange.BitwiseMatch, ovs/portrange.go).           *)
THEOREM RangesAreCut ==
  ASSUME NEW start \in Ports, NEW end \in Ports
  PROVE  LET ranges == BitwiseMatch[<<start, end>>]
         IN  IF start = 0 \/ start > end THEN ~ranges.ok
             ELSE ranges.ok /\ InRow(ranges.v, start, end) /\ Len(ranges.v) <= 2 * PortBits
<1>1. PortBits \in Nat \ {0} /\ U16 \in Nat /\ start \in Nat /\ end \in Nat /\ start < U16 /\ end < U16
  BY PortBitsAssumption, WidthAssumption DEF Ports
<1>2. CASE start = 0 \/ start > end
  <2>1. BitwiseMatch[<<start, end>>] = Fail
    <3>1. Body(BitwiseMatch, start, end) = Fail
      BY <1>2, BodyIs
    <3> QED BY <3>1, BitwiseMatchIs
  <2> QED BY <1>2, <2>1 DEF Fail
<1>3. CASE start # 0 /\ start <= end
  <2> DEFINE S == {m \in Nat : \A e \in 1 .. U16 - 1 : start <= e /\ e < m => IsCut(start, e)}
  <2>1. 0 \in S
    OBVIOUS
  <2>2. \A m \in Nat : m \in S => m + 1 \in S
    <3> SUFFICES ASSUME NEW m \in Nat, m \in S, NEW e \in 1 .. U16 - 1, start <= e, e < m + 1 PROVE IsCut(start, e)
      OBVIOUS
    <3>1. \A y \in 1 .. U16 - 1 : start <= y /\ y < e => IsCut(start, y)
      OBVIOUS
    <3>2. start \in 1 .. U16 - 1
      BY <1>1, <1>3
    <3> HIDE DEF S
    <3> QED BY <3>1, <3>2, CutStep
  <2>3. Nat \subseteq S
    <3> HIDE DEF S
    <3> QED BY <2>1, <2>2, Induction
  <2>4. U16 \in S
    BY <1>1, <2>3
  <2>5. IsCut(start, end)
    BY <1>1, <1>3, <2>4
  <2>6. Few(Len(BitwiseMatch[<<start, end>>].v), start, end)
    BY <2>5 DEF IsCut
  <2>7. Multiple(end + 1, Pow2[0]) /\ 0 \in 0 .. PortBits
    <3>1. end + 1 = (end + 1) * 1 /\ end + 1 \in Nat
      BY <1>1
    <3> QED BY <3>1, <1>1, Powers DEF Multiple
  <2>8. Len(BitwiseMatch[<<start, end>>].v) <= 2 * PortBits - 0
    BY <2>6, <2>7 DEF Few
  <2>9. 2 * PortBits - 0 = 2 * PortBits
    BY <1>1
  <2> HIDE DEF S
  <2>10. ~(start = 0 \/ start > end)
    BY <1>1, <1>3
  <2> QED BY <2>5, <2>8, <2>9, <2>10 DEF IsCut
<1> QED
  BY <1>1, <1>2, <1>3

-----------------------------------------------------------------------------
(* What the blocks select *)

(* A number between two multiples of d that follow each other. *)
LEMMA Quotient ==
  ASSUME NEW d \in Nat \ {0}, NEW q \in Nat, NEW p \in Nat
  PROVE  p \div d = q <=> q * d <= p /\ p < q * d + d
<1> PICK z, m : z = p \div d /\ m = p % d
  OBVIOUS
<1>1. z \in Nat /\ m \in 0 .. d - 1 /\ m = p - d * z
  OBVIOUS
<1>2. PICK s : s = d * z
  OBVIOUS
<1>3. s \in Nat /\ p = s + m
  <2>1. s \in Nat
    BY <1>1, <1>2
  <2> QED BY <1>1, <1>2, <2>1
<1>4. z = q => q * d <= p /\ p < q * d + d
  <2>1. z = q => q * d = s
    BY <1>1, <1>2
  <2> QED BY <1>1, <1>3, <2>1
<1>5. ASSUME q * d <= p, p < q * d + d PROVE z = q
  <2>1. PICK t : t = q * d
    OBVIOUS
  <2>2. t \in Nat /\ t <= p /\ p < t + d
    BY <1>5, <2>1
  <2>3. p - t \in 0 .. d - 1
    BY <2>2
  <2>4. p = d * q + (p - t)
    BY <2>1, <2>2
  <2> QED BY <2>3, <2>4
<1> QED
  BY <1>4, <1>5

(* A printed block selects the numbers from its value to its end. *)
LEMMA BlockSelects ==
  ASSUME NEW r \in Blocks
  PROVE  /\ Selected(portText(r.value, r.mask)) = r.value .. After(r) - 1
         /\ After(r) \in Nat /\ r.value \in Nat /\ r.value < After(r) /\ After(r) <= U16
<1>1. r.value \in Ports /\ r.mask \in Ports /\ U16 \in Nat
  BY WidthAssumption DEF Blocks
<1>2. PICK b \in 0 .. PortBits - 1 : r.mask = U16 - Pow2[b] /\ Multiple(r.value, Pow2[b])
  BY DEF Blocks
<1>3. PortBits \in Nat \ {0} /\ U16 = Pow2[PortBits]
  BY PortBitsAssumption
<1>a. PICK p, a : p = Pow2[b] /\ a = r.value
  OBVIOUS
<1>4. p \in Nat \ {0} /\ p < U16 /\ a \in Nat /\ a < U16
  BY <1>a, <1>1, <1>2, <1>3, Powers, PowersGrow DEF Ports
<1>5. PICK q \in Nat : a = q * p
  BY <1>a, <1>2 DEF Multiple
<1>6. PICK k \in Nat : U16 = k * p
  <2>1. Multiple(U16, 2 * p)
    BY <1>a, <1>3, PowersGrow
  <2>2. PICK k \in Nat : U16 = k * (2 * p)
    BY <2>1 DEF Multiple
  <2>3. U16 = (k * 2) * p /\ k * 2 \in Nat
    BY <2>2, <1>4
  <2> QED BY <2>3
<1>7. a + p <= U16
  <2>1. q * p < k * p
    BY <1>4, <1>5, <1>6
  <2>2. q < k
    BY <2>1, <1>4
  <2>3. (q + 1) * p <= k * p
    BY <2>2, <1>4
  <2>4. (q + 1) * p = q * p + p
    BY <1>4
  <2> QED BY <2>3, <2>4, <1>5, <1>6
<1>8. After(r) = a + p /\ r.mask = U16 - p /\ r.mask # 0
  <2>1. r.mask = U16 - p
    BY <1>a, <1>2
  <2>2. U16 - (U16 - p) = p /\ U16 - p # 0
    BY <1>1, <1>4
  <2> QED BY <1>a, <2>1, <2>2 DEF After
<1> DEFINE text == portText(a, r.mask)
<1>9. Len(text) = 2 /\ text[1].n = a /\ text[2].n = r.mask
  BY <1>8 DEF portText, Hex, Token
<1> HIDE DEF text
<1>10. Selected(text) = {x \in Ports : x \div p = a \div p}
  <2>1. U16 - text[2].n = p
    BY <1>1, <1>4, <1>8, <1>9
  <2> QED BY <1>9, <2>1 DEF Selected
<1>11. a \div p = q
  <2>1. q * p <= a /\ a < q * p + p
    BY <1>4, <1>5
  <2> QED BY <2>1, <1>4, Quotient
<1>12. \A x \in Ports : x \div p = q <=> a <= x /\ x < a + p
  <2> SUFFICES ASSUME NEW x \in Ports PROVE x \div p = q <=> a <= x /\ x < a + p
    OBVIOUS
  <2>1. x \in Nat
    BY <1>1 DEF Ports
  <2>2. x \div p = q <=> q * p <= x /\ x < q * p + p
    BY <2>1, <1>4, Quotient
  <2> QED BY <2>2, <1>5
<1>13. {x \in Ports : x \div p = q} = a .. a + p - 1
  <2>1. ASSUME NEW x PROVE x \in {z \in Ports : z \div p = q} <=> x \in a .. a + p - 1
    <3>1. x \in a .. a + p - 1 <=> x \in Ports /\ a <= x /\ x < a + p
      BY <1>1, <1>4, <1>7 DEF Ports
    <3> QED BY <3>1, <1>12
  <2> QED BY <2>1
<1>14. Selected(text) = a .. a + p - 1
  BY <1>10, <1>11, <1>13
<1> QED
  BY <1>a, <1>4, <1>7, <1>8, <1>14 DEF text

(* Blocks in a row are in ascending order, ... *)
LEMMA RowAscends ==
  ASSUME NEW v, NEW start, NEW end, InRow(v, start, end)
  PROVE  \A i, j \in 1 .. Len(v) : i < j => After(v[i]) <= v[j].value
<1>1. v \in Seq(Blocks) /\ Len(v) \in Nat /\ \A i \in 1 .. Len(v) : v[i] \in Blocks
  BY LenProperties, ElementOfSeq DEF InRow
<1>2. \A i \in 1 .. Len(v) : After(v[i]) \in Nat /\ v[i].value \in Nat /\ v[i].value < After(v[i])
  BY <1>1, BlockSelects
<1> DEFINE P(d) == \A i \in 1 .. Len(v) : i + d + 1 <= Len(v) => After(v[i]) <= v[i + d + 1].value
           S == {d \in Nat : P(d)}
<1>3. 0 \in S
  <2>1. \A i \in 1 .. Len(v) - 1 : v[i + 1].value = After(v[i])
    BY DEF InRow
  <2>2. ASSUME NEW i \in 1 .. Len(v), i + 0 + 1 <= Len(v) PROVE After(v[i]) <= v[i + 0 + 1].value
    <3>1. i \in 1 .. Len(v) - 1 /\ i + 0 + 1 = i + 1
      BY <1>1, <2>2
    <3> QED BY <3>1, <2>1, <1>2
  <2> QED BY <2>2
<1>4. \A d \in Nat : d \in S => d + 1 \in S
  <2> SUFFICES ASSUME NEW d \in Nat, P(d) PROVE P(d + 1)
    <3> HIDE DEF P
    <3> QED OBVIOUS
  <2> SUFFICES ASSUME NEW i \in 1 .. Len(v), i + (d + 1) + 1 <= Len(v)
               PROVE After(v[i]) <= v[i + (d + 1) + 1].value
    OBVIOUS
  <2>1. After(v[i]) <= v[i + d + 1].value
    BY <1>1
  <2>2. PICK k : k = i + d + 1
    OBVIOUS
  <2>3. k \in 1 .. Len(v) - 1 /\ i + (d + 1) + 1 = k + 1 /\ k \in 1 .. Len(v)
    BY <1>1, <2>2
  <2>4. v[k + 1].value = After(v[k])
    BY <2>3 DEF InRow
  <2>5. After(v[i]) \in Nat /\ After(v[k]) \in Nat /\ v[k].value \in Nat /\ v[k].value < After(v[k])
    BY <1>2, <2>3
  <2> HIDE DEF P
  <2> QED BY <2>1, <2>2, <2>3, <2>4, <2>5
<1>5. Nat \subseteq S
  <2> HIDE DEF S
  <2> QED BY <1>3, <1>4, Induction
<1> SUFFICES ASSUME NEW i \in 1 .. Len(v), NEW j \in 1 .. Len(v), i < j PROVE After(v[i]) <= v[j].value
  OBVIOUS
<1>6. j - i - 1 \in Nat /\ i + (j - i - 1) + 1 = j
  BY <1>1
<1>7. P(j - i - 1)
  <2> HIDE DEF P
  <2> QED BY <1>5, <1>6
<1> QED
  BY <1>6, <1>7

(* ... and leave out nothing from the start to the end. *)
LEMMA RowCovers ==
  ASSUME NEW v, NEW start \in Nat, NEW end \in Nat, InRow(v, start, end), NEW p \in start .. end
  PROVE  \E i \in 1 .. Len(v) : p \in v[i].value .. After(v[i]) - 1
<1>1. v \in Seq(Blocks) /\ Len(v) \in Nat \ {0} /\ \A i \in 1 .. Len(v) : v[i] \in Blocks
  <2>1. v \in Seq(Blocks) /\ Len(v) > 0
    BY DEF InRow
  <2> QED BY <2>1, LenProperties, ElementOfSeq
<1>2. \A i \in 1 .. Len(v) : After(v[i]) \in Nat /\ v[i].value \in Nat /\ v[i].value < After(v[i])
  BY <1>1, BlockSelects
<1> DEFINE T == {i \in Nat : i + 1 <= Len(v) => p >= v[i + 1].value}
<1> SUFFICES ASSUME ~ \E i \in 1 .. Len(v) : p \in v[i].value .. After(v[i]) - 1 PROVE FALSE
  OBVIOUS
<1>3. 0 \in T
  <2>1. v[1].value = start
    BY DEF InRow
  <2> QED BY <2>1, <1>1
<1>4. \A i \in Nat : i \in T => i + 1 \in T
  <2> SUFFICES ASSUME NEW i \in Nat, i \in T, (i + 1) + 1 <= Len(v) PROVE p >= v[(i + 1) + 1].value
    OBVIOUS
  <2>1. PICK k : k = i + 1
    OBVIOUS
  <2>2. k \in 1 .. Len(v) /\ k \in 1 .. Len(v) - 1
    BY <1>1, <2>1
  <2>3. p >= v[k].value
    BY <1>1, <2>1, <2>2
  <2>4. p \notin v[k].value .. After(v[k]) - 1
    BY <2>2
  <2>5. v[k + 1].value = After(v[k])
    BY <2>2 DEF InRow
  <2> HIDE DEF T
  <2>6. p >= After(v[k])
    BY <1>2, <2>2, <2>3, <2>4
  <2> QED BY <2>1, <2>5, <2>6
<1>5. Nat \subseteq T
  <2> HIDE DEF T
  <2> QED BY <1>3, <1>4, Induction
<1>6. p >= v[Len(v)].value
  <2>1. Len(v) - 1 \in Nat /\ (Len(v) - 1) + 1 = Len(v)
    BY <1>1
  <2>2. Len(v) - 1 \in T
    <3> HIDE DEF T
    <3> QED BY <1>5, <2>1
  <2> QED BY <2>1, <2>2
<1>7. After(v[Len(v)]) = end + 1 /\ Len(v) \in 1 .. Len(v)
  BY <1>1 DEF InRow
<1> QED
  BY <1>2, <1>6, <1>7

(* The numbers that the printed blocks of v select. *)
SelectedBy(v, sel) == \A i \in 1 .. Len(v) : sel[i] = Selected(portText(v[i].value, v[i].mask))

(* Each number from the start to the end is in one of n sets, which        *)
(* ascend, and no other number is.                                         *)
OnceEach(sel, n, start, end) ==
    /\ UNION {sel[i] : i \in 1 .. n} = start .. end
    /\ \A i, j \in 1 .. n : i < j => \A p \in sel[i], q \in sel[j] : p < q

(* Printed, blocks in a row select each number from the start to the end   *)
(* once, in ascending order, and no other.                                 *)
LEMMA RowSelects ==
  ASSUME NEW v, NEW start \in Nat, NEW end \in Nat, InRow(v, start, end), NEW sel, SelectedBy(v, sel)
  PROVE  OnceEach(sel, Len(v), start, end)
<1>0. \A i \in 1 .. Len(v) : sel[i] = Selected(portText(v[i].value, v[i].mask))
  BY DEF SelectedBy
<1>1. v \in Seq(Blocks) /\ Len(v) \in Nat \ {0} /\ \A i \in 1 .. Len(v) : v[i] \in Blocks
  <2>1. v \in Seq(Blocks) /\ Len(v) > 0
    BY DEF InRow
  <2> QED BY <2>1, LenProperties, ElementOfSeq
<1>2. \A i \in 1 .. Len(v) :
         /\ sel[i] = v[i].value .. After(v[i]) - 1
         /\ After(v[i]) \in Nat /\ v[i].value \in Nat /\ v[i].value < After(v[i])
  BY <1>0, <1>1, BlockSelects
<1>3. \A i, j \in 1 .. Len(v) : i < j => After(v[i]) <= v[j].value
  BY RowAscends
<1>4. v[1].value = start /\ After(v[Len(v)]) = end + 1 /\ 1 \in 1 .. Len(v) /\ Len(v) \in 1 .. Len(v)
  BY <1>1 DEF InRow
<1>5. ASSUME NEW i \in 1 .. Len(v) PROVE start <= v[i].value /\ After(v[i]) <= end + 1
  <2>1. i # 1 => 1 < i
    BY <1>1
  <2>2. i # Len(v) => i < Len(v)
    BY <1>1
  <2>3. start <= v[i].value
    <3>1. CASE i = 1
      BY <3>1, <1>4
    <3>2. CASE i # 1
      <4>1. After(v[1]) <= v[i].value
        BY <2>1, <3>2, <1>3, <1>4
      <4>2. After(v[1]) \in Nat /\ v[1].value \in Nat /\ v[1].value < After(v[1]) /\ v[i].value \in Nat
        BY <1>2, <1>4
      <4> QED BY <4>1, <4>2, <1>4
    <3> QED BY <3>1, <3>2
  <2>4. After(v[i]) <= end + 1
    <3>1. CASE i = Len(v)
      BY <3>1, <1>4
    <3>2. CASE i # Len(v)
      <4>1. After(v[i]) <= v[Len(v)].value
        BY <2>2, <3>2, <1>3, <1>4
      <4>2. /\ After(v[i]) \in Nat /\ After(v[Len(v)]) \in Nat /\ v[Len(v)].value \in Nat
            /\ v[Len(v)].value < After(v[Len(v)])
        BY <1>2, <1>4
      <4> QED BY <4>1, <4>2, <1>4
    <3> QED BY <3>1, <3>2
  <2> QED BY <2>3, <2>4
<1>6. ASSUME NEW i \in 1 .. Len(v), NEW p \in sel[i] PROVE p \in start .. end
  <2>1. p \in v[i].value .. After(v[i]) - 1 /\ v[i].value \in Nat /\ After(v[i]) \in Nat
    BY <1>2
  <2>2. start <= v[i].value /\ After(v[i]) <= end + 1
    BY <1>5
  <2> QED BY <2>1, <2>2
<1>7. \A p \in start .. end : \E i \in 1 .. Len(v) : p \in sel[i]
  <2> SUFFICES ASSUME NEW p \in start .. end PROVE \E i \in 1 .. Len(v) : p \in sel[i]
    OBVIOUS
  <2>1. PICK i \in 1 .. Len(v) : p \in v[i].value .. After(v[i]) - 1
    BY RowCovers
  <2>2. p \in sel[i]
    BY <1>2, <2>1
  <2> QED BY <2>2
<1>8. ASSUME NEW i \in 1 .. Len(v), NEW j \in 1 .. Len(v), i < j, NEW p \in sel[i], NEW q \in sel[j] PROVE p < q
  <2>1. After(v[i]) <= v[j].value
    BY <1>3, <1>8
  <2>2. /\ p \in v[i].value .. After(v[i]) - 1 /\ q \in v[j].value .. After(v[j]) - 1
        /\ v[i].value \in Nat /\ After(v[i]) \in Nat /\ v[j].value \in Nat /\ After(v[j]) \in Nat
    BY <1>2
  <2> QED BY <2>1, <2>2
<1> QED
  BY <1>6, <1>7, <1>8 DEF OnceEach

-----------------------------------------------------------------------------
(* Statistics over several lines *)

(* The loop that prints the parts as a sequence of steps. *)
OutputSteps(W, banner, parts) ==
    /\ Output(banner, parts) = W[Len(parts)]
    /\ W[0] = <<Line(banner, 0, 0)>>
    /\ \A i \in 1 .. Len(parts) : W[i] = W[i - 1] \o parts[i]

LEMMA PartsPrinted ==
    ASSUME NEW banner, NEW parts, Len(parts) \in Nat
    PROVE  \E W : OutputSteps(W, banner, parts)
<1> DEFINE n == Len(parts)
           Start == <<Line(banner, 0, 0)>>
           Step(r, i) == r \o parts[i]
           F(f) == [i \in 0 .. n |-> IF i = 0 THEN Start ELSE Step(f[i - 1], i)]
           Upto(W, m) == /\ W[0] = Start
                         /\ \A i \in 1 .. m : W[i] = Step(W[i - 1], i)
           S == {m \in Nat : \E W : Upto(W, m)}
<1> HIDE DEF Step, Start
<1>1. 0 \in S
  <2>1. Upto([i \in 0 .. 0 |-> Start], 0)
    OBVIOUS
  <2> HIDE DEF Upto
  <2> QED BY <2>1
<1>2. \A m \in Nat : m \in S => m + 1 \in S
  <2> SUFFICES ASSUME NEW m \in Nat, m \in S PROVE \E W : Upto(W, m + 1)
    <3> HIDE DEF Upto
    <3> QED OBVIOUS
  <2>1. PICK W : Upto(W, m)
    <3> HIDE DEF Upto
    <3> QED OBVIOUS
  <2> DEFINE V == [i \in 0 .. m + 1 |-> IF i = m + 1 THEN Step(W[m], i) ELSE W[i]]
  <2>2. /\ \A i \in 0 .. m : V[i] = W[i]
        /\ V[m + 1] = Step(W[m], m + 1)
    OBVIOUS
  <2> HIDE DEF V
  <2>3. ASSUME NEW i \in 1 .. m + 1 PROVE V[i] = Step(V[i - 1], i)
    <3>1. CASE i = m + 1
      <4>1. i - 1 = m /\ V[m] = W[m]
        BY <3>1, <2>2
      <4> QED BY <3>1, <4>1, <2>2
    <3>2. CASE i \in 1 .. m
      <4>1. V[i] = W[i] /\ V[i - 1] = W[i - 1]
        BY <3>2, <2>2
      <4> QED BY <3>2, <4>1, <2>1
    <3> QED BY <3>1, <3>2
  <2>4. V[0] = Start
    BY <2>1, <2>2
  <2> QED BY <2>3, <2>4
<1>3. Nat \subseteq S
  <2> HIDE DEF S
  <2> QED BY <1>1, <1>2, Induction
<1>4. PICK W : Upto(W, n)
  BY <1>3
<1> DEFINE V == [i \in 0 .. n |-> W[i]]
           loop == CHOOSE f : f = F(f)
<1>5. V = F(V)
  <2>1. \A i \in 0 .. n : V[i] = IF i = 0 THEN Start ELSE Step(V[i - 1], i)
    <3> SUFFICES ASSUME NEW i \in 0 .. n PROVE V[i] = IF i = 0 THEN Start ELSE Step(V[i - 1], i)
      OBVIOUS
    <3>1. CASE i = 0
      BY <3>1, <1>4
    <3>2. CASE i \in 1 .. n
      <4>1. i - 1 \in 0 .. n /\ i # 0
        BY <3>2
      <4>2. V[i] = W[i] /\ V[i - 1] = W[i - 1]
        BY <4>1
      <4> QED BY <3>2, <4>1, <4>2, <1>4
    <3> QED BY <3>1, <3>2
  <2>2. V = [i \in 0 .. n |-> V[i]]
    OBVIOUS
  <2> HIDE DEF V
  <2> QED BY <2>1, <2>2
<1>6. loop = F(loop)
  <2> HIDE DEF F, V
  <2> QED BY <1>5, Zenon
<1>7. \A i \in 0 .. n : loop[i] = IF i = 0 THEN Start ELSE Step(loop[i - 1], i)
  <2> HIDE DEF loop
  <2> QED BY <1>6, Zenon
<1>8. Output(banner, parts) = loop[n]
  BY Zenon DEF Output, Step, Start
<1> HIDE DEF loop, F
<1>9. loop[0] = Start /\ \A i \in 1 .. n : loop[i] = Step(loop[i - 1], i)
  BY <1>7
<1> QED BY <1>8, <1>9 DEF Step, Start, OutputSteps

(* The loop that keeps the tables in use as a sequence of steps. *)
LEMMA TablesKept ==
    ASSUME NEW v, Len(v) \in Nat
    PROVE  \E W : /\ UsedTables(v) = W[Len(v)]
                  /\ W[0] = <<>>
                  /\ \A i \in 1 .. Len(v) : W[i] = KeepUsed(W[i - 1], v[i])
<1> DEFINE n == Len(v)
           Start == <<>>
           Step(r, i) == KeepUsed(r, v[i])
           F(f) == [i \in 0 .. n |-> IF i = 0 THEN Start ELSE Step(f[i - 1], i)]
           Upto(W, m) == /\ W[0] = Start
                         /\ \A i \in 1 .. m : W[i] = Step(W[i - 1], i)
           S == {m \in Nat : \E W : Upto(W, m)}
<1> HIDE DEF Step, Start
<1>1. 0 \in S
  <2>1. Upto([i \in 0 .. 0 |-> Start], 0)
    OBVIOUS
  <2> HIDE DEF Upto
  <2> QED BY <2>1
<1>2. \A m \in Nat : m \in S => m + 1 \in S
  <2> SUFFICES ASSUME NEW m \in Nat, m \in S PROVE \E W : Upto(W, m + 1)
    <3> HIDE DEF Upto
    <3> QED OBVIOUS
  <2>1. PICK W : Upto(W, m)
    <3> HIDE DEF Upto
    <3> QED OBVIOUS
  <2> DEFINE V == [i \in 0 .. m + 1 |-> IF i = m + 1 THEN Step(W[m], i) ELSE W[i]]
  <2>2. /\ \A i \in 0 .. m : V[i] = W[i]
        /\ V[m + 1] = Step(W[m], m + 1)
    OBVIOUS
  <2> HIDE DEF V
  <2>3. ASSUME NEW i \in 1 .. m + 1 PROVE V[i] = Step(V[i - 1], i)
    <3>1. CASE i = m + 1
      <4>1. i - 1 = m /\ V[m] = W[m]
        BY <3>1, <2>2
      <4> QED BY <3>1, <4>1, <2>2
    <3>2. CASE i \in 1 .. m
      <4>1. V[i] = W[i] /\ V[i - 1] = W[i - 1]
        BY <3>2, <2>2
      <4> QED BY <3>2, <4>1, <2>1
    <3> QED BY <3>1, <3>2
  <2>4. V[0] = Start
    BY <2>1, <2>2
  <2> QED BY <2>3, <2>4
<1>3. Nat \subseteq S
  <2> HIDE DEF S
  <2> QED BY <1>1, <1>2, Induction
<1>4. PICK W : Upto(W, n)
  BY <1>3
<1> DEFINE V == [i \in 0 .. n |-> W[i]]
           loop == CHOOSE f : f = F(f)
<1>5. V = F(V)
  <2>1. \A i \in 0 .. n : V[i] = IF i = 0 THEN Start ELSE Step(V[i - 1], i)
    <3> SUFFICES ASSUME NEW i \in 0 .. n PROVE V[i] = IF i = 0 THEN Start ELSE Step(V[i - 1], i)
      OBVIOUS
    <3>1. CASE i = 0
      BY <3>1, <1>4
    <3>2. CASE i \in 1 .. n
      <4>1. i - 1 \in 0 .. n /\ i # 0
        BY <3>2
      <4>2. V[i] = W[i] /\ V[i - 1] = W[i - 1]
        BY <4>1
      <4> QED BY <3>2, <4>1, <4>2, <1>4
    <3> QED BY <3>1, <3>2
  <2>2. V = [i \in 0 .. n |-> V[i]]
    OBVIOUS
  <2> HIDE DEF V
  <2> QED BY <2>1, <2>2
<1>6. loop = F(loop)
  <2> HIDE DEF F, V
  <2> QED BY <1>5, Zenon
<1>7. \A i \in 0 .. n : loop[i] = IF i = 0 THEN Start ELSE Step(loop[i - 1], i)
  <2> HIDE DEF loop
  <2> QED BY <1>6, Zenon
<1>8. UsedTables(v) = loop[n]
  BY Zenon DEF UsedTables, Step, Start
<1> HIDE DEF loop, F
<1>9. loop[0] = Start /\ \A i \in 1 .. n : loop[i] = Step(loop[i - 1], i)
  BY <1>7
<1> QED BY <1>8, <1>9 DEF Step, Start
(* A line, and the places of the parts if each has k lines. *)
LineShapes == {"PORT", "PORT_OF13", "TABLE", "rx", "tx", "duration", "CUSTOM", "values", "name:", "name_:", "lookup"}
Lines == [shape : LineShapes, id : Int, n : Int]

LEMMA Places ==
    ASSUME NEW k \in {2, 3, 5}, NEW m \in Nat, NEW j \in 1 .. k
    PROVE  /\ k * m \in Nat /\ 1 + k * m + k = 1 + k * (m + 1)
           /\ k * ((m + 1) - 1) + 1 + j = 1 + k * m + j
           /\ \A i \in 1 .. m : k * (i - 1) + 1 + j \in 1 .. 1 + k * m
<1>1. CASE k = 2
  BY <1>1
<1>2. CASE k = 3
  BY <1>2
<1>3. CASE k = 5
  BY <1>3
<1> QED BY <1>1, <1>2, <1>3

(* W prints the parts one after another. *)
Prints(W, parts, S) ==
    /\ Len(parts) \in Nat /\ \A i \in 1 .. Len(parts) : parts[i] \in Seq(S)
    /\ W[0] \in Seq(S)
    /\ \A i \in 1 .. Len(parts) : W[i] = W[i - 1] \o parts[i]

(* What is printed is a text of lines, and stays where it is when more is  *)
(* printed.                                                                *)
LEMMA PartsAreLines ==
    ASSUME NEW S, NEW parts, NEW W, Prints(W, parts, S)
    PROVE  \A m \in 0 .. Len(parts) : W[m] \in Seq(S)
<1> DEFINE T == {m \in Nat : m <= Len(parts) => W[m] \in Seq(S)}
<1>1. 0 \in T
  BY DEF Prints
<1>2. \A m \in Nat : m \in T => m + 1 \in T
  <2> SUFFICES ASSUME NEW m \in Nat, m \in T, m + 1 <= Len(parts) PROVE W[m + 1] \in Seq(S)
    OBVIOUS
  <2>1. m + 1 \in 1 .. Len(parts) /\ (m + 1) - 1 = m /\ parts[m + 1] \in Seq(S) /\ W[m] \in Seq(S)
    BY DEF Prints
  <2>2. W[m + 1] = W[m] \o parts[m + 1]
    BY <2>1 DEF Prints
  <2> QED BY <2>1, <2>2, ConcatProperties
<1>3. Nat \subseteq T
  <2> HIDE DEF T
  <2> QED BY <1>1, <1>2, Induction
<1> QED BY <1>3

(* The text w is the text v and then b. *)
Follows(w, v, b) ==
    /\ Len(v) \in Nat /\ Len(b) \in Nat /\ Len(w) = Len(v) + Len(b)
    /\ \A p \in 1 .. Len(v) : w[p] = v[p]
    /\ \A p \in 1 .. Len(b) : w[Len(v) + p] = b[p]

LEMMA Concatenated ==
    ASSUME NEW S, NEW a \in Seq(S), NEW b \in Seq(S)
    PROVE  a \o b \in Seq(S) /\ Follows(a \o b, a, b)
<1>1. Len(a) \in Nat /\ Len(b) \in Nat
  BY LenProperties
<1>2. a \o b \in Seq(S) /\ Len(a \o b) = Len(a) + Len(b)
  BY ConcatProperties
<1>3. \A i \in 1 .. Len(a) + Len(b) : (a \o b)[i] = IF i <= Len(a) THEN a[i] ELSE b[i - Len(a)]
  BY ConcatProperties
<1>4. \A la, lb, p \in Nat : p <= la => p \in 1 .. la + lb \/ p = 0
  OBVIOUS
<1>5. ASSUME NEW p \in 1 .. Len(a) PROVE (a \o b)[p] = a[p]
  <2>1. p \in Nat /\ p <= Len(a) /\ p # 0
    BY <1>1
  <2>2. p \in 1 .. Len(a) + Len(b)
    BY <2>1, <1>1, <1>4
  <2> QED BY <2>1, <2>2, <1>3
<1>6. \A la, lb : \A p \in 1 .. lb :
         la \in Nat /\ lb \in Nat => la + p \in 1 .. la + lb /\ ~(la + p <= la) /\ (la + p) - la = p
  OBVIOUS
<1>7. ASSUME NEW p \in 1 .. Len(b) PROVE (a \o b)[Len(a) + p] = b[p]
  <2>1. Len(a) + p \in 1 .. Len(a) + Len(b) /\ ~(Len(a) + p <= Len(a)) /\ (Len(a) + p) - Len(a) = p
    BY <1>1, <1>6
  <2> QED BY <2>1, <1>3
<1> QED BY <1>1, <1>2, <1>5, <1>7 DEF Follows

LEMMA PartAdded ==
    ASSUME NEW S, NEW parts, NEW W, Prints(W, parts, S), NEW m \in 1 .. Len(parts)
    PROVE  /\ W[m - 1] \in Seq(S) /\ W[m] \in Seq(S) /\ parts[m] \in Seq(S)
           /\ Follows(W[m], W[m - 1], parts[m])
<1>1. W[m] = W[m - 1] \o parts[m] /\ parts[m] \in Seq(S) /\ Len(parts) \in Nat
  BY DEF Prints
<1>2. m - 1 \in 0 .. Len(parts) /\ m \in 0 .. Len(parts)
  BY <1>1
<1>3. W[m - 1] \in Seq(S) /\ W[m] \in Seq(S)
  BY <1>2, PartsAreLines
<1>4. W[m - 1] \o parts[m] \in Seq(S) /\ Follows(W[m - 1] \o parts[m], W[m - 1], parts[m])
  BY <1>1, <1>3, Concatenated
<1> QED BY <1>1, <1>3, <1>4

(* The text w begins with the text v. *)
Begins(w, v) == Len(v) \in Nat /\ Len(w) \in Nat /\ Len(v) <= Len(w) /\ \A p \in 1 .. Len(v) : w[p] = v[p]

LEMMA StillBegins ==
    ASSUME NEW u, NEW v, NEW w, NEW b, Begins(v, u), Follows(w, v, b)
    PROVE  Begins(w, u)
<1>1. /\ Len(u) \in Nat /\ Len(v) \in Nat /\ Len(b) \in Nat /\ Len(u) <= Len(v)
      /\ Len(w) = Len(v) + Len(b)
  BY DEF Begins, Follows
<1>2. Len(w) \in Nat /\ Len(u) <= Len(w) /\ 1 .. Len(u) \subseteq 1 .. Len(v)
  BY <1>1
<1>3. (\A p \in 1 .. Len(u) : v[p] = u[p]) /\ (\A p \in 1 .. Len(v) : w[p] = v[p])
  BY DEF Begins, Follows
<1> QED BY <1>1, <1>2, <1>3 DEF Begins

LEMMA PartsStay ==
    ASSUME NEW S, NEW parts, NEW W, Prints(W, parts, S), NEW i \in 0 .. Len(parts)
    PROVE  \A m \in i .. Len(parts) : Begins(W[m], W[i])
<1> DEFINE T == {d \in Nat : i + d <= Len(parts) => Begins(W[i + d], W[i])}
<1>0. Len(parts) \in Nat /\ Len(W[i]) \in Nat
  BY PartsAreLines, LenProperties DEF Prints
<1>1. 0 \in T
  <2>1. Begins(W[i], W[i])
    BY <1>0 DEF Begins
  <2> QED BY <2>1
<1>2. \A d \in Nat : d \in T => d + 1 \in T
  <2> SUFFICES ASSUME NEW d \in Nat, d \in T, i + (d + 1) <= Len(parts)
               PROVE  Begins(W[i + (d + 1)], W[i])
    OBVIOUS
  <2>1. i + (d + 1) \in 1 .. Len(parts) /\ (i + (d + 1)) - 1 = i + d /\ i + d <= Len(parts)
    BY <1>0
  <2>2. Begins(W[i + d], W[i])
    BY <2>1
  <2>3. Follows(W[i + (d + 1)], W[i + d], parts[i + (d + 1)])
    BY <2>1, PartAdded
  <2> QED BY <2>2, <2>3, StillBegins
<1>3. Nat \subseteq T
  <2> HIDE DEF T
  <2> QED BY <1>1, <1>2, Induction
<1> SUFFICES ASSUME NEW m \in i .. Len(parts) PROVE Begins(W[m], W[i])
  OBVIOUS
<1>4. m - i \in Nat /\ i + (m - i) = m /\ m <= Len(parts)
  BY <1>0
<1>5. Begins(W[i + (m - i)], W[i])
  BY <1>3, <1>4
<1> QED BY <1>4, <1>5

(* As long as every part has k lines, the places are multiples of k. *)
Placed(w, parts, k, m) ==
    /\ Len(w) = 1 + k * m
    /\ \A i \in 1 .. m : \A j \in 1 .. k : w[k * (i - 1) + 1 + j] = parts[i][j]

LEMMA OneMorePlaced ==
    ASSUME NEW v, NEW w, NEW parts, NEW k \in {2, 3, 5}, NEW m \in Nat,
           Placed(v, parts, k, m), Follows(w, v, parts[m + 1]), Len(parts[m + 1]) = k
    PROVE  Placed(w, parts, k, m + 1)
<1>1. Len(v) = 1 + k * m /\ Len(w) = Len(v) + k
  BY DEF Placed, Follows
<1>2. Len(w) = 1 + k * (m + 1)
  <2>1. 1 \in 1 .. k
    OBVIOUS
  <2>2. 1 + k * m + k = 1 + k * (m + 1)
    BY <2>1, Places
  <2> QED BY <2>2, <1>1
<1>3. /\ \A p \in 1 .. 1 + k * m : w[p] = v[p]
      /\ \A p \in 1 .. k : w[1 + k * m + p] = parts[m + 1][p]
  BY <1>1 DEF Follows
<1>4. ASSUME NEW i \in 1 .. m + 1, NEW j \in 1 .. k
      PROVE  w[k * (i - 1) + 1 + j] = parts[i][j]
  <2>1. CASE i = m + 1
    <3>1. k * (i - 1) + 1 + j = 1 + k * m + j
      BY <2>1, Places
    <3>2. w[1 + k * m + j] = parts[m + 1][j]
      BY <1>3
    <3> QED BY <2>1, <3>1, <3>2
  <2>2. CASE i \in 1 .. m
    <3>1. k * (i - 1) + 1 + j \in 1 .. 1 + k * m
      BY <2>2, Places
    <3>2. w[k * (i - 1) + 1 + j] = v[k * (i - 1) + 1 + j]
      BY <3>1, <1>3
    <3>3. v[k * (i - 1) + 1 + j] = parts[i][j]
      BY <2>2 DEF Placed
    <3> QED BY <3>2, <3>3
  <2> QED BY <2>1, <2>2
<1> QED BY <1>2, <1>4 DEF Placed

LEMMA PartsInPlace ==
    ASSUME NEW S, NEW parts, NEW W, Prints(W, parts, S),
           Len(W[0]) = 1, NEW k \in {2, 3, 5}, NEW n \in 0 .. Len(parts), \A i \in 1 .. n : Len(parts[i]) = k
    PROVE  Placed(W[n], parts, k, n)
<1> DEFINE T == {m \in Nat : m <= n => Placed(W[m], parts, k, m)}
<1>0. Len(parts) \in Nat /\ n \in Nat /\ n <= Len(parts)
  BY DEF Prints
<1>1. 0 \in T
  <2>1. Len(W[0]) = 1 /\ 1 + k * 0 = 1
    OBVIOUS
  <2>2. Placed(W[0], parts, k, 0)
    BY <2>1 DEF Placed
  <2> QED BY <2>2
<1>2. \A m \in Nat : m \in T => m + 1 \in T
  <2> SUFFICES ASSUME NEW m \in Nat, m \in T, m + 1 <= n PROVE Placed(W[m + 1], parts, k, m + 1)
    OBVIOUS
  <2>1. m + 1 \in 1 .. Len(parts) /\ (m + 1) - 1 = m /\ m + 1 \in 1 .. n /\ m <= n
    BY <1>0
  <2>2. Placed(W[m], parts, k, m) /\ Len(parts[m + 1]) = k
    BY <2>1
  <2>3. Follows(W[m + 1], W[m], parts[m + 1])
    BY <2>1, PartAdded
  <2> QED BY <2>2, <2>3, OneMorePlaced
<1>3. Nat \subseteq T
  <2> HIDE DEF T
  <2> QED BY <1>1, <1>2, Induction
<1> QED BY <1>0, <1>3

(* The two lines of a group. *)
LEMMA TwoLines ==
    ASSUME NEW S, NEW in \in Seq(S), NEW a \in Nat \ {0}, a + 1 <= Len(in)
    PROVE  SubSeq(in, a, a + 1)[1] = in[a] /\ SubSeq(in, a, a + 1)[2] = in[a + 1]
<1>1. Len(in) \in Nat
  BY LenProperties
<1>2. a \in 1 .. Len(in) + 1 /\ a + 1 \in a - 1 .. Len(in)
  BY <1>1
<1>3. \A i \in 1 .. ((a + 1) - a) + 1 : SubSeq(in, a, a + 1)[i] = in[a + i - 1]
  BY <1>2, SubSeqProperties
<1>4. 1 \in 1 .. ((a + 1) - a) + 1 /\ 2 \in 1 .. ((a + 1) - a) + 1 /\ a + 1 - 1 = a /\ a + 2 - 1 = a + 1
  OBVIOUS
<1> QED BY <1>3, <1>4

GroupRead(in, k, i, x, y) ==
    /\ GroupValue(in, k, i, "PortStats") =
          IF x.shape = "rx" /\ y.shape = "tx"
          THEN Done([id |-> x.id, rx |-> Counter(x.n), tx |-> Counter(y.n)]) ELSE Error(<<>>)
    /\ x.shape \in {"name:", "name_:"} /\ y.shape = "lookup" =>
          GroupValue(in, k, i, "Table") =
            Done([id |-> x.id, active |-> x.n, lookup |-> y.id, matched |-> y.n])

LEMMA GroupIs ==
    ASSUME NEW S, NEW in \in Seq(S), NEW k \in {2, 3, 5}, NEW i \in Nat \ {0}, k * (i - 1) + 3 <= Len(in)
    PROVE  GroupRead(in, k, i, in[k * (i - 1) + 2], in[k * (i - 1) + 3])
<1>0. k * (i - 1) + 2 \in Nat \ {0} /\ (k * (i - 1) + 2) + 1 = k * (i - 1) + 3
  <2>1. CASE k = 2
    BY <2>1
  <2>2. CASE k = 3
    BY <2>2
  <2>3. CASE k = 5
    BY <2>3
  <2> QED BY <2>1, <2>2, <2>3
<1>6. /\ SubSeq(in, k * (i - 1) + 2, k * (i - 1) + 3)[1] = in[k * (i - 1) + 2]
      /\ SubSeq(in, k * (i - 1) + 2, k * (i - 1) + 3)[2] = in[k * (i - 1) + 3]
  <2> PICK a : a = k * (i - 1) + 2
    OBVIOUS
  <2>1. a \in Nat \ {0} /\ a + 1 = k * (i - 1) + 3 /\ a + 1 <= Len(in)
    BY <1>0
  <2>2. \A c \in Nat \ {0} :
           c + 1 <= Len(in) => SubSeq(in, c, c + 1)[1] = in[c] /\ SubSeq(in, c, c + 1)[2] = in[c + 1]
    BY TwoLines
  <2>3. SubSeq(in, a, a + 1)[1] = in[a] /\ SubSeq(in, a, a + 1)[2] = in[a + 1]
    BY <2>1, <2>2
  <2> QED BY <2>1, <2>3
<1> PICK b : b = SubSeq(in, k * (i - 1) + 2, k * (i - 1) + 3)
  OBVIOUS
<1> PICK x, y : x = in[k * (i - 1) + 2] /\ y = in[k * (i - 1) + 3]
  OBVIOUS
<1>1. b[1] = x /\ b[2] = y
  BY <1>6
<1>2. GroupValue(in, k, i, "PortStats") = UnmarshalPortStats(b)
  BY DEF GroupValue
<1>3. GroupValue(in, k, i, "Table") = UnmarshalTable(b)
  BY DEF GroupValue
<1>4. UnmarshalPortStats(b) =
        IF x.shape = "rx" /\ y.shape = "tx"
        THEN Done([id |-> x.id, rx |-> Counter(x.n), tx |-> Counter(y.n)]) ELSE Error(<<>>)
  BY <1>1 DEF UnmarshalPortStats
<1>5. x.shape \in {"name:", "name_:"} /\ y.shape = "lookup" =>
        UnmarshalTable(b) = Done([id |-> x.id, active |-> x.n, lookup |-> y.id, matched |-> y.n])
  BY <1>1 DEF UnmarshalTable
<1> QED BY <1>2, <1>3, <1>4, <1>5 DEF GroupRead

(* parseEach after c good groups, of which the first is v[1]. *)
ReadAfter(in, banners, type, c, v) ==
    LET k      == linesEach(in)
        groups == (Len(in) - 1) \div k
        r      == parseEach(in, banners, type)
        got    == [i \in 1 .. c |-> v[i]]
    IN  /\ c = groups => r = IF c * k # Len(in) - 1 THEN Error(got) ELSE Done(got)
        /\ c < groups /\ GroupValue(in, k, c + 1, type).end # "ok" =>
              r = [end |-> GroupValue(in, k, c + 1, type).end, v |-> got]

LEMMA EachRead ==
    ASSUME NEW in, NEW banners, NEW type, NEW c \in Nat, NEW v,
           in # <<>>, in[1].shape \in banners, Len(in) \in Nat \ {0}, linesEach(in) \in {2, 3, 5},
           c <= (Len(in) - 1) \div linesEach(in),
           \A i \in 1 .. c : GroupValue(in, linesEach(in), i, type) = Done(v[i])
    PROVE  ReadAfter(in, banners, type, c, v)
<1> DEFINE k == linesEach(in)
           groups == (Len(in) - 1) \div k
           value == [i \in 1 .. groups |-> GroupValue(in, k, i, type)]
           bad   == {i \in 1 .. groups : value[i].end # "ok"}
           upto(n) == [i \in 1 .. n |-> value[i].v]
           got == [i \in 1 .. c |-> v[i]]
<1>9. parseEach(in, banners, type) =
        IF in = <<>> THEN Error(<<>>)
        ELSE IF in[1].shape \notin banners THEN Error(<<>>)
        ELSE IF bad # {} THEN [end |-> value[Min(bad)].end, v |-> upto(Min(bad) - 1)]
        ELSE IF groups * k # Len(in) - 1 THEN Error(upto(groups))
        ELSE Done(upto(groups))
  BY Zenon DEF parseEach
<1>10. k = linesEach(in) /\ groups = (Len(in) - 1) \div linesEach(in)
  OBVIOUS
<1>0. groups \in Nat /\ c <= groups
  <2>1. k \in Nat \ {0} /\ Len(in) - 1 \in Nat
    OBVIOUS
  <2> QED BY <2>1
<1>1. parseEach(in, banners, type) =
        IF bad # {} THEN [end |-> value[Min(bad)].end, v |-> upto(Min(bad) - 1)]
        ELSE IF groups * k # Len(in) - 1 THEN Error(upto(groups))
        ELSE Done(upto(groups))
  <2> HIDE DEF bad, value, upto, groups, k
  <2> QED BY <1>9
<1>2. \A i \in 1 .. groups : value[i] = GroupValue(in, k, i, type)
  OBVIOUS
<1>3. \A i \in 1 .. c : i \in 1 .. groups /\ value[i] = Done(v[i])
  BY <1>0, <1>2
<1>4. \A i \in 1 .. c : value[i].end = "ok" /\ value[i].v = v[i]
  BY <1>3 DEF Done
<1>5. upto(c) = got
  BY <1>4
<1>6. \A i \in bad : i \in 1 .. groups /\ i \notin 1 .. c
  BY <1>4
<1> HIDE DEF value, upto, got, groups, k
<1>7. ASSUME c = groups
      PROVE  parseEach(in, banners, type) = IF c * k # Len(in) - 1 THEN Error(got) ELSE Done(got)
  <2>1. bad = {}
    BY <1>6, <1>7
  <2> QED BY <2>1, <1>1, <1>5, <1>7
<1>8. ASSUME c < groups, GroupValue(in, k, c + 1, type).end # "ok"
      PROVE  parseEach(in, banners, type) = [end |-> GroupValue(in, k, c + 1, type).end, v |-> got]
  <2>1. c + 1 \in 1 .. groups /\ value[c + 1] = GroupValue(in, k, c + 1, type)
    BY <1>0, <1>2, <1>8
  <2>2. c + 1 \in bad
    BY <2>1, <1>8
  <2>3. \A i \in bad : i \in Int /\ c + 1 <= i
    BY <1>6, <1>0
  <2>4. Min(bad) = c + 1
    <3> HIDE DEF bad
    <3>1. \A x \in bad : (\A y \in bad : x <= y) => x = c + 1
      BY <2>2, <2>3
    <3>2. \E x \in bad : \A y \in bad : x <= y
      BY <2>2, <2>3
    <3> QED BY <3>1, <3>2 DEF Min
  <2>5. (c + 1) - 1 = c
    OBVIOUS
  <2> QED BY <2>1, <2>2, <2>4, <2>5, <1>1, <1>5
<1> QED BY <1>7, <1>8, <1>10 DEF got, ReadAfter

(* Statistics of ports *)

PortRecords == [id : Int, rx : Int, tx : Int, custom : BOOLEAN]
StatsOf(p) == [id |-> p.id, rx |-> Counter(p.rx), tx |-> Counter(p.tx)]
PortParts(ports, of13) == [i \in DOMAIN ports |-> PrintPort(ports[i], of13)]
PortBanner(of13) == IF of13 THEN "PORT_OF13" ELSE "PORT"
PortSize(p, of13) == IF ~of13 THEN 2 ELSE IF p.custom THEN 5 ELSE 3

(* The lines of a port. *)
LEMMA LinesOfPort ==
    ASSUME NEW p \in PortRecords
    PROVE  /\ RxLine(p) \in Lines /\ TxLine(p) \in Lines /\ DurationLine \in Lines
           /\ CustomLine \in Lines /\ CustomValues \in Lines
           /\ RxLine(p).shape = "rx" /\ TxLine(p).shape = "tx" /\ DurationLine.shape = "duration"
           /\ CustomLine.shape = "CUSTOM" /\ CustomValues.shape = "values"
<1>0. p.id \in Int /\ p.rx \in Int /\ p.tx \in Int
  BY DEF PortRecords
<1>1. RxLine(p) = [shape |-> "rx", id |-> p.id, n |-> p.rx]
  BY DEF RxLine, Line
<1>2. TxLine(p) = [shape |-> "tx", id |-> 0, n |-> p.tx]
  BY DEF TxLine, Line
<1>3. DurationLine = [shape |-> "duration", id |-> 0, n |-> 0]
  BY DEF DurationLine, Line
<1>4. CustomLine = [shape |-> "CUSTOM", id |-> 0, n |-> 0]
  BY DEF CustomLine, Line
<1>5. CustomValues = [shape |-> "values", id |-> 0, n |-> 0]
  BY DEF CustomValues, Line
<1>6. RxLine(p) \in Lines /\ RxLine(p).shape = "rx"
  BY <1>0, <1>1 DEF Lines, LineShapes
<1>7. TxLine(p) \in Lines /\ TxLine(p).shape = "tx"
  BY <1>0, <1>2 DEF Lines, LineShapes
<1>8. DurationLine \in Lines /\ DurationLine.shape = "duration"
  BY <1>3 DEF Lines, LineShapes
<1>9. CustomLine \in Lines /\ CustomLine.shape = "CUSTOM"
  BY <1>4 DEF Lines, LineShapes
<1>10. CustomValues \in Lines /\ CustomValues.shape = "values"
  BY <1>5 DEF Lines, LineShapes
<1> QED BY <1>6, <1>7, <1>8, <1>9, <1>10

LEMMA PortLines ==
    ASSUME NEW p \in PortRecords, NEW of13 \in BOOLEAN
    PROVE  LET b == PrintPort(p, of13)
           IN  /\ b \in Seq(Lines) /\ Len(b) = PortSize(p, of13)
               /\ b[1] = RxLine(p) /\ b[2] = TxLine(p)
               /\ of13 => b[3] = DurationLine
               /\ of13 /\ p.custom => b[4] = CustomLine
               /\ ~(of13 /\ p.custom) => \A j \in 1 .. Len(b) : b[j].shape # "CUSTOM"
<1> PICK r, t, d, c, v : r = RxLine(p) /\ t = TxLine(p) /\ d = DurationLine /\ c = CustomLine /\ v = CustomValues
  OBVIOUS
<1>1. r \in Lines /\ t \in Lines /\ d \in Lines /\ c \in Lines /\ v \in Lines
  BY LinesOfPort
<1>2. r.shape = "rx" /\ t.shape = "tx" /\ d.shape = "duration"
  BY LinesOfPort
<1>3. PICK rest : rest = IF ~of13 THEN <<>> ELSE IF ~p.custom THEN <<d>> ELSE <<d, c, v>>
  OBVIOUS
<1>4. PrintPort(p, of13) = <<r, t>> \o rest
  BY <1>3 DEF PrintPort
<1>5. /\ <<r, t>> \in Seq(Lines) /\ Len(<<r, t>>) = 2 /\ <<r, t>>[1] = r /\ <<r, t>>[2] = t
  BY <1>1
<1>6. rest \in Seq(Lines) /\ 2 + Len(rest) = PortSize(p, of13)
  BY <1>1, <1>3 DEF PortSize
<1>7. /\ of13 => 1 \in 1 .. Len(rest) /\ rest[1] = d
      /\ of13 /\ p.custom => 2 \in 1 .. Len(rest) /\ rest[2] = c
      /\ ~(of13 /\ p.custom) => \A j \in 1 .. Len(rest) : rest[j] = d
  BY <1>3
<1> PICK b : b = PrintPort(p, of13)
  OBVIOUS
<1> PICK a : a = <<r, t>>
  OBVIOUS
<1>8. b \in Seq(Lines) /\ Follows(b, a, rest)
  BY <1>4, <1>5, <1>6, Concatenated
<1>9. a[1] = r /\ a[2] = t /\ Len(a) = 2
  BY <1>5
<1>10. /\ Len(b) = 2 + Len(rest) /\ Len(rest) \in Nat /\ (\A j \in 1 .. 2 : b[j] = a[j])
       /\ \A j \in 1 .. Len(rest) : b[2 + j] = rest[j]
  BY <1>8, <1>9 DEF Follows
<1>11. Len(b) = PortSize(p, of13) /\ b[1] = r /\ b[2] = t
  BY <1>6, <1>9, <1>10
<1>12. of13 => b[3] = d
  <2>1. 1 \in 1 .. Len(rest) => b[2 + 1] = rest[1]
    BY <1>10
  <2>2. of13 => 1 \in 1 .. Len(rest) /\ rest[1] = d
    BY <1>7
  <2>3. 2 + 1 = 3
    OBVIOUS
  <2> QED BY <2>1, <2>2, <2>3
<1>13. of13 /\ p.custom => b[4] = c
  <2>1. 2 \in 1 .. Len(rest) => b[2 + 2] = rest[2]
    BY <1>10
  <2>2. of13 /\ p.custom => 2 \in 1 .. Len(rest) /\ rest[2] = c
    BY <1>7
  <2>3. 2 + 2 = 4
    OBVIOUS
  <2> QED BY <2>1, <2>2, <2>3
<1>14. ASSUME ~(of13 /\ p.custom), NEW j \in 1 .. Len(b) PROVE b[j].shape # "CUSTOM"
  <2>1. j = 1 \/ j = 2 \/ (j - 2 \in 1 .. Len(rest) /\ 2 + (j - 2) = j)
    BY <1>10
  <2>2. CASE j - 2 \in 1 .. Len(rest) /\ 2 + (j - 2) = j
    <3>1. b[j] = d
      BY <2>2, <1>7, <1>10, <1>14
    <3> QED BY <3>1, <1>2
  <2> QED BY <2>1, <2>2, <1>2, <1>11
<1> QED BY <1>8, <1>11, <1>12, <1>13, <1>14

LEMMA PortsPrinted ==
    ASSUME NEW ports \in Seq(PortRecords), NEW of13 \in BOOLEAN
    PROVE  \E W : /\ PrintPorts(ports, of13) = W[Len(ports)]
                  /\ Prints(W, PortParts(ports, of13), Lines)
                  /\ Len(W[0]) = 1 /\ W[0][1].shape = PortBanner(of13)
                  /\ ~of13 \/ (\A i \in 1 .. Len(ports) : ~ports[i].custom) =>
                        Prints(W, PortParts(ports, of13), {l \in Lines : l.shape # "CUSTOM"})
<1> DEFINE parts == PortParts(ports, of13)
           n == Len(ports)
           NoCustom == {l \in Lines : l.shape # "CUSTOM"}
<1>1. n \in Nat /\ DOMAIN ports = 1 .. n /\ (\A i \in 1 .. n : ports[i] \in PortRecords)
  BY LenProperties
<1>2. Len(parts) = n /\ \A i \in 1 .. n : parts[i] = PrintPort(ports[i], of13)
  BY <1>1 DEF PortParts
<1>3. PrintPorts(ports, of13) = Output(PortBanner(of13), parts)
  BY DEF PrintPorts, PortParts, PortBanner
<1> HIDE DEF parts
<1>4. PICK W : /\ Output(PortBanner(of13), parts) = W[Len(parts)]
               /\ W[0] = <<Line(PortBanner(of13), 0, 0)>>
               /\ \A i \in 1 .. Len(parts) : W[i] = W[i - 1] \o parts[i]
  <2>1. Len(parts) \in Nat
    BY <1>1, <1>2
  <2>2. \E W : OutputSteps(W, PortBanner(of13), parts)
    BY <2>1, PartsPrinted
  <2> QED BY <2>2 DEF OutputSteps
<1>5. /\ Line(PortBanner(of13), 0, 0) \in NoCustom /\ Line(PortBanner(of13), 0, 0) \in Lines
      /\ Line(PortBanner(of13), 0, 0).shape = PortBanner(of13)
  <2>1. CASE of13
    BY <2>1 DEF PortBanner, Line, Lines, LineShapes
  <2>2. CASE ~of13
    BY <2>2 DEF PortBanner, Line, Lines, LineShapes
  <2> QED BY <2>1, <2>2
<1>6. Len(W[0]) = 1 /\ W[0][1].shape = PortBanner(of13) /\ W[0] \in Seq(Lines) /\ W[0] \in Seq(NoCustom)
  <2> HIDE DEF NoCustom
  <2> QED BY <1>4, <1>5
<1>7. \A i \in 1 .. n : parts[i] \in Seq(Lines)
  BY <1>1, <1>2, PortLines
<1>8. Prints(W, parts, Lines)
  BY <1>1, <1>2, <1>4, <1>6, <1>7 DEF Prints
<1>9. ASSUME ~of13 \/ \A i \in 1 .. n : ~ports[i].custom PROVE Prints(W, parts, NoCustom)
  <2>1. ASSUME NEW i \in 1 .. n PROVE parts[i] \in Seq(NoCustom)
    <3> PICK b : b = parts[i]
      OBVIOUS
    <3>1. b \in Seq(Lines) /\ \A j \in 1 .. Len(b) : b[j].shape # "CUSTOM"
      BY <1>1, <1>2, <1>9, PortLines
    <3>2. Len(b) \in Nat /\ b = [j \in 1 .. Len(b) |-> b[j]] /\ \A j \in 1 .. Len(b) : b[j] \in Lines
      BY <3>1, LenProperties
    <3>3. \A j \in 1 .. Len(b) : b[j] \in NoCustom
      BY <3>1, <3>2
    <3> HIDE DEF NoCustom
    <3>4. b \in [1 .. Len(b) -> NoCustom]
      BY <3>2, <3>3
    <3> QED BY <3>2, <3>4
  <2> HIDE DEF NoCustom
  <2> QED BY <2>1, <1>1, <1>2, <1>4, <1>6 DEF Prints
<1> QED BY <1>2, <1>3, <1>4, <1>6, <1>8, <1>9 DEF parts

(* What W prints is the output for these ports. *)
PrintsPorts(W, ports, of13) ==
    /\ Len(W[0]) = 1
    /\ Prints(W, PortParts(ports, of13), Lines)
    /\ W[0][1].shape = PortBanner(of13)
    /\ ~of13 \/ (\A i \in 1 .. Len(ports) : ~ports[i].custom) =>
          Prints(W, PortParts(ports, of13), {l \in Lines : l.shape # "CUSTOM"})

(* The lines of port p stand in the text in behind the text v, and w is     *)
(* the text up to them.                                                    *)
PortAt(v, w, in, p, of13) ==
    /\ Len(v) \in Nat /\ Len(in) \in Nat /\ Len(v) + PortSize(p, of13) <= Len(in)
    /\ Len(w) = Len(v) + PortSize(p, of13)
    /\ in[Len(v) + 1] = RxLine(p) /\ in[Len(v) + 2] = TxLine(p)
    /\ of13 => in[Len(v) + 3] = DurationLine
    /\ of13 /\ p.custom => in[Len(v) + 4] = CustomLine

LEMMA PortInOutput ==
    ASSUME NEW ports \in Seq(PortRecords), NEW of13 \in BOOLEAN, NEW W, PrintsPorts(W, ports, of13),
           NEW i \in 1 .. Len(ports)
    PROVE  PortAt(W[i - 1], W[i], W[Len(ports)], ports[i], of13)
<1> PICK parts, b, w, p, v, in :
      /\ parts = PortParts(ports, of13) /\ b = parts[i] /\ w = W[i] /\ p = ports[i]
      /\ v = W[i - 1] /\ in = W[Len(ports)]
  OBVIOUS
<1>1. Len(ports) \in Nat /\ DOMAIN ports = 1 .. Len(ports) /\ p \in PortRecords
  BY LenProperties
<1>2. Len(parts) = Len(ports) /\ b = PrintPort(p, of13)
  BY <1>1 DEF PortParts
<1>3. Prints(W, parts, Lines)
  BY DEF PrintsPorts
<1>4. Follows(w, v, b) /\ Begins(in, w)
  <2>1. i \in 1 .. Len(parts) /\ i \in 0 .. Len(parts) /\ Len(ports) \in i .. Len(parts)
    BY <1>1, <1>2
  <2>2. Follows(w, v, b)
    BY <2>1, <1>3, PartAdded
  <2>3. Begins(in, w)
    BY <2>1, <1>3, PartsStay
  <2> QED BY <2>2, <2>3
<1>5. /\ Len(b) = PortSize(p, of13) /\ b[1] = RxLine(p) /\ b[2] = TxLine(p)
      /\ of13 => b[3] = DurationLine
      /\ of13 /\ p.custom => b[4] = CustomLine
  BY <1>1, <1>2, PortLines
<1>6. /\ 1 \in 1 .. PortSize(p, of13) /\ 2 \in 1 .. PortSize(p, of13) /\ PortSize(p, of13) \in Nat
      /\ of13 => 3 \in 1 .. PortSize(p, of13)
      /\ of13 /\ p.custom => 4 \in 1 .. PortSize(p, of13)
  BY DEF PortSize
<1>7. /\ Len(v) \in Nat /\ Len(w) = Len(v) + PortSize(p, of13)
      /\ \A j \in 1 .. PortSize(p, of13) : w[Len(v) + j] = b[j]
  BY <1>4, <1>5 DEF Follows
<1>8. Len(in) \in Nat /\ Len(w) <= Len(in) /\ \A j \in 1 .. Len(w) : in[j] = w[j]
  BY <1>4 DEF Begins
<1>9. \A j \in 1 .. PortSize(p, of13) : in[Len(v) + j] = b[j]
  <2> PICK lv, size : lv = Len(v) /\ size = PortSize(p, of13)
    OBVIOUS
  <2> SUFFICES ASSUME NEW j \in 1 .. size PROVE in[lv + j] = b[j]
    OBVIOUS
  <2>1. lv + j \in 1 .. lv + size
    BY <1>6, <1>7
  <2>2. lv + j \in 1 .. Len(w) /\ w[lv + j] = b[j]
    BY <2>1, <1>7
  <2> QED BY <2>2, <1>8
<1>10. in[Len(v) + 1] = RxLine(p) /\ in[Len(v) + 2] = TxLine(p)
  BY <1>5, <1>6, <1>9
<1>11. of13 => in[Len(v) + 3] = DurationLine
  BY <1>5, <1>6, <1>9
<1>12. of13 /\ p.custom => in[Len(v) + 4] = CustomLine
  BY <1>5, <1>6, <1>9
<1>13. Len(v) + PortSize(p, of13) <= Len(in)
  BY <1>7, <1>8
<1> QED BY <1>7, <1>8, <1>10, <1>11, <1>12, <1>13 DEF PortAt

(* As long as the ports have k lines each, the output is that long.        *)
Sized(w, k, m) == Len(w) = 1 + k * m

LEMMA PortsLength ==
    ASSUME NEW ports \in Seq(PortRecords), NEW of13 \in BOOLEAN, NEW W, PrintsPorts(W, ports, of13),
           NEW k \in {2, 3, 5}, NEW m \in 0 .. Len(ports),
           \A j \in 1 .. m : PortSize(ports[j], of13) = k
    PROVE  Sized(W[m], k, m)
<1> PICK parts : parts = PortParts(ports, of13)
  OBVIOUS
<1>1. /\ Len(ports) \in Nat /\ DOMAIN ports = 1 .. Len(ports)
      /\ \A j \in 1 .. Len(ports) : ports[j] \in PortRecords
  BY LenProperties
<1>2. Len(parts) = Len(ports) /\ \A j \in 1 .. Len(ports) : parts[j] = PrintPort(ports[j], of13)
  BY <1>1 DEF PortParts
<1>3. Prints(W, parts, Lines) /\ Len(W[0]) = 1
  BY DEF PrintsPorts
<1>4. m \in 0 .. Len(parts) /\ \A j \in 1 .. m : j \in 1 .. Len(ports)
  BY <1>1, <1>2
<1>5. \A j \in 1 .. m : Len(parts[j]) = k
  BY <1>1, <1>2, <1>4, PortLines
<1>6. Placed(W[m], parts, k, m)
  BY <1>3, <1>4, <1>5, PartsInPlace
<1> QED BY <1>6 DEF Placed, Sized

(* As long as the ports before had k lines each, the group of a port is    *)
(* read as the port.                                                       *)
LEMMA PortGroup ==
    ASSUME NEW ports \in Seq(PortRecords), NEW of13 \in BOOLEAN, NEW W, PrintsPorts(W, ports, of13),
           NEW k \in {2, 3, 5}, NEW i \in 1 .. Len(ports),
           \A j \in 1 .. i - 1 : PortSize(ports[j], of13) = k
    PROVE  GroupValue(W[Len(ports)], k, i, "PortStats") = Done(StatsOf(ports[i]))
<1> PICK v, in : v = W[i - 1] /\ in = W[Len(ports)]
  OBVIOUS
<1>1. Len(ports) \in Nat /\ i - 1 \in 0 .. Len(ports) /\ i \in Nat \ {0}
  <2>1. Len(ports) \in Nat
    BY LenProperties
  <2> QED BY <2>1
<1>7. Len(v) = 1 + k * (i - 1)
  <2>1. Sized(W[i - 1], k, i - 1)
    BY <1>1, PortsLength
  <2> QED BY <2>1 DEF Sized
<1>8. /\ Len(v) \in Nat /\ Len(in) \in Nat /\ Len(v) + PortSize(ports[i], of13) <= Len(in)
      /\ in[Len(v) + 1] = RxLine(ports[i]) /\ in[Len(v) + 2] = TxLine(ports[i])
  <2>1. PortAt(v, W[i], in, ports[i], of13)
    BY PortInOutput
  <2> QED BY <2>1 DEF PortAt
<1>9. PortSize(ports[i], of13) \in Nat /\ PortSize(ports[i], of13) >= 2
  BY DEF PortSize
<1>10. k * (i - 1) + 3 <= Len(in) /\ Len(v) + 1 = k * (i - 1) + 2 /\ Len(v) + 2 = k * (i - 1) + 3
  <2> PICK x, lv, li, size : x = k * (i - 1) /\ lv = Len(v) /\ li = Len(in) /\ size = PortSize(ports[i], of13)
    OBVIOUS
  <2>1. x \in Int
    OBVIOUS
  <2>2. lv = 1 + x /\ lv + size <= li /\ size >= 2 /\ lv \in Nat /\ li \in Nat /\ size \in Nat
    BY <1>7, <1>8, <1>9
  <2> QED BY <2>1, <2>2
<1>11. in \in Seq(Lines)
  <2>1. Len(PortParts(ports, of13)) = Len(ports)
    <3>1. DOMAIN ports = 1 .. Len(ports)
      BY LenProperties
    <3> QED BY <3>1, <1>1 DEF PortParts
  <2>2. Prints(W, PortParts(ports, of13), Lines)
    BY DEF PrintsPorts
  <2>3. Len(ports) \in 0 .. Len(PortParts(ports, of13))
    BY <2>1, <1>1
  <2> QED BY <2>2, <2>3, PartsAreLines
<1> PICK r, t : r = RxLine(ports[i]) /\ t = TxLine(ports[i])
  OBVIOUS
<1>12. r = in[k * (i - 1) + 2] /\ t = in[k * (i - 1) + 3]
  BY <1>8, <1>10
<1>13. r.shape = "rx" /\ t.shape = "tx" /\ r.id = ports[i].id /\ r.n = ports[i].rx /\ t.n = ports[i].tx
  BY DEF RxLine, TxLine, Line
<1>14. GroupValue(in, k, i, "PortStats") =
          IF r.shape = "rx" /\ t.shape = "tx"
          THEN Done([id |-> r.id, rx |-> Counter(r.n), tx |-> Counter(t.n)]) ELSE Error(<<>>)
  <2>1. k * (i - 1) + 3 <= Len(in)
    BY <1>10
  <2>2. GroupRead(in, k, i, in[k * (i - 1) + 2], in[k * (i - 1) + 3])
    BY <2>1, <1>1, <1>11, GroupIs
  <2>3. GroupRead(in, k, i, r, t)
    BY <2>2, <1>12
  <2> QED BY <2>3 DEF GroupRead
<1> QED BY <1>13, <1>14 DEF StatsOf

(* How many lines parseEach takes for a port. *)
LEMMA PortsLinesEach ==
    ASSUME NEW ports \in Seq(PortRecords), NEW of13 \in BOOLEAN, NEW W, PrintsPorts(W, ports, of13),
           NEW in, in = W[Len(ports)]
    PROVE  /\ in # <<>> /\ in \in Seq(Lines) /\ Len(in) \in Nat \ {0} /\ in[1].shape = PortBanner(of13)
           /\ linesEach(in) = IF ~of13 THEN 2 ELSE IF \E i \in 1 .. Len(ports) : ports[i].custom THEN 5 ELSE 3
<1> PICK parts : parts = PortParts(ports, of13)
  OBVIOUS
<1>1. Len(ports) \in Nat /\ DOMAIN ports = 1 .. Len(ports)
  BY LenProperties
<1>2. Len(parts) = Len(ports)
  BY <1>1 DEF PortParts
<1>3. Prints(W, parts, Lines) /\ Len(W[0]) = 1
  BY DEF PrintsPorts
<1>4. Begins(in, W[0]) /\ in \in Seq(Lines)
  <2>1. 0 \in 0 .. Len(parts) /\ Len(ports) \in 0 .. Len(parts)
    BY <1>1, <1>2
  <2>2. Begins(in, W[0])
    BY <2>1, <1>3, PartsStay
  <2>3. in \in Seq(Lines)
    BY <2>1, <1>3, PartsAreLines
  <2> QED BY <2>2, <2>3
<1>5. Len(in) \in Nat \ {0} /\ in[1] = W[0][1] /\ DOMAIN in = 1 .. Len(in) /\ in # <<>>
  <2>1. Len(in) \in Nat /\ 1 <= Len(in) /\ in[1] = W[0][1]
    BY <1>3, <1>4 DEF Begins
  <2>2. DOMAIN in = 1 .. Len(in) /\ (in = <<>> => Len(in) = 0)
    BY <1>4, LenProperties
  <2> QED BY <2>1, <2>2
<1>6. in[1].shape = PortBanner(of13)
  BY <1>5 DEF PrintsPorts
<1>7. ASSUME ~of13 PROVE linesEach(in) = 2
  <2>1. in[1].shape = "PORT" /\ in[1].shape # "PORT_OF13"
    BY <1>6, <1>7 DEF PortBanner
  <2> QED BY <2>1, <1>7 DEF linesEach
<1>8. ASSUME of13, NEW i \in 1 .. Len(ports), ports[i].custom PROVE linesEach(in) = 5
  <2>1. /\ Len(W[i - 1]) \in Nat /\ Len(W[i - 1]) + PortSize(ports[i], of13) <= Len(in)
        /\ in[Len(W[i - 1]) + 4] = CustomLine
    <3>1. PortAt(W[i - 1], W[i], W[Len(ports)], ports[i], of13)
      BY <1>8, PortInOutput
    <3> QED BY <3>1, <1>8 DEF PortAt
  <2>2. PortSize(ports[i], of13) = 5
    BY <1>8 DEF PortSize
  <2>3. Len(W[i - 1]) + 4 \in DOMAIN in
    BY <2>1, <2>2, <1>5
  <2>4. CustomLine.shape = "CUSTOM"
    BY DEF CustomLine, Line
  <2> QED BY <2>1, <2>3, <2>4, <1>6, <1>8 DEF linesEach, PortBanner
<1>9. ASSUME of13, \A i \in 1 .. Len(ports) : ~ports[i].custom PROVE linesEach(in) = 3
  <2> DEFINE NoCustom == {l \in Lines : l.shape # "CUSTOM"}
  <2>1. Prints(W, parts, NoCustom)
    BY <1>9 DEF PrintsPorts
  <2>2. in \in Seq(NoCustom)
    <3> HIDE DEF NoCustom
    <3> QED BY <2>1, <1>1, <1>2, PartsAreLines
  <2>3. \A i \in DOMAIN in : in[i] \in NoCustom
    <3> HIDE DEF NoCustom
    <3> QED BY <2>2
  <2>4. ~ \E i \in DOMAIN in : in[i].shape = "CUSTOM"
    BY <2>3
  <2> QED BY <2>4, <1>6, <1>9 DEF linesEach, PortBanner
<1> QED BY <1>4, <1>5, <1>6, <1>7, <1>8, <1>9

LEMMA Least ==
    ASSUME NEW S, S \subseteq Nat, S # {}
    PROVE  \E m \in S : \A i \in S : m <= i
<1>1. PICK m \in S : \A i \in S : ~(<<i, m>> \in Less)
  BY WFMin, LessWF
<1>2. \A i \in S : i \in Nat /\ m \in Nat /\ ~(i < m)
  BY <1>1 DEF Less
<1> QED BY <1>2

Taken(f, c) == [i \in 1 .. c |-> f[i]]

LEMMA FirstOfMany ==
    ASSUME NEW S, NEW n \in Nat, NEW c \in 0 .. n, NEW f, \A i \in 1 .. n : f[i] \in S
    PROVE  IsPrefix(Taken(f, c), Taken(f, n))
<1>0. PICK a, b : a = [i \in 1 .. c |-> f[i]] /\ b = [i \in 1 .. n |-> f[i]]
  OBVIOUS
<1>1. Len(a) = c /\ Len(b) = n /\ (\A i \in 1 .. c : a[i] = f[i] /\ b[i] = f[i] /\ f[i] \in S)
  BY <1>0
<1>2. c - 1 + 1 = c /\ \A i \in Int : 1 + i - 1 = i
  OBVIOUS
<1>3. /\ SubSeq(a, 1, c) \in Seq(S) /\ Len(SubSeq(a, 1, c)) = c
      /\ \A i \in 1 .. c : SubSeq(a, 1, c)[i] = a[i]
  BY <1>1, <1>2, SubSeqProperties
<1>4. /\ SubSeq(b, 1, c) \in Seq(S) /\ Len(SubSeq(b, 1, c)) = c
      /\ \A i \in 1 .. c : SubSeq(b, 1, c)[i] = b[i]
  BY <1>1, <1>2, SubSeqProperties
<1>5. SubSeq(a, 1, c) = SubSeq(b, 1, c)
  BY <1>1, <1>3, <1>4, SeqEqual
<1>6. IsPrefix(a, b)
  BY <1>1, <1>5 DEF IsPrefix
<1> QED BY <1>0, <1>6 DEF Taken

(* Ports with the same number of lines each are read as they are. *)
LEMMA SamePortsRead ==
    ASSUME NEW ports \in Seq(PortRecords), NEW of13 \in BOOLEAN, NEW W, PrintsPorts(W, ports, of13),
           NEW k \in {2, 3, 5}, linesEach(W[Len(ports)]) = k,
           \A j \in 1 .. Len(ports) : PortSize(ports[j], of13) = k
    PROVE  DumpPorts(W[Len(ports)]) = Done([i \in 1 .. Len(ports) |-> StatsOf(ports[i])])
<1> DEFINE banners == {"PORT", "PORT_OF13"}
<1> PICK in, n, v : in = W[Len(ports)] /\ n = Len(ports) /\ v = [i \in 1 .. n |-> StatsOf(ports[i])]
  OBVIOUS
<1>1. n \in Nat
  BY LenProperties
<1>2. in # <<>> /\ Len(in) \in Nat \ {0} /\ in[1].shape \in banners
  BY PortsLinesEach DEF PortBanner
<1>3. Len(in) = 1 + k * n
  <2>1. Len(ports) \in 0 .. Len(ports)
    BY <1>1
  <2>2. Sized(W[Len(ports)], k, Len(ports))
    BY <2>1, PortsLength
  <2> QED BY <2>2 DEF Sized
<1>4. (Len(in) - 1) \div k = n /\ n * k = Len(in) - 1
  <2>1. CASE k = 2
    BY <2>1, <1>1, <1>3
  <2>2. CASE k = 3
    BY <2>2, <1>1, <1>3
  <2>3. CASE k = 5
    BY <2>3, <1>1, <1>3
  <2> QED BY <2>1, <2>2, <2>3
<1>5. ASSUME NEW i \in 1 .. n PROVE GroupValue(in, k, i, "PortStats") = Done(v[i])
  <2>1. \A j \in 1 .. i - 1 : j \in 1 .. n
    BY <1>1
  <2>2. \A j \in 1 .. i - 1 : PortSize(ports[j], of13) = k
    BY <2>1
  <2>3. GroupValue(in, k, i, "PortStats") = Done(StatsOf(ports[i]))
    BY <2>2, PortGroup
  <2> QED BY <2>3
<1>6. linesEach(in) = k /\ linesEach(in) \in {2, 3, 5} /\ n <= (Len(in) - 1) \div linesEach(in)
  <2>1. linesEach(in) = k /\ n <= n
    BY <1>1
  <2> QED BY <2>1, <1>4
<1> HIDE DEF banners
<1>7. ReadAfter(in, banners, "PortStats", n, v)
  <2>1. \A i \in 1 .. n : GroupValue(in, linesEach(in), i, "PortStats") = Done(v[i])
    BY <1>5, <1>6
  <2> QED BY <2>1, <1>1, <1>2, <1>6, EachRead
<1>8. parseEach(in, banners, "PortStats") = Done([i \in 1 .. n |-> v[i]])
  <2>1. n = (Len(in) - 1) \div linesEach(in) /\ ~(n * linesEach(in) # Len(in) - 1)
    BY <1>4, <1>6
  <2> QED BY <2>1, <1>7 DEF ReadAfter
<1>9. [i \in 1 .. n |-> v[i]] = v
  OBVIOUS
<1> QED BY <1>8, <1>9 DEF DumpPorts, banners

(* A group of five lines after m of them, behind five times m lines. *)
Fives(l, m) ==
    /\ m * 5 # l - 1
    /\ m = (l - 1) \div 5 \/ m < (l - 1) \div 5
    /\ m <= (l - 1) \div 5
    /\ m < (l - 1) \div 5 => 5 * ((m + 1) - 1) + 3 <= l
    /\ 5 * ((m + 1) - 1) + 2 = 5 * m + 2

LEMMA FiveLines == ASSUME NEW l \in Nat, NEW m \in Nat, 5 * m + 2 <= l PROVE Fives(l, m)
BY DEF Fives

LEMMA OverFive ==
    ASSUME NEW l \in Nat, NEW m \in Nat, NEW size \in Nat, size >= 3, (5 * m - 1) + size <= l
    PROVE  5 * m + 2 <= l
OBVIOUS

(* Ports with and without custom statistics: the ports before the first    *)
(* one without are read, possibly that one, and then there is an error.    *)
LEMMA MixedPortsRead ==
    ASSUME NEW ports \in Seq(PortRecords), NEW W, PrintsPorts(W, ports, TRUE),
           linesEach(W[Len(ports)]) = 5, NEW m \in 1 .. Len(ports), ~ports[m].custom,
           \A j \in 1 .. m - 1 : ports[j].custom
    PROVE  \E c \in 0 .. Len(ports) :
               DumpPorts(W[Len(ports)]) = Error([i \in 1 .. c |-> StatsOf(ports[i])])
<1> DEFINE banners == {"PORT", "PORT_OF13"}
<1> PICK in, n, v : in = W[Len(ports)] /\ n = Len(ports) /\ v = [i \in 1 .. n |-> StatsOf(ports[i])]
  OBVIOUS
<1>1. n \in Nat /\ m \in Nat \ {0} /\ m <= n
  BY LenProperties
<1>2. in # <<>> /\ Len(in) \in Nat \ {0} /\ in[1].shape \in banners /\ in \in Seq(Lines)
  BY PortsLinesEach DEF PortBanner
<1> HIDE DEF banners
<1>3. \A j \in 1 .. m - 1 : PortSize(ports[j], TRUE) = 5
  BY DEF PortSize
<1>4. PortSize(ports[m], TRUE) = 3
  BY DEF PortSize
<1>5. ASSUME NEW i \in 1 .. m PROVE GroupValue(in, 5, i, "PortStats") = Done(v[i])
  <2>1. i \in 1 .. n /\ \A j \in 1 .. i - 1 : j \in 1 .. m - 1
    BY <1>1
  <2>2. \A j \in 1 .. i - 1 : PortSize(ports[j], TRUE) = 5
    BY <2>1, <1>3
  <2>3. GroupValue(in, 5, i, "PortStats") = Done(StatsOf(ports[i]))
    BY <2>1, <2>2, PortGroup
  <2> QED BY <2>1, <2>3
<1>6. Len(W[m - 1]) = 1 + 5 * (m - 1)
  <2>1. m - 1 \in 0 .. Len(ports)
    BY <1>1
  <2>2. Sized(W[m - 1], 5, m - 1)
    BY <2>1, <1>3, PortsLength
  <2> QED BY <2>2 DEF Sized
<1>7. Len(W[m]) = 5 * m - 1 /\ 5 * m - 1 <= Len(in)
  <2>1. PortAt(W[m - 1], W[m], in, ports[m], TRUE)
    BY PortInOutput
  <2>2. Len(W[m]) = Len(W[m - 1]) + 3 /\ Len(W[m - 1]) + 3 <= Len(in)
    BY <2>1, <1>4 DEF PortAt
  <2>3. (1 + 5 * (m - 1)) + 3 = 5 * m - 1
    BY <1>1
  <2> QED BY <2>2, <2>3, <1>6
<1>8. ASSUME NEW c \in 0 .. m, c <= (Len(in) - 1) \div 5 PROVE ReadAfter(in, banners, "PortStats", c, v)
  <2>1. c \in Nat /\ \A i \in 1 .. c : i \in 1 .. m
    BY <1>1
  <2>2. \A i \in 1 .. c : GroupValue(in, linesEach(in), i, "PortStats") = Done(v[i])
    BY <2>1, <1>5
  <2>3. linesEach(in) \in {2, 3, 5} /\ c <= (Len(in) - 1) \div linesEach(in)
    BY <1>8
  <2> QED BY <2>1, <2>2, <2>3, <1>2, EachRead
<1>9. ASSUME NEW c \in 0 .. m, c = (Len(in) - 1) \div 5, c * 5 # Len(in) - 1
      PROVE  parseEach(in, banners, "PortStats") = Error([i \in 1 .. c |-> v[i]])
  <2>1. c <= (Len(in) - 1) \div 5
    BY <1>9, <1>1
  <2>2. ReadAfter(in, banners, "PortStats", c, v)
    BY <2>1, <1>8
  <2> QED BY <2>2, <1>9 DEF ReadAfter
<1>10. CASE m = n
  <2>1. Len(in) = 5 * m - 1
    BY <1>7, <1>10
  <2>2. m - 1 \in 0 .. m /\ m - 1 = (Len(in) - 1) \div 5 /\ (m - 1) * 5 # Len(in) - 1
    BY <2>1, <1>1
  <2>3. parseEach(in, banners, "PortStats") = Error([i \in 1 .. m - 1 |-> v[i]])
    BY <2>2, <1>9
  <2>4. [i \in 1 .. m - 1 |-> v[i]] = [i \in 1 .. m - 1 |-> StatsOf(ports[i])] /\ m - 1 \in 0 .. n
    BY <1>1
  <2> QED BY <2>3, <2>4 DEF DumpPorts, banners
<1>11. CASE m < n
  <2>1. m + 1 \in 1 .. n /\ (m + 1) - 1 = m
    BY <1>1, <1>11
  <2>2. PortAt(W[m], W[m + 1], in, ports[m + 1], TRUE)
    BY <2>1, PortInOutput
  <2>3. PortSize(ports[m + 1], TRUE) \in Nat /\ PortSize(ports[m + 1], TRUE) >= 3
    BY DEF PortSize
  <2>4. in[Len(W[m]) + 3] = DurationLine /\ Len(W[m]) + PortSize(ports[m + 1], TRUE) <= Len(in)
    BY <2>2 DEF PortAt
  <2>5. in[5 * m + 2] = DurationLine /\ 5 * m + 2 <= Len(in)
    <3>1. (5 * m - 1) + 3 = 5 * m + 2
      BY <1>1
    <3> PICK size : size = PortSize(ports[m + 1], TRUE)
      OBVIOUS
    <3>2. (5 * m - 1) + size <= Len(in) /\ size >= 3 /\ size \in Nat
      BY <2>3, <2>4, <1>7
    <3>3. 5 * m + 2 <= Len(in)
      BY <3>2, <1>1, <1>2, OverFive
    <3> QED BY <3>1, <3>3, <2>4, <1>7
  <2>11. Fives(Len(in), m)
    BY <2>5, <1>1, <1>2, FiveLines
  <2>6. m \in 0 .. m /\ m * 5 # Len(in) - 1 /\ m <= (Len(in) - 1) \div 5
    <3>1. m \in 0 .. m
      BY <1>1
    <3> QED BY <3>1, <2>11 DEF Fives
  <2>10. m = (Len(in) - 1) \div 5 \/ m < (Len(in) - 1) \div 5
    BY <2>11 DEF Fives
  <2>7. [i \in 1 .. m |-> v[i]] = [i \in 1 .. m |-> StatsOf(ports[i])] /\ m \in 0 .. n
    BY <1>1
  <2>8. CASE m = (Len(in) - 1) \div 5
    <3>1. parseEach(in, banners, "PortStats") = Error([i \in 1 .. m |-> v[i]])
      BY <2>6, <2>8, <1>9
    <3> QED BY <3>1, <2>7 DEF DumpPorts, banners
  <2>9. CASE m < (Len(in) - 1) \div 5
    <3>1. 5 * ((m + 1) - 1) + 3 <= Len(in) /\ 5 * ((m + 1) - 1) + 2 = 5 * m + 2 /\ m + 1 \in Nat \ {0}
      <4>1. m + 1 \in Nat \ {0}
        BY <1>1
      <4> QED BY <4>1, <2>9, <2>11 DEF Fives
    <3> PICK x, y : x = in[5 * ((m + 1) - 1) + 2] /\ y = in[5 * ((m + 1) - 1) + 3]
      OBVIOUS
    <3>2. GroupRead(in, 5, m + 1, x, y)
      <4>1. 5 \in {2, 3, 5}
        OBVIOUS
      <4> QED BY <4>1, <3>1, <1>2, GroupIs
    <3>3. x = DurationLine
      BY <3>1, <2>5
    <3>4. x.shape # "rx"
      BY <3>3 DEF DurationLine, Line
    <3>5. GroupValue(in, 5, m + 1, "PortStats") = Error(<<>>)
      BY <3>2, <3>4 DEF GroupRead
    <3>6. GroupValue(in, 5, m + 1, "PortStats").end = "error" /\ "error" # "ok"
      BY <3>5 DEF Error
    <3>7. ReadAfter(in, banners, "PortStats", m, v)
      BY <2>6, <1>8
    <3>8. parseEach(in, banners, "PortStats") = [end |-> "error", v |-> [i \in 1 .. m |-> v[i]]]
      BY <3>6, <3>7, <2>9 DEF ReadAfter
    <3>9. parseEach(in, banners, "PortStats") = Error([i \in 1 .. m |-> v[i]])
      BY <3>8 DEF Error
    <3> QED BY <3>9, <2>7 DEF DumpPorts, banners
  <2> QED BY <2>8, <2>9, <2>10
<1>12. m = n \/ m < n
  BY <1>1
<1> QED BY <1>10, <1>11, <1>12

(* Any number of ports, with and without custom statistics, in any order:  *)
(* the statistics of DumpPorts are those that were printed, or there is an *)
(* error (parseEach, ovs/openflow.go; PortStats, ovs/portstats.go).        *)
THEOREM PortsAreExact ==
  ASSUME NEW ports \in Seq(PortRecords), NEW of13 \in BOOLEAN
  PROVE  PortsExact(ports, of13)
<1> DEFINE same == \A i, j \in DOMAIN ports : ports[i].custom = ports[j].custom
           stats(p) == [id |-> p.id, rx |-> Counter(p.rx), tx |-> Counter(p.tx)]
<1> PICK n, want, r : /\ n = Len(ports) /\ want = [i \in 1 .. n |-> StatsOf(ports[i])]
                      /\ r = DumpPorts(PrintPorts(ports, of13))
  OBVIOUS
<1>1. n \in Nat /\ DOMAIN ports = 1 .. n /\ \A i \in 1 .. n : ports[i] \in PortRecords
  BY LenProperties
<1>2. PICK W : PrintPorts(ports, of13) = W[Len(ports)] /\ PrintsPorts(W, ports, of13)
  BY PortsPrinted DEF PrintsPorts
<1> PICK in : in = W[Len(ports)]
  OBVIOUS
<1>3. linesEach(in) = IF ~of13 THEN 2 ELSE IF \E i \in 1 .. n : ports[i].custom THEN 5 ELSE 3
  BY <1>2, PortsLinesEach
<1>4. /\ Done(want).end = "ok" /\ Done(want).v = want
      /\ \A v : Error(v).end = "error" /\ Error(v).v = v
  BY DEF Done, Error
<1>5. \A c \in 0 .. n : IsPrefix([i \in 1 .. c |-> StatsOf(ports[i])], want)
  <2> DEFINE f == [i \in 1 .. n |-> StatsOf(ports[i])]
  <2> DEFINE S == {f[j] : j \in 1 .. n}
  <2>1. \A i \in 1 .. n : f[i] \in S
    OBVIOUS
  <2> HIDE DEF f, S
  <2>2. \A c \in 0 .. n : IsPrefix(Taken(f, c), Taken(f, n))
    BY <2>1, <1>1, FirstOfMany
  <2>3. \A c \in 0 .. n : Taken(f, c) = [i \in 1 .. c |-> StatsOf(ports[i])]
    BY <1>1 DEF f, Taken
  <2>4. Taken(f, n) = want
    BY DEF f, Taken
  <2> QED BY <2>2, <2>3, <2>4
<1>6. (same \/ ~of13) => r = Done(want)
  <2>1. ASSUME same \/ ~of13 PROVE \E k \in {2, 3, 5} : linesEach(in) = k /\ \A j \in 1 .. n : PortSize(ports[j], of13) = k
    <3>1. CASE ~of13
      BY <3>1, <1>3 DEF PortSize
    <3>2. CASE of13 /\ same /\ \E i \in 1 .. n : ports[i].custom
      <4>1. \A j \in 1 .. n : ports[j].custom
        BY <3>2, <1>1
      <4> QED BY <4>1, <3>2, <1>3 DEF PortSize
    <3>3. CASE of13 /\ ~ \E i \in 1 .. n : ports[i].custom
      BY <3>3, <1>3 DEF PortSize
    <3> QED BY <2>1, <3>1, <3>2, <3>3
  <2>2. ASSUME same \/ ~of13 PROVE r = Done(want)
    <3>1. PICK k \in {2, 3, 5} : linesEach(in) = k /\ \A j \in 1 .. n : PortSize(ports[j], of13) = k
      BY <2>1, <2>2
    <3>2. DumpPorts(W[Len(ports)]) = Done([i \in 1 .. Len(ports) |-> StatsOf(ports[i])])
      BY <3>1, <1>2, SamePortsRead
    <3> QED BY <3>2, <1>2
  <2> QED BY <2>2
<1>7. ASSUME ~same, of13 PROVE \E c \in 0 .. n : r = Error([i \in 1 .. c |-> StatsOf(ports[i])])
  <2>0. \A i \in 1 .. n : ports[i].custom \in BOOLEAN
    BY <1>1 DEF PortRecords
  <2>1. (\E i \in 1 .. n : ports[i].custom) /\ (\E i \in 1 .. n : ~ports[i].custom)
    BY <1>1, <1>7, <2>0
  <2> DEFINE bare == {i \in 1 .. n : ~ports[i].custom}
  <2>2. PICK m \in bare : \A i \in bare : m <= i
    <3>1. bare \subseteq Nat /\ bare # {}
      BY <2>1, <1>1
    <3> HIDE DEF bare
    <3> QED BY <3>1, Least
  <2>3. m \in 1 .. Len(ports) /\ ~ports[m].custom /\ \A j \in 1 .. m - 1 : ports[j].custom
    BY <2>2, <1>1
  <2>4. linesEach(W[Len(ports)]) = 5
    BY <2>1, <1>3, <1>7
  <2>5. PrintsPorts(W, ports, TRUE)
    BY <1>2, <1>7
  <2> QED BY <2>3, <2>4, <2>5, <1>2, MixedPortsRead
<1>8. /\ r.end # "panic" /\ (r.end = "ok" <=> (same \/ ~of13))
      /\ IsPrefix(r.v, want) /\ (r.end = "ok" => r.v = want)
  <2> HIDE DEF same
  <2>1. CASE same \/ ~of13
    <3>1. r = Done(want) /\ n \in 0 .. n
      BY <2>1, <1>6, <1>1
    <3>2. IsPrefix(want, want)
      BY <3>1, <1>5
    <3> QED BY <3>1, <3>2, <1>4, <2>1
  <2>2. CASE ~same /\ of13
    <3>1. PICK c \in 0 .. n : r = Error([i \in 1 .. c |-> StatsOf(ports[i])])
      BY <2>2, <1>7
    <3>2. r.end = "error" /\ r.v = [i \in 1 .. c |-> StatsOf(ports[i])]
      BY <3>1, <1>4
    <3>3. IsPrefix(r.v, want)
      BY <3>2, <1>5
    <3> QED BY <3>2, <3>3, <2>2
  <2> QED BY <2>1, <2>2
<1>9. want = [i \in DOMAIN ports |-> stats(ports[i])]
  BY <1>1 DEF StatsOf
<1> QED BY <1>8, <1>9 DEF PortsExact

(* Tables *)

TableRecords == [shape : {"name:", "name_:"}, id : Int, active : Nat, lookup : Nat, matched : Nat]
TableOf(t) == [id |-> t.id, active |-> t.active, lookup |-> t.lookup, matched |-> t.matched]
TableParts(tables) == [i \in DOMAIN tables |-> PrintTable(tables[i])]

LEMMA TableLines ==
    ASSUME NEW t \in TableRecords
    PROVE  LET b == PrintTable(t)
           IN  /\ b \in Seq(Lines) /\ Len(b) = 2
               /\ b[1].shape \in {"name:", "name_:"} /\ b[1].id = t.id /\ b[1].n = t.active
               /\ b[2].shape = "lookup" /\ b[2].id = t.lookup /\ b[2].n = t.matched
<1>1. /\ t.shape \in {"name:", "name_:"} /\ t.id \in Int /\ t.active \in Int
      /\ t.lookup \in Int /\ t.matched \in Int
  BY DEF TableRecords
<1> PICK x, y : /\ x = [shape |-> t.shape, id |-> t.id, n |-> t.active]
                /\ y = [shape |-> "lookup", id |-> t.lookup, n |-> t.matched]
  OBVIOUS
<1>2. PrintTable(t) = <<x, y>>
  BY DEF PrintTable, Line
<1>3. x \in Lines /\ y \in Lines
  BY <1>1 DEF Lines, LineShapes
<1>4. x.shape = t.shape /\ x.id = t.id /\ x.n = t.active
  OBVIOUS
<1>5. y.shape = "lookup" /\ y.id = t.lookup /\ y.n = t.matched
  OBVIOUS
<1>6. <<x, y>> \in Seq(Lines) /\ Len(<<x, y>>) = 2 /\ <<x, y>>[1] = x /\ <<x, y>>[2] = y
  BY <1>3
<1> QED BY <1>1, <1>2, <1>4, <1>5, <1>6

(* Every table is read as it was printed. *)
LEMMA TablesRead ==
    ASSUME NEW tables \in Seq(TableRecords)
    PROVE  parseEach(PrintTables(tables), {"TABLE"}, "Table")
             = Done([i \in 1 .. Len(tables) |-> TableOf(tables[i])])
<1> PICK n, parts, v : /\ n = Len(tables) /\ parts = TableParts(tables)
                       /\ v = [i \in 1 .. n |-> TableOf(tables[i])]
  OBVIOUS
<1>1. n \in Nat /\ DOMAIN tables = 1 .. n /\ \A i \in 1 .. n : tables[i] \in TableRecords
  BY LenProperties
<1>2. Len(parts) = n /\ \A i \in 1 .. n : parts[i] = PrintTable(tables[i])
  BY <1>1 DEF TableParts
<1>3. PrintTables(tables) = Output("TABLE", parts)
  BY DEF PrintTables, TableParts
<1>4. PICK W : /\ Output("TABLE", parts) = W[Len(parts)]
               /\ W[0] = <<Line("TABLE", 0, 0)>>
               /\ \A i \in 1 .. Len(parts) : W[i] = W[i - 1] \o parts[i]
  <2>1. Len(parts) \in Nat
    BY <1>1, <1>2
  <2>2. \E W : OutputSteps(W, "TABLE", parts)
    BY <2>1, PartsPrinted
  <2> QED BY <2>2 DEF OutputSteps
<1> PICK in : in = W[n]
  OBVIOUS
<1>5. Line("TABLE", 0, 0) \in Lines /\ Line("TABLE", 0, 0).shape = "TABLE"
  BY DEF Line, Lines, LineShapes
<1>6. Len(W[0]) = 1 /\ W[0][1].shape = "TABLE" /\ W[0] \in Seq(Lines)
  BY <1>4, <1>5
<1>7. \A i \in 1 .. n : parts[i] \in Seq(Lines) /\ Len(parts[i]) = 2
  BY <1>1, <1>2, TableLines
<1>8. Prints(W, parts, Lines)
  BY <1>1, <1>2, <1>4, <1>6, <1>7 DEF Prints
<1>9. Placed(in, parts, 2, n)
  <2>1. 2 \in {2, 3, 5} /\ n \in 0 .. Len(parts) /\ \A i \in 1 .. n : Len(parts[i]) = 2
    BY <1>1, <1>2, <1>7
  <2>2. Placed(W[n], parts, 2, n)
    BY <2>1, <1>6, <1>8, PartsInPlace
  <2> QED BY <2>2
<1>10. Begins(in, W[0]) /\ in \in Seq(Lines)
  <2>1. 0 \in 0 .. Len(parts) /\ n \in 0 .. Len(parts)
    BY <1>1, <1>2
  <2>2. Begins(W[n], W[0])
    BY <2>1, <1>8, PartsStay
  <2>3. W[n] \in Seq(Lines)
    BY <2>1, <1>8, PartsAreLines
  <2> QED BY <2>2, <2>3
<1>11. /\ Len(in) = 1 + 2 * n
       /\ \A i \in 1 .. n : \A j \in 1 .. 2 : in[2 * (i - 1) + 1 + j] = parts[i][j]
  BY <1>9 DEF Placed
<1>12. in # <<>> /\ Len(in) \in Nat \ {0} /\ in[1].shape = "TABLE"
  <2>1. Len(in) \in Nat \ {0}
    BY <1>1, <1>11
  <2>2. in[1] = W[0][1]
    BY <1>6, <1>10 DEF Begins
  <2>3. in # <<>>
    BY <2>1, <1>10
  <2> QED BY <2>1, <2>2, <2>3, <1>6
<1>13. linesEach(in) = 2
  <2>1. "TABLE" # "PORT_OF13"
    OBVIOUS
  <2> QED BY <2>1, <1>12 DEF linesEach
<1>14. ASSUME NEW i \in 1 .. n PROVE GroupValue(in, 2, i, "Table") = Done(v[i])
  <2> PICK x, y : x = in[2 * (i - 1) + 2] /\ y = in[2 * (i - 1) + 3]
    OBVIOUS
  <2>1. i \in Nat \ {0} /\ i <= n /\ 2 * (i - 1) + 3 <= Len(in)
    BY <1>1, <1>11
  <2>2. 1 \in 1 .. 2 /\ 2 \in 1 .. 2 /\ 2 * (i - 1) + 1 + 1 = 2 * (i - 1) + 2 /\ 2 * (i - 1) + 1 + 2 = 2 * (i - 1) + 3
    BY <2>1
  <2>3. x = parts[i][1] /\ y = parts[i][2]
    BY <2>2, <1>11
  <2> PICK b, t : b = parts[i] /\ t = tables[i]
    OBVIOUS
  <2>4. /\ b[1].shape \in {"name:", "name_:"} /\ b[1].id = t.id /\ b[1].n = t.active
        /\ b[2].shape = "lookup" /\ b[2].id = t.lookup /\ b[2].n = t.matched
    BY <1>1, <1>2, TableLines
  <2>5. GroupRead(in, 2, i, x, y)
    <3>1. 2 \in {2, 3, 5}
      OBVIOUS
    <3>2. GroupRead(in, 2, i, in[2 * (i - 1) + 2], in[2 * (i - 1) + 3])
      BY <3>1, <2>1, <1>10, GroupIs
    <3> QED BY <3>2
  <2>6. GroupValue(in, 2, i, "Table") = Done([id |-> x.id, active |-> x.n, lookup |-> y.id, matched |-> y.n])
    BY <2>3, <2>4, <2>5 DEF GroupRead
  <2>7. [id |-> x.id, active |-> x.n, lookup |-> y.id, matched |-> y.n] = v[i]
    BY <2>3, <2>4 DEF TableOf
  <2> QED BY <2>6, <2>7
<1>15. (Len(in) - 1) \div 2 = n /\ n * 2 = Len(in) - 1
  BY <1>1, <1>11
<1> DEFINE banners == {"TABLE"}
<1>16. in[1].shape \in banners
  BY <1>12
<1> HIDE DEF banners
<1>17. ReadAfter(in, banners, "Table", n, v)
  <2>3. n <= n
    BY <1>1
  <2>1. linesEach(in) \in {2, 3, 5} /\ n <= (Len(in) - 1) \div linesEach(in)
    BY <2>3, <1>13, <1>15
  <2>2. \A i \in 1 .. n : GroupValue(in, linesEach(in), i, "Table") = Done(v[i])
    BY <1>13, <1>14
  <2> QED BY <2>1, <2>2, <1>1, <1>12, <1>16, EachRead
<1>18. parseEach(in, banners, "Table") = Done([i \in 1 .. n |-> v[i]])
  <2>1. n = (Len(in) - 1) \div linesEach(in) /\ ~(n * linesEach(in) # Len(in) - 1)
    BY <1>13, <1>15
  <2> QED BY <2>1, <1>17 DEF ReadAfter
<1>19. [i \in 1 .. n |-> v[i]] = v /\ in = PrintTables(tables)
  BY <1>2, <1>3, <1>4
<1> QED BY <1>18, <1>19 DEF banners

(* The n things that are kept of those in U, in their order: place says    *)
(* which.                                                                  *)
InOrder(place, n, U) ==
    /\ place \in [1 .. n -> U]
    /\ \A i \in U : \E k \in 1 .. n : place[k] = i
    /\ \A k, l \in 1 .. n : k < l => place[k] < place[l]

OneMore(q, place, n, U, i) ==
    InOrder(q, n + 1, U \cup {i}) /\ q[n + 1] = i /\ \A k \in 1 .. n : q[k] = place[k]
HasOneMore(place, n, U, i) == \E q : OneMore(q, place, n, U, i)

LEMMA OneMoreInOrder ==
    ASSUME NEW m \in Nat, NEW U, U \subseteq 1 .. m, NEW n \in Nat, NEW place, InOrder(place, n, U)
    PROVE  HasOneMore(place, n, U, m + 1)
<1> DEFINE V == U \cup {m + 1}
           q == [k \in 1 .. n + 1 |-> IF k = n + 1 THEN m + 1 ELSE place[k]]
<1>1. /\ \A k \in 1 .. n : place[k] \in U
      /\ \A i \in U : \E k \in 1 .. n : place[k] = i
      /\ \A k, l \in 1 .. n : k < l => place[k] < place[l]
  BY DEF InOrder
<1>2. q[n + 1] = m + 1 /\ \A k \in 1 .. n : q[k] = place[k]
  OBVIOUS
<1>3. \A k \in 1 .. n + 1 : k = n + 1 \/ k \in 1 .. n
  OBVIOUS
<1>4. q \in [1 .. n + 1 -> V]
  <2>1. \A k \in 1 .. n + 1 : q[k] \in V
    BY <1>1, <1>2, <1>3
  <2> QED BY <2>1
<1> HIDE DEF q
<1>5. \A i \in V : \E k \in 1 .. n + 1 : q[k] = i
  <2> SUFFICES ASSUME NEW i \in V PROVE \E k \in 1 .. n + 1 : q[k] = i
    OBVIOUS
  <2>1. CASE i = m + 1
    BY <2>1, <1>2
  <2>2. CASE i \in U
    <3>1. PICK k \in 1 .. n : place[k] = i
      BY <2>2, <1>1
    <3>2. k \in 1 .. n + 1
      OBVIOUS
    <3> QED BY <3>1, <3>2, <1>2
  <2> QED BY <2>1, <2>2
<1>6. \A k, l \in 1 .. n + 1 : k < l => q[k] < q[l]
  <2> SUFFICES ASSUME NEW k \in 1 .. n + 1, NEW l \in 1 .. n + 1, k < l PROVE q[k] < q[l]
    OBVIOUS
  <2>1. k \in 1 .. n
    OBVIOUS
  <2>2. CASE l = n + 1
    <3>1. q[k] \in 1 .. m /\ q[l] = m + 1
      BY <2>1, <2>2, <1>1, <1>2
    <3> QED BY <3>1
  <2>3. CASE l \in 1 .. n
    <3>1. place[k] < place[l]
      BY <2>1, <2>3, <1>1
    <3> QED BY <3>1, <2>1, <2>3, <1>2
  <2> QED BY <2>2, <2>3, <1>3
<1>7. InOrder(q, n + 1, V)
  BY <1>4, <1>5, <1>6 DEF InOrder
<1>8. OneMore(q, place, n, U, m + 1)
  BY <1>2, <1>7 DEF OneMore
<1> QED BY <1>8 DEF HasOneMore

(* The tables of v that are kept: place finds them in v. *)
UsedOf(tables, m) == {i \in 1 .. m : tables[i].active + tables[i].lookup + tables[i].matched # 0}
Chosen(w, place, tables, m) ==
    /\ w \in Seq({TableOf(tables[i]) : i \in 1 .. m})
    /\ InOrder(place, Len(w), UsedOf(tables, m))
    /\ \A k \in 1 .. Len(w) : w[k] = TableOf(tables[place[k]])

LEMMA OneMoreChosen ==
    ASSUME NEW tables \in Seq(TableRecords), NEW m \in Nat, m + 1 <= Len(tables),
           NEW w, NEW place, Chosen(w, place, tables, m)
    PROVE  \E q : Chosen(KeepUsed(w, TableOf(tables[m + 1])), q, tables, m + 1)
<1> PICK t : t = tables[m + 1]
  OBVIOUS
<1> DEFINE S == {TableOf(tables[i]) : i \in 1 .. m + 1}
           U == UsedOf(tables, m)
           V == UsedOf(tables, m + 1)
<1>1. Len(tables) \in Nat /\ m + 1 \in 1 .. Len(tables) /\ t \in TableRecords
  <2>1. Len(tables) \in Nat /\ DOMAIN tables = 1 .. Len(tables)
    BY LenProperties
  <2> QED BY <2>1
<1>2. t.active \in Nat /\ t.lookup \in Nat /\ t.matched \in Nat
  BY <1>1 DEF TableRecords
<1>3. w \in Seq(S) /\ Len(w) \in Nat
  <2>1. w \in Seq({TableOf(tables[i]) : i \in 1 .. m}) /\ {TableOf(tables[i]) : i \in 1 .. m} \subseteq S
    BY DEF Chosen
  <2> HIDE DEF S
  <2> QED BY <2>1, LenProperties
<1>4. /\ U \subseteq 1 .. m
      /\ V = IF t.active + t.lookup + t.matched # 0 THEN U \cup {m + 1} ELSE U
  BY DEF UsedOf
<1>5. InOrder(place, Len(w), U) /\ \A k \in 1 .. Len(w) : w[k] = TableOf(tables[place[k]])
  BY DEF Chosen
<1>6. TableOf(t).active = t.active /\ TableOf(t).lookup = t.lookup /\ TableOf(t).matched = t.matched
  BY DEF TableOf
<1>7. TableOf(t) \in S
  OBVIOUS
<1> HIDE DEF U, V
<1>8. CASE t.active = 0 /\ t.lookup = 0 /\ t.matched = 0
  <2>1. KeepUsed(w, TableOf(t)) = w /\ V = U
    BY <1>4, <1>6, <1>8 DEF KeepUsed
  <2>2. Chosen(w, place, tables, m + 1)
    <3> HIDE DEF S
    <3>1. V = UsedOf(tables, m + 1)
      BY DEF V
    <3> QED BY <2>1, <3>1, <1>3, <1>5 DEF Chosen, S
  <2> QED BY <2>1, <2>2
<1>9. CASE ~(t.active = 0 /\ t.lookup = 0 /\ t.matched = 0)
  <2> DEFINE x == Append(w, TableOf(t))
             n == Len(w)
  <2>1. KeepUsed(w, TableOf(t)) = x
    BY <1>6, <1>9 DEF KeepUsed
  <2>2. V = U \cup {m + 1}
    BY <1>2, <1>4, <1>9
  <2>3. x \in Seq(S) /\ Len(x) = n + 1 /\ x[n + 1] = TableOf(t) /\ \A k \in 1 .. n : x[k] = w[k]
    <3> HIDE DEF S
    <3> QED BY <1>3, <1>7, AppendProperties
  <2>8. HasOneMore(place, Len(w), U, m + 1)
    BY <1>3, <1>4, <1>5, OneMoreInOrder
  <2>9. PICK q : OneMore(q, place, Len(w), U, m + 1)
    BY <2>8 DEF HasOneMore
  <2>4. /\ InOrder(q, n + 1, U \cup {m + 1}) /\ q[n + 1] = m + 1
        /\ \A k \in 1 .. n : q[k] = place[k]
    BY <2>9 DEF OneMore
  <2>5. \A k \in 1 .. n + 1 : k = n + 1 \/ k \in 1 .. n
    BY <1>3
  <2> HIDE DEF x, n
  <2>6. \A k \in 1 .. n + 1 : x[k] = TableOf(tables[q[k]])
    <3> SUFFICES ASSUME NEW k \in 1 .. n + 1 PROVE x[k] = TableOf(tables[q[k]])
      OBVIOUS
    <3>1. CASE k = n + 1
      BY <3>1, <2>3, <2>4
    <3>2. CASE k \in 1 .. n
      <4>1. w[k] = TableOf(tables[place[k]])
        BY <3>2, <1>5 DEF n
      <4> QED BY <4>1, <3>2, <2>3, <2>4
    <3> QED BY <3>1, <3>2, <2>5
  <2>7. Chosen(x, q, tables, m + 1)
    <3>1. V = UsedOf(tables, m + 1)
      BY DEF V
    <3>2. x \in Seq({TableOf(tables[i]) : i \in 1 .. m + 1})
      BY <2>3
    <3> HIDE DEF S
    <3> QED BY <3>1, <3>2, <2>2, <2>3, <2>4, <2>6 DEF Chosen
  <2> QED BY <2>1, <2>7
<1> QED BY <1>8, <1>9

CanChoose(w, tables, m) == \E place : Chosen(w, place, tables, m)

LEMMA UsedTablesChosen ==
    ASSUME NEW tables \in Seq(TableRecords), NEW v, v = [i \in 1 .. Len(tables) |-> TableOf(tables[i])]
    PROVE  CanChoose(UsedTables(v), tables, Len(tables))
<1> PICK n : n = Len(tables)
  OBVIOUS
<1>1. n \in Nat
  BY LenProperties
<1>2. Len(v) = n /\ \A i \in 1 .. n : v[i] = TableOf(tables[i])
  BY <1>1
<1>3. PICK W : /\ UsedTables(v) = W[Len(v)] /\ W[0] = <<>>
               /\ \A i \in 1 .. Len(v) : W[i] = KeepUsed(W[i - 1], v[i])
  BY <1>1, <1>2, TablesKept
<1> DEFINE T == {m \in Nat : m <= n => CanChoose(W[m], tables, m)}
<1>4. 0 \in T
  <2>1. UsedOf(tables, 0) = {}
    BY DEF UsedOf
  <2> DEFINE q == [k \in 1 .. 0 |-> k]
  <2>2. q \in [1 .. 0 -> UsedOf(tables, 0)]
    OBVIOUS
  <2> HIDE DEF q
  <2>3. W[0] = <<>> /\ Len(W[0]) = 0 /\ \A k \in 1 .. 0 : FALSE
    BY <1>3
  <2>5. \A Q : <<>> \in Seq(Q)
    OBVIOUS
  <2>4. Chosen(W[0], q, tables, 0)
    BY <2>1, <2>2, <2>3, <2>5 DEF Chosen, InOrder
  <2>6. CanChoose(W[0], tables, 0)
    BY <2>4 DEF CanChoose
  <2> QED BY <2>6
<1>5. \A m \in Nat : m \in T => m + 1 \in T
  <2> SUFFICES ASSUME NEW m \in Nat, m \in T, m + 1 <= n
               PROVE  CanChoose(W[m + 1], tables, m + 1)
    OBVIOUS
  <2>1. m <= n /\ m + 1 \in 1 .. n /\ (m + 1) - 1 = m
    BY <1>1
  <2>2. PICK place : Chosen(W[m], place, tables, m)
    BY <2>1 DEF CanChoose
  <2>3. W[m + 1] = KeepUsed(W[m], TableOf(tables[m + 1]))
    BY <2>1, <1>2, <1>3
  <2>4. \E q : Chosen(KeepUsed(W[m], TableOf(tables[m + 1])), q, tables, m + 1)
    BY <2>2, OneMoreChosen
  <2> QED BY <2>3, <2>4 DEF CanChoose
<1>6. Nat \subseteq T
  <2> HIDE DEF T
  <2> QED BY <1>4, <1>5, Induction
<1> QED BY <1>1, <1>2, <1>3, <1>6

(* Any number of tables, with either spelling of a name: those in use are  *)
(* returned, in their order and with their own counters (DumpTables,       *)
(* ovs/openflow.go; Table, ovs/table.go).                                  *)
THEOREM TablesAreExact ==
  ASSUME NEW tables \in Seq(TableRecords)
  PROVE  TablesExact(tables)
<1> DEFINE stats(t) == [id |-> t.id, active |-> t.active, lookup |-> t.lookup, matched |-> t.matched]
           used == {i \in DOMAIN tables : tables[i].active + tables[i].lookup + tables[i].matched # 0}
<1> PICK n, v, r : /\ n = Len(tables) /\ v = [i \in 1 .. Len(tables) |-> TableOf(tables[i])]
                   /\ r = DumpTables(PrintTables(tables))
  OBVIOUS
<1>1. DOMAIN tables = 1 .. n
  BY LenProperties
<1>2. parseEach(PrintTables(tables), {"TABLE"}, "Table") = Done(v)
  BY TablesRead
<1>3. r.end = "ok" /\ r.v = UsedTables(v)
  <2>1. Done(v) = [end |-> "ok", v |-> v]
    BY DEF Done
  <2>2. DumpTables(PrintTables(tables)) = [Done(v) EXCEPT !.v = UsedTables(@)]
    BY <1>2 DEF DumpTables
  <2> QED BY <2>1, <2>2
<1>4. PICK place : Chosen(r.v, place, tables, n)
  BY <1>3, UsedTablesChosen DEF CanChoose
<1>5. DOMAIN r.v = 1 .. Len(r.v)
  BY <1>4, LenProperties DEF Chosen
<1>6. used = UsedOf(tables, n)
  BY <1>1 DEF UsedOf
<1>7. \A t : TableOf(t) = stats(t)
  BY DEF TableOf
<1> HIDE DEF used, stats
<1>8. /\ place \in [DOMAIN r.v -> used]
      /\ \A i \in used : \E k \in DOMAIN r.v : place[k] = i
      /\ \A k, l \in DOMAIN r.v : k < l => place[k] < place[l]
      /\ \A k \in DOMAIN r.v : r.v[k] = stats(tables[place[k]])
  BY <1>4, <1>5, <1>6, <1>7 DEF Chosen, InOrder
<1> QED BY <1>3, <1>8 DEF TablesExact, used, stats

(* The totals of dump-aggregate. *)
THEOREM AggregatesAreExact ==
  ASSUME NEW S, NEW words \in Seq(S)
  PROVE  AggregateExact(words)
<1> DEFINE from == {i \in DOMAIN words : words[i].key = "packet_count"}
           last == SubSeq(words, Min(from), Len(words))
           names == [i \in DOMAIN last |-> last[i].key]
<1> PICK n, r : n = Len(words) /\ r = UnmarshalFlowStats(words)
  OBVIOUS
<1>1. n \in Nat /\ DOMAIN words = 1 .. n
  BY LenProperties
<1>2. r = IF from = {} THEN Error(<<>>)
          ELSE IF names # <<"packet_count", "byte_count", "flow_count">> THEN Error(<<>>)
          ELSE Done(<<last[1].n, last[2].n>>)
  BY Zenon DEF UnmarshalFlowStats
<1>3. \A v : Error(v).end = "error" /\ Done(v).end = "ok" /\ Done(v).v = v
  BY DEF Error, Done
<1> HIDE DEF names, last, from
<1> SUFFICES ASSUME r.end = "ok"
             PROVE  /\ words[n - 2].key = "packet_count" /\ r.v[1] = words[n - 2].n
                    /\ words[n - 1].key = "byte_count" /\ r.v[2] = words[n - 1].n
  BY DEF AggregateExact
<1>4. /\ from # {} /\ names = <<"packet_count", "byte_count", "flow_count">>
      /\ r = Done(<<last[1].n, last[2].n>>)
  <2>1. Error(<<>>).end # "ok"
    BY <1>3
  <2> QED BY <2>1, <1>2
<1>5. PICK m \in from : \A i \in from : m <= i
  <2>1. from \subseteq Nat
    BY <1>1 DEF from
  <2> QED BY <2>1, <1>4, Least
<1>6. m \in 1 .. n /\ words[m].key = "packet_count"
  BY <1>1 DEF from
<1>7. Min(from) = m
  <2>1. \A i \in from : i \in Int
    BY <1>1 DEF from
  <2>2. \A x \in from : (\A y \in from : x <= y) => x = m
    BY <2>1, <1>5
  <2>3. \E x \in from : \A y \in from : x <= y
    BY <1>5
  <2> QED BY <2>2, <2>3 DEF Min
<1>8. /\ last \in Seq(S) /\ Len(last) = (n - m) + 1
      /\ \A i \in 1 .. (n - m) + 1 : last[i] = words[m + i - 1]
  <2>1. last = SubSeq(words, m, n)
    BY <1>7 DEF last
  <2>2. m \in 1 .. Len(words) + 1 /\ n \in m - 1 .. Len(words)
    BY <1>1, <1>6
  <2> QED BY <2>1, <2>2, SubSeqProperties
<1>9. DOMAIN last = 1 .. (n - m) + 1
  BY <1>8, LenProperties
<1>10. DOMAIN names = 1 .. 3 /\ names[1] = "packet_count" /\ names[2] = "byte_count"
  BY <1>4
<1>11. DOMAIN names = DOMAIN last /\ \A i \in DOMAIN last : names[i] = last[i].key
  BY DEF names
<1>12. (n - m) + 1 = 3
  <2>1. 1 .. (n - m) + 1 = 1 .. 3
    BY <1>9, <1>10, <1>11
  <2>2. \A d \in Nat \ {0} : (\A i \in Nat : i \in 1 .. d <=> i \in 1 .. 3) => d = 3
    <3> SUFFICES ASSUME NEW d \in Nat \ {0}, \A i \in Nat : i \in 1 .. d <=> i \in 1 .. 3 PROVE d = 3
      OBVIOUS
    <3>1. d \in 1 .. d /\ 3 \in 1 .. 3
      OBVIOUS
    <3>2. d \in 1 .. 3 /\ 3 \in 1 .. d
      BY <3>1
    <3> QED BY <3>2
  <2>3. (n - m) + 1 \in Nat \ {0}
    BY <1>1, <1>6
  <2> QED BY <2>1, <2>2, <2>3
<1>13. m + 1 - 1 = n - 2 /\ m + 2 - 1 = n - 1 /\ 1 \in 1 .. (n - m) + 1 /\ 2 \in 1 .. (n - m) + 1
  BY <1>1, <1>6, <1>12
<1>14. last[1] = words[n - 2] /\ last[2] = words[n - 1]
  BY <1>8, <1>13
<1>15. last[1].key = "packet_count" /\ last[2].key = "byte_count"
  BY <1>9, <1>10, <1>11, <1>13
<1>16. r.v[1] = last[1].n /\ r.v[2] = last[2].n
  BY <1>3, <1>4
<1> QED BY <1>14, <1>15, <1>16
=============================================================================
