--------------------------- MODULE Commands_proofs ---------------------------
(***************************************************************************)
(* Proofs about the commands of package ovs together (MCCommands): that    *)
(* MaskedPorts selects each port of a range once, that a trace is read as  *)
(* it was printed, that the inputs of MCCommands are such as these         *)
(* theorems and those of Parsers_proofs and RangesAndDumps_proofs speak    *)
(* of, and that the commands compose the services.                         *)
(***************************************************************************)
EXTENDS MCCommands, Parsers_proofs, RangesAndDumps_proofs

-----------------------------------------------------------------------------
(* Ranges of ports *)

(* The matches that MaskedPorts returns, once printed, select each port of *)
(* the range exactly once and no other port, in ascending order, and there *)
(* are at most twice as many as a port has bits; only an empty range or    *)
(* one with port zero is an error (ovs/portrange.go, ovs/match.go).        *)
THEOREM RangeIsExact ==
  ASSUME NEW kind \in DOMAIN PortKey, NEW start \in Ports, NEW end \in Ports
  PROVE  RangeExact(kind, start, end)
<1> PICK ranges : ranges = BitwiseMatch[<<start, end>>]
  OBVIOUS
<1> PICK v : v = ranges.v
  OBVIOUS
<1>1. IF start = 0 \/ start > end THEN ~ranges.ok
      ELSE ranges.ok /\ InRow(v, start, end) /\ Len(v) <= 2 * PortBits
  BY RangesAreCut
<1> DEFINE matches == [i \in DOMAIN v |-> MaskMatch(kind, v[i].value, v[i].mask)]
<1>2. MaskedPorts(kind, start, end) = IF ~ranges.ok THEN Fail ELSE Ok(matches)
  BY DEF MaskedPorts
<1>3. CASE start = 0 \/ start > end
  <2>1. ~MaskedPorts(kind, start, end).ok
    BY <1>1, <1>2, <1>3 DEF Fail
  <2> QED BY <1>3, <2>1 DEF RangeExact
<1>4. CASE ~(start = 0 \/ start > end)
  <2>1. ranges.ok /\ InRow(v, start, end) /\ Len(v) <= 2 * PortBits
    BY <1>1, <1>4
  <2>2. v \in Seq(Blocks) /\ Len(v) \in Nat /\ DOMAIN v = 1 .. Len(v)
    <3>1. v \in Seq(Blocks)
      BY <2>1 DEF InRow
    <3> QED BY <3>1, LenProperties
  <2> PICK r : r = MaskedPorts(kind, start, end)
    OBVIOUS
  <2>3. r.ok /\ r.v = matches
    BY <1>2, <2>1, OkFields
  <2>4. DOMAIN r.v = 1 .. Len(v) /\ Len(r.v) = Len(v)
    <3>1. matches = [i \in 1 .. Len(v) |-> MaskMatch(kind, v[i].value, v[i].mask)]
      BY <2>2
    <3>2. DOMAIN matches = 1 .. Len(v) /\ Len(matches) = Len(v)
      BY <2>2, <3>1
    <3> QED BY <2>3, <3>2
  <2>5. ASSUME NEW i \in 1 .. Len(v)
        PROVE  MarshalMatch(r.v[i]).v = Field(PortKey[kind], portText(v[i].value, v[i].mask))
    <3> PICK m : m = MaskMatch(kind, v[i].value, v[i].mask)
      OBVIOUS
    <3>1. r.v[i] = m
      BY <2>2, <2>3
    <3>2. m.kind = kind /\ m.a = v[i].value /\ m.b = v[i].mask
      BY MaskFields
    <3>3. MarshalMatch(m) = Ok(Field(PortKey[kind], portText(v[i].value, v[i].mask)))
      BY <3>2, Printer, ZenonT(30)
    <3> QED BY <3>1, <3>3, OkFields
  <2> DEFINE text(i) == MarshalMatch(r.v[i]).v
             sel(i) == Selected(text(i).val)
  <2>6. \A i \in 1 .. Len(v) :
           text(i).key = PortKey[kind] /\ text(i).val = portText(v[i].value, v[i].mask)
    <3> SUFFICES ASSUME NEW i \in 1 .. Len(v)
                 PROVE text(i).key = PortKey[kind] /\ text(i).val = portText(v[i].value, v[i].mask)
      OBVIOUS
    <3>1. text(i) = Field(PortKey[kind], portText(v[i].value, v[i].mask))
      BY <2>5
    <3> HIDE DEF text
    <3>2. \A k, t : Field(k, t).key = k /\ Field(k, t).val = t
      BY DEF Field
    <3> QED BY <3>1, <3>2
  <2> HIDE DEF text
  <2> PICK f : f = [i \in 1 .. Len(v) |-> sel(i)]
    OBVIOUS
  <2>7. \A i \in 1 .. Len(v) : f[i] = sel(i)
    OBVIOUS
  <2>8. \A i \in 1 .. Len(v) : f[i] = Selected(portText(v[i].value, v[i].mask))
    BY <2>6, <2>7
  <2>9. start \in Nat /\ end \in Nat
    BY WidthAssumption DEF Ports
  <2>10. /\ UNION {f[i] : i \in 1 .. Len(v)} = start .. end
         /\ \A i, j \in 1 .. Len(v) : i < j => \A p \in f[i], q \in f[j] : p < q
    <3> HIDE DEF sel
    <3>1. InRow(v, start, end) /\ SelectedBy(v, f)
      BY <2>1, <2>8 DEF SelectedBy
    <3>2. OnceEach(f, Len(v), start, end)
      BY <3>1, <2>9, RowSelects
    <3> QED BY <3>2 DEF OnceEach
  <2> HIDE DEF sel
  <2>11. {f[i] : i \in 1 .. Len(v)} = {sel(i) : i \in 1 .. Len(v)}
    BY <2>7
  <2>12. UNION {sel(i) : i \in DOMAIN r.v} = start .. end
    BY <2>4, <2>10, <2>11
  <2>13. \A i, j \in DOMAIN r.v : i < j => \A p \in sel(i), q \in sel(j) : p < q
    BY <2>4, <2>7, <2>10
  <2>14. \A i \in DOMAIN r.v : text(i).key = PortKey[kind]
    BY <2>4, <2>6
  <2>15. Len(r.v) <= 2 * PortBits
    BY <2>1, <2>4
  <2> DEFINE Exact(x) ==
               IF ~x.ok THEN start = 0 \/ start > end
               ELSE /\ UNION {Selected(MarshalMatch(x.v[i]).v.val) : i \in DOMAIN x.v} = start .. end
                    /\ \A i \in DOMAIN x.v : MarshalMatch(x.v[i]).v.key = PortKey[kind]
                    /\ \A i, j \in DOMAIN x.v : i < j =>
                          \A p \in Selected(MarshalMatch(x.v[i]).v.val), q \in Selected(MarshalMatch(x.v[j]).v.val) : p < q
                    /\ Len(x.v) <= 2 * PortBits
  <2>16. Exact(r)
    BY <2>3, <2>12, <2>13, <2>14, <2>15 DEF sel, text
  <2>17. Exact(MaskedPorts(kind, start, end)) <=> RangeExact(kind, start, end)
    BY DEF RangeExact
  <2> HIDE DEF Exact
  <2> QED BY <2>16, <2>17
<1> QED
  BY <1>3, <1>4

-----------------------------------------------------------------------------
(* Traces: the fields of a flow *)

(* The loop over the fields of a flow as a sequence of steps. *)
LEMMA TraceFieldsRead ==
    ASSUME NEW fields, Len(fields) \in Nat
    PROVE  \E W : /\ UnmarshalDataPathFlows(fields) = W[Len(fields)]
                  /\ W[0] = Ok(NewDataPathFlows)
                  /\ \A i \in 1 .. Len(fields) : W[i] = ReadField(W[i - 1], fields[i])
<1> DEFINE n == Len(fields)
           Start == Ok(NewDataPathFlows)
           Step(r, i) == ReadField(r, fields[i])
           F(f) == [i \in 0 .. n |-> IF i = 0 THEN Start ELSE Step(f[i - 1], i)]
           Upto(W, m) == /\ W[0] = Start
                         /\ \A i \in 1 .. m : W[i] = Step(W[i - 1], i)
           S == {m \in Nat : \E W : Upto(W, m)}
<1> HIDE DEF Step, Start
<1>1. 0 \in S
  <2>1. Upto([i \in 0 .. 0 |-> Start], 0)
    OBVIOUS
  <2> HIDE DEF Upto
  <2> QED BY <2>1
<1>2. \A m \in Nat : m \in S => m + 1 \in S
  <2> SUFFICES ASSUME NEW m \in Nat, m \in S PROVE \E W : Upto(W, m + 1)
    <3> HIDE DEF Upto
    <3> QED OBVIOUS
  <2>1. PICK W : Upto(W, m)
    <3> HIDE DEF Upto
    <3> QED OBVIOUS
  <2> DEFINE V == [i \in 0 .. m + 1 |-> IF i = m + 1 THEN Step(W[m], i) ELSE W[i]]
  <2>2. /\ \A i \in 0 .. m : V[i] = W[i]
        /\ V[m + 1] = Step(W[m], m + 1)
    OBVIOUS
  <2> HIDE DEF V
  <2>3. ASSUME NEW i \in 1 .. m + 1 PROVE V[i] = Step(V[i - 1], i)
    <3>1. CASE i = m + 1
      <4>1. i - 1 = m /\ V[m] = W[m]
        BY <3>1, <2>2
      <4> QED BY <3>1, <4>1, <2>2
    <3>2. CASE i \in 1 .. m
      <4>1. V[i] = W[i] /\ V[i - 1] = W[i - 1]
        BY <3>2, <2>2
      <4> QED BY <3>2, <4>1, <2>1
    <3> QED BY <3>1, <3>2
  <2>4. V[0] = Start
    BY <2>1, <2>2
  <2> QED BY <2>3, <2>4
<1>3. Nat \subseteq S
  <2> HIDE DEF S
  <2> QED BY <1>1, <1>2, Induction
<1>4. PICK W : Upto(W, n)
  BY <1>3
<1> DEFINE V == [i \in 0 .. n |-> W[i]]
           loop == CHOOSE f : f = F(f)
<1>5. V = F(V)
  <2>1. \A i \in 0 .. n : V[i] = IF i = 0 THEN Start ELSE Step(V[i - 1], i)
    <3> SUFFICES ASSUME NEW i \in 0 .. n PROVE V[i] = IF i = 0 THEN Start ELSE Step(V[i - 1], i)
      OBVIOUS
    <3>1. CASE i = 0
      BY <3>1, <1>4
    <3>2. CASE i \in 1 .. n
      <4>1. i - 1 \in 0 .. n /\ i # 0
        BY <3>2
      <4>2. V[i] = W[i] /\ V[i - 1] = W[i - 1]
        BY <4>1
      <4> QED BY <3>2, <4>1, <4>2, <1>4
    <3> QED BY <3>1, <3>2
  <2>2. V = [i \in 0 .. n |-> V[i]]
    OBVIOUS
  <2> HIDE DEF V
  <2> QED BY <2>1, <2>2
<1>6. loop = F(loop)
  <2> HIDE DEF F, V
  <2> QED BY <1>5, Zenon
<1>7. \A i \in 0 .. n : loop[i] = IF i = 0 THEN Start ELSE Step(loop[i - 1], i)
  <2> HIDE DEF loop
  <2> QED BY <1>6, Zenon
<1>8. UnmarshalDataPathFlows(fields) = loop[n]
  BY Zenon DEF UnmarshalDataPathFlows, Step, Start
<1> HIDE DEF loop, F
<1>9. loop[0] = Start /\ \A i \in 1 .. n : loop[i] = Step(loop[i - 1], i)
  BY <1>7
<1> QED BY <1>8, <1>9 DEF Step, Start

(* The loop over the lines of a trace as a sequence of steps. *)
LEMMA TraceLinesRead ==
    ASSUME NEW text, Len(text) \in Nat
    PROVE  \E W : /\ UnmarshalProtoTrace(text) = W[Len(text)]
                  /\ W[0] = Ok(NewProtoTrace)
                  /\ \A i \in 1 .. Len(text) : W[i] = ReadTrace(W[i - 1], text[i])
<1> DEFINE n == Len(text)
           Start == Ok(NewProtoTrace)
           Step(r, i) == ReadTrace(r, text[i])
           F(f) == [i \in 0 .. n |-> IF i = 0 THEN Start ELSE Step(f[i - 1], i)]
           Upto(W, m) == /\ W[0] = Start
                         /\ \A i \in 1 .. m : W[i] = Step(W[i - 1], i)
           S == {m \in Nat : \E W : Upto(W, m)}
<1> HIDE DEF Step, Start
<1>1. 0 \in S
  <2>1. Upto([i \in 0 .. 0 |-> Start], 0)
    OBVIOUS
  <2> HIDE DEF Upto
  <2> QED BY <2>1
<1>2. \A m \in Nat : m \in S => m + 1 \in S
  <2> SUFFICES ASSUME NEW m \in Nat, m \in S PROVE \E W : Upto(W, m + 1)
    <3> HIDE DEF Upto
    <3> QED OBVIOUS
  <2>1. PICK W : Upto(W, m)
    <3> HIDE DEF Upto
    <3> QED OBVIOUS
  <2> DEFINE V == [i \in 0 .. m + 1 |-> IF i = m + 1 THEN Step(W[m], i) ELSE W[i]]
  <2>2. /\ \A i \in 0 .. m : V[i] = W[i]
        /\ V[m + 1] = Step(W[m], m + 1)
    OBVIOUS
  <2> HIDE DEF V
  <2>3. ASSUME NEW i \in 1 .. m + 1 PROVE V[i] = Step(V[i - 1], i)
    <3>1. CASE i = m + 1
      <4>1. i - 1 = m /\ V[m] = W[m]
        BY <3>1, <2>2
      <4> QED BY <3>1, <4>1, <2>2
    <3>2. CASE i \in 1 .. m
      <4>1. V[i] = W[i] /\ V[i - 1] = W[i - 1]
        BY <3>2, <2>2
      <4> QED BY <3>2, <4>1, <2>1
    <3> QED BY <3>1, <3>2
  <2>4. V[0] = Start
    BY <2>1, <2>2
  <2> QED BY <2>3, <2>4
<1>3. Nat \subseteq S
  <2> HIDE DEF S
  <2> QED BY <1>1, <1>2, Induction
<1>4. PICK W : Upto(W, n)
  BY <1>3
<1> DEFINE V == [i \in 0 .. n |-> W[i]]
           loop == CHOOSE f : f = F(f)
<1>5. V = F(V)
  <2>1. \A i \in 0 .. n : V[i] = IF i = 0 THEN Start ELSE Step(V[i - 1], i)
    <3> SUFFICES ASSUME NEW i \in 0 .. n PROVE V[i] = IF i = 0 THEN Start ELSE Step(V[i - 1], i)
      OBVIOUS
    <3>1. CASE i = 0
      BY <3>1, <1>4
    <3>2. CASE i \in 1 .. n
      <4>1. i - 1 \in 0 .. n /\ i # 0
        BY <3>2
      <4>2. V[i] = W[i] /\ V[i - 1] = W[i - 1]
        BY <4>1
      <4> QED BY <3>2, <4>1, <4>2, <1>4
    <3> QED BY <3>1, <3>2
  <2>2. V = [i \in 0 .. n |-> V[i]]
    OBVIOUS
  <2> HIDE DEF V
  <2> QED BY <2>1, <2>2
<1>6. loop = F(loop)
  <2> HIDE DEF F, V
  <2> QED BY <1>5, Zenon
<1>7. \A i \in 0 .. n : loop[i] = IF i = 0 THEN Start ELSE Step(loop[i - 1], i)
  <2> HIDE DEF loop
  <2> QED BY <1>6, Zenon
<1>8. UnmarshalProtoTrace(text) = loop[n]
  BY Zenon DEF UnmarshalProtoTrace, Step, Start
<1> HIDE DEF loop, F
<1>9. loop[0] = Start /\ \A i \in 1 .. n : loop[i] = Step(loop[i - 1], i)
  BY <1>7
<1> QED BY <1>8, <1>9 DEF Step, Start

(* The passes are printed one after another. *)
LEMMA PassesPrinted ==
    ASSUME NEW passes, Len(passes) \in Nat
    PROVE  \E W : /\ PrintTrace(passes) = W[Len(passes)]
                  /\ W[0] = <<>>
                  /\ \A i \in 1 .. Len(passes) : W[i] = W[i - 1] \o PrintPass(passes[i], i < Len(passes))
<1> DEFINE n == Len(passes)
           Start == <<>>
           Step(r, i) == r \o PrintPass(passes[i], i < Len(passes))
           F(f) == [i \in 0 .. n |-> IF i = 0 THEN Start ELSE Step(f[i - 1], i)]
           Upto(W, m) == /\ W[0] = Start
                         /\ \A i \in 1 .. m : W[i] = Step(W[i - 1], i)
           S == {m \in Nat : \E W : Upto(W, m)}
<1> HIDE DEF Step, Start
<1>1. 0 \in S
  <2>1. Upto([i \in 0 .. 0 |-> Start], 0)
    OBVIOUS
  <2> HIDE DEF Upto
  <2> QED BY <2>1
<1>2. \A m \in Nat : m \in S => m + 1 \in S
  <2> SUFFICES ASSUME NEW m \in Nat, m \in S PROVE \E W : Upto(W, m + 1)
    <3> HIDE DEF Upto
    <3> QED OBVIOUS
  <2>1. PICK W : Upto(W, m)
    <3> HIDE DEF Upto
    <3> QED OBVIOUS
  <2> DEFINE V == [i \in 0 .. m + 1 |-> IF i = m + 1 THEN Step(W[m], i) ELSE W[i]]
  <2>2. /\ \A i \in 0 .. m : V[i] = W[i]
        /\ V[m + 1] = Step(W[m], m + 1)
    OBVIOUS
  <2> HIDE DEF V
  <2>3. ASSUME NEW i \in 1 .. m + 1 PROVE V[i] = Step(V[i - 1], i)
    <3>1. CASE i = m + 1
      <4>1. i - 1 = m /\ V[m] = W[m]
        BY <3>1, <2>2
      <4> QED BY <3>1, <4>1, <2>2
    <3>2. CASE i \in 1 .. m
      <4>1. V[i] = W[i] /\ V[i - 1] = W[i - 1]
        BY <3>2, <2>2
      <4> QED BY <3>2, <4>1, <2>1
    <3> QED BY <3>1, <3>2
  <2>4. V[0] = Start
    BY <2>1, <2>2
  <2> QED BY <2>3, <2>4
<1>3. Nat \subseteq S
  <2> HIDE DEF S
  <2> QED BY <1>1, <1>2, Induction
<1>4. PICK W : Upto(W, n)
  BY <1>3
<1> DEFINE V == [i \in 0 .. n |-> W[i]]
           loop == CHOOSE f : f = F(f)
<1>5. V = F(V)
  <2>1. \A i \in 0 .. n : V[i] = IF i = 0 THEN Start ELSE Step(V[i - 1], i)
    <3> SUFFICES ASSUME NEW i \in 0 .. n PROVE V[i] = IF i = 0 THEN Start ELSE Step(V[i - 1], i)
      OBVIOUS
    <3>1. CASE i = 0
      BY <3>1, <1>4
    <3>2. CASE i \in 1 .. n
      <4>1. i - 1 \in 0 .. n /\ i # 0
        BY <3>2
      <4>2. V[i] = W[i] /\ V[i - 1] = W[i - 1]
        BY <4>1
      <4> QED BY <3>2, <4>1, <4>2, <1>4
    <3> QED BY <3>1, <3>2
  <2>2. V = [i \in 0 .. n |-> V[i]]
    OBVIOUS
  <2> HIDE DEF V
  <2> QED BY <2>1, <2>2
<1>6. loop = F(loop)
  <2> HIDE DEF F, V
  <2> QED BY <1>5, Zenon
<1>7. \A i \in 0 .. n : loop[i] = IF i = 0 THEN Start ELSE Step(loop[i - 1], i)
  <2> HIDE DEF loop
  <2> QED BY <1>6, Zenon
<1>8. PrintTrace(passes) = loop[n]
  BY Zenon DEF PrintTrace, Step, Start
<1> HIDE DEF loop, F
<1>9. loop[0] = Start /\ \A i \in 1 .. n : loop[i] = Step(loop[i - 1], i)
  BY <1>7
<1> QED BY <1>8, <1>9 DEF Step, Start

(* The actions of all passes as they are put together. *)
LEMMA ActionsCollected ==
    ASSUME NEW passes, Len(passes) \in Nat
    PROVE  \E W : /\ AllActions(passes) = W[Len(passes)]
                  /\ W[0] = <<>>
                  /\ \A i \in 1 .. Len(passes) : W[i] = W[i - 1] \o Append(passes[i].acts, Recirc)
<1> DEFINE n == Len(passes)
           Start == <<>>
           Step(r, i) == r \o Append(passes[i].acts, Recirc)
           F(f) == [i \in 0 .. n |-> IF i = 0 THEN Start ELSE Step(f[i - 1], i)]
           Upto(W, m) == /\ W[0] = Start
                         /\ \A i \in 1 .. m : W[i] = Step(W[i - 1], i)
           S == {m \in Nat : \E W : Upto(W, m)}
<1> HIDE DEF Step, Start
<1>1. 0 \in S
  <2>1. Upto([i \in 0 .. 0 |-> Start], 0)
    OBVIOUS
  <2> HIDE DEF Upto
  <2> QED BY <2>1
<1>2. \A m \in Nat : m \in S => m + 1 \in S
  <2> SUFFICES ASSUME NEW m \in Nat, m \in S PROVE \E W : Upto(W, m + 1)
    <3> HIDE DEF Upto
    <3> QED OBVIOUS
  <2>1. PICK W : Upto(W, m)
    <3> HIDE DEF Upto
    <3> QED OBVIOUS
  <2> DEFINE V == [i \in 0 .. m + 1 |-> IF i = m + 1 THEN Step(W[m], i) ELSE W[i]]
  <2>2. /\ \A i \in 0 .. m : V[i] = W[i]
        /\ V[m + 1] = Step(W[m], m + 1)
    OBVIOUS
  <2> HIDE DEF V
  <2>3. ASSUME NEW i \in 1 .. m + 1 PROVE V[i] = Step(V[i - 1], i)
    <3>1. CASE i = m + 1
      <4>1. i - 1 = m /\ V[m] = W[m]
        BY <3>1, <2>2
      <4> QED BY <3>1, <4>1, <2>2
    <3>2. CASE i \in 1 .. m
      <4>1. V[i] = W[i] /\ V[i - 1] = W[i - 1]
        BY <3>2, <2>2
      <4> QED BY <3>2, <4>1, <2>1
    <3> QED BY <3>1, <3>2
  <2>4. V[0] = Start
    BY <2>1, <2>2
  <2> QED BY <2>3, <2>4
<1>3. Nat \subseteq S
  <2> HIDE DEF S
  <2> QED BY <1>1, <1>2, Induction
<1>4. PICK W : Upto(W, n)
  BY <1>3
<1> DEFINE V == [i \in 0 .. n |-> W[i]]
           loop == CHOOSE f : f = F(f)
<1>5. V = F(V)
  <2>1. \A i \in 0 .. n : V[i] = IF i = 0 THEN Start ELSE Step(V[i - 1], i)
    <3> SUFFICES ASSUME NEW i \in 0 .. n PROVE V[i] = IF i = 0 THEN Start ELSE Step(V[i - 1], i)
      OBVIOUS
    <3>1. CASE i = 0
      BY <3>1, <1>4
    <3>2. CASE i \in 1 .. n
      <4>1. i - 1 \in 0 .. n /\ i # 0
        BY <3>2
      <4>2. V[i] = W[i] /\ V[i - 1] = W[i - 1]
        BY <4>1
      <4> QED BY <3>2, <4>1, <4>2, <1>4
    <3> QED BY <3>1, <3>2
  <2>2. V = [i \in 0 .. n |-> V[i]]
    OBVIOUS
  <2> HIDE DEF V
  <2> QED BY <2>1, <2>2
<1>6. loop = F(loop)
  <2> HIDE DEF F, V
  <2> QED BY <1>5, Zenon
<1>7. \A i \in 0 .. n : loop[i] = IF i = 0 THEN Start ELSE Step(loop[i - 1], i)
  <2> HIDE DEF loop
  <2> QED BY <1>6, Zenon
<1>8. AllActions(passes) = loop[n]
  BY Zenon DEF AllActions, Step, Start
<1> HIDE DEF loop, F
<1>9. loop[0] = Start /\ \A i \in 1 .. n : loop[i] = Step(loop[i - 1], i)
  BY <1>7
<1> QED BY <1>8, <1>9 DEF Step, Start

(* What a flow of a trace is read as so far: the name of a protocol, and   *)
(* matches.                                                                *)
FlowSoFar(p, ms) == [Protocol |-> p, Matches |-> ms]

(* The match of a field, where it has one. *)
IsLocal(f) == f.key = "in_port" /\ f.val = <<Word("LOCAL")>>
MatchOf(f) == IF IsLocal(f) THEN NumMatch("InPortMatch", localPort) ELSE parseMatch(f.key, f.val).v
Known(f) ==
    /\ f.val # <<>> /\ f.key # "recirc_id"
    /\ parseMatch(f.key, f.val).ok => parseMatch(f.key, f.val).v # NoMatch
Understood(f) == f.val # <<>> /\ f.key # "recirc_id" => IsLocal(f) \/ parseMatch(f.key, f.val).ok
Names(f) == f.val = <<>> /\ f.key \in TraceProtocols

(* in_port=LOCAL is no number: without the exception it would be an error. *)
LEMMA LocalIsKnown == ASSUME NEW f, IsLocal(f) PROVE Known(f)
<1> PICK v : v = f.val
  OBVIOUS
<1>1. f.key = "in_port" /\ v = <<Word("LOCAL")>>
  BY DEF IsLocal
<1>2. Len(v) = 1 /\ v[1] = Word("LOCAL") /\ v # <<>>
  BY <1>1
<1>3. v[1].t = "LOCAL"
  BY <1>2 DEF Word, Token
<1>4. ~Atoi(v[1]).ok
  BY <1>3 DEF Atoi, Fail
<1>5. ~parseClampInt(v, MaxInt32).ok
  BY <1>2, <1>4 DEF parseClampInt, Then, Fail
<1>6. "in_port" \in DOMAIN PlainIntMatch /\ "in_port" \notin DOMAIN IntMatch
  BY DecimalTables DEF PlainIntMatch
<1>7. parseMatch("in_port", v) = parseIntMatch("in_port", v)
  BY <1>6, Parser
<1>8. ~parseIntMatch("in_port", v).ok
  BY <1>5, <1>6 DEF parseIntMatch, Then, Fail
<1> QED
  BY <1>1, <1>2, <1>7, <1>8 DEF Known

(* One field, if it is read at all. *)
LEMMA TraceFieldRead ==
  ASSUME NEW p, NEW ms, NEW f, TraceField(FlowSoFar(p, ms), f).ok
  PROVE  /\ Understood(f)
         /\ TraceField(FlowSoFar(p, ms), f)
              = Ok(FlowSoFar(IF Names(f) THEN f.key ELSE p, IF Known(f) THEN Append(ms, MatchOf(f)) ELSE ms))
<1> PICK df : df = FlowSoFar(p, ms)
  OBVIOUS
<1> PICK r : r = parseMatch(f.key, f.val)
  OBVIOUS
<1>0. ~Fail.ok /\ \A x : Ok(x).ok /\ Ok(x).v = x
  BY OkFields DEF Fail
<1>1. \A q : [df EXCEPT !.Protocol = q] = FlowSoFar(q, ms)
  BY DEF FlowSoFar
<1>2. df.Matches = ms /\ \A x : [df EXCEPT !.Matches = x] = FlowSoFar(p, x)
  BY DEF FlowSoFar
<1>3. CASE f.val = <<>>
  <2>1. TraceField(df, f) = IF f.key \in TraceProtocols THEN Ok([df EXCEPT !.Protocol = f.key])
                            ELSE IF f.key \in {"eth", "unchanged"} THEN Ok(df) ELSE Fail
    BY <1>3 DEF TraceField
  <2>2. ~Known(f) /\ (Names(f) <=> f.key \in TraceProtocols)
    BY <1>3 DEF Known, Names
  <2> QED
    BY <2>1, <2>2, <1>0, <1>1, <1>3 DEF Understood
<1>4. CASE f.val # <<>> /\ f.key = "recirc_id"
  <2>1. TraceField(df, f) = Ok(df)
    BY <1>4 DEF TraceField
  <2>2. ~Known(f) /\ ~Names(f)
    BY <1>4 DEF Known, Names
  <2> QED
    BY <2>1, <2>2, <1>4 DEF Understood
<1>5. CASE f.val # <<>> /\ f.key # "recirc_id"
  <2> DEFINE s == IF IsLocal(f) THEN Ok(NumMatch("InPortMatch", localPort)) ELSE r
  <2>1. TraceField(df, f)
          = IF Contains(f.val, Word("=")) THEN Fail
            ELSE IF s.ok THEN Ok(IF s.v = NoMatch THEN df ELSE [df EXCEPT !.Matches = Append(df.Matches, s.v)])
            ELSE Fail
    BY <1>5 DEF TraceField, Then, IsLocal
  <2>2. s.ok /\ TraceField(df, f) = Ok(IF s.v = NoMatch THEN df ELSE FlowSoFar(p, Append(ms, s.v)))
    BY <2>1, <1>0, <1>2
  <2>3. ~Names(f)
    BY <1>5 DEF Names
  <2>4. s.v = MatchOf(f)
    BY <1>0 DEF MatchOf
  <2>5. Known(f) <=> s.v # NoMatch
    <3>1. CASE IsLocal(f)
      <4>1. NumMatch("InPortMatch", localPort).kind = "InPortMatch" /\ NoMatch.kind = "nil"
        BY NumFields DEF NoMatch
      <4> QED
        BY <3>1, <4>1, <1>0, LocalIsKnown
    <3>2. CASE ~IsLocal(f)
      BY <3>2, <2>2, <1>5 DEF Known
    <3> QED
      BY <3>1, <3>2
  <2>6. Understood(f)
    BY <2>2 DEF Understood
  <2> HIDE DEF s
  <2> QED
    BY <2>2, <2>3, <2>4, <2>5, <2>6
<1> QED
  BY <1>3, <1>4, <1>5

(* Where the first m fields have been read: their matches are those of the *)
(* fields at the places, and the protocol is the last name.                *)
KnownOf(fields, m) == {i \in 1 .. m : Known(fields[i])}
LastName(p, fields, m) ==
    IF \E i \in 1 .. m : Names(fields[i])
    THEN \E i \in 1 .. m : Names(fields[i]) /\ p = fields[i].key /\ \A j \in 1 .. m : Names(fields[j]) => j <= i
    ELSE p = NoWord
MatchesAt(place, ms, fields, m) ==
    InOrder(place, Len(ms), KnownOf(fields, m)) /\ \A k \in 1 .. Len(ms) : ms[k] = MatchOf(fields[place[k]])
ReadSoFarAs(p, ms, fields, m) ==
    /\ ms \in Seq({MatchOf(fields[i]) : i \in 1 .. Len(fields)})
    /\ \E place : MatchesAt(place, ms, fields, m)
    /\ LastName(p, fields, m)
    /\ \A i \in 1 .. m : Understood(fields[i])

LEMMA OneFieldMore ==
  ASSUME NEW fields, Len(fields) \in Nat, NEW m \in Nat, m + 1 <= Len(fields),
         NEW p, NEW ms, ReadSoFarAs(p, ms, fields, m), NEW f, f = fields[m + 1], Understood(f)
  PROVE  ReadSoFarAs(IF Names(f) THEN f.key ELSE p, IF Known(f) THEN Append(ms, MatchOf(f)) ELSE ms,
                     fields, m + 1)
<1> DEFINE S == {MatchOf(fields[i]) : i \in 1 .. Len(fields)}
           q == IF Names(f) THEN f.key ELSE p
           U == KnownOf(fields, m)
<1>1. m + 1 \in 1 .. Len(fields) /\ 1 .. m + 1 = 1 .. m \cup {m + 1} /\ MatchOf(f) \in S
  OBVIOUS
<1>2. PICK place : MatchesAt(place, ms, fields, m)
  BY DEF ReadSoFarAs
<1>3. ms \in Seq(S) /\ LastName(p, fields, m)
  BY DEF ReadSoFarAs
<1>4. LastName(q, fields, m + 1)
  <2>1. CASE Names(f)
    <3>1. q = fields[m + 1].key /\ Names(fields[m + 1]) /\ \A j \in 1 .. m + 1 : j <= m + 1
      BY <2>1
    <3> HIDE DEF q
    <3> QED BY <3>1, <1>1 DEF LastName
  <2>2. CASE ~Names(f)
    <3>1. q = p /\ ~Names(fields[m + 1])
      BY <2>2
    <3>2. \A j \in 1 .. m + 1 : Names(fields[j]) => j \in 1 .. m
      BY <3>1, <1>1
    <3>3. 1 .. m \subseteq 1 .. m + 1
      BY <1>1
    <3> HIDE DEF q
    <3> QED BY <3>1, <3>2, <3>3, <1>3 DEF LastName
  <2> QED BY <2>1, <2>2
<1>10. \A i \in 1 .. m + 1 : Understood(fields[i])
  BY <1>1 DEF ReadSoFarAs
<1> HIDE DEF S, q
<1>5. Len(ms) \in Nat
  BY <1>3, LenProperties
<1>6. U \subseteq 1 .. m /\ KnownOf(fields, m + 1) = IF Known(f) THEN U \cup {m + 1} ELSE U
  BY <1>1 DEF KnownOf
<1>7. InOrder(place, Len(ms), U) /\ \A k \in 1 .. Len(ms) : ms[k] = MatchOf(fields[place[k]])
  BY <1>2 DEF MatchesAt
<1> HIDE DEF U
<1>8. CASE ~Known(f)
  <2>1. MatchesAt(place, ms, fields, m + 1)
    BY <1>6, <1>7, <1>8 DEF MatchesAt
  <2>2. ReadSoFarAs(q, ms, fields, m + 1)
    BY <2>1, <1>3, <1>4, <1>10 DEF ReadSoFarAs, S
  <2> QED BY <2>2, <1>8 DEF q
<1>9. CASE Known(f)
  <2> DEFINE x == Append(ms, MatchOf(f))
             n == Len(ms)
  <2>1. x \in Seq(S) /\ Len(x) = n + 1 /\ x[n + 1] = MatchOf(f) /\ \A k \in 1 .. n : x[k] = ms[k]
    BY <1>1, <1>3, AppendProperties
  <2>2. HasOneMore(place, Len(ms), U, m + 1)
    BY <1>5, <1>6, <1>7, OneMoreInOrder
  <2>3. PICK r : OneMore(r, place, Len(ms), U, m + 1)
    BY <2>2 DEF HasOneMore
  <2>4. InOrder(r, n + 1, U \cup {m + 1}) /\ r[n + 1] = m + 1 /\ \A k \in 1 .. n : r[k] = place[k]
    BY <2>3 DEF OneMore
  <2>5. \A k \in 1 .. n + 1 : k = n + 1 \/ k \in 1 .. n
    BY <1>5
  <2> HIDE DEF x, n
  <2>6. \A k \in 1 .. n + 1 : x[k] = MatchOf(fields[r[k]])
    <3> SUFFICES ASSUME NEW k \in 1 .. n + 1 PROVE x[k] = MatchOf(fields[r[k]])
      OBVIOUS
    <3>1. CASE k = n + 1
      BY <3>1, <2>1, <2>4
    <3>2. CASE k \in 1 .. n
      <4>1. ms[k] = MatchOf(fields[place[k]])
        BY <3>2, <1>7 DEF n
      <4> QED BY <4>1, <3>2, <2>1, <2>4
    <3> QED BY <3>1, <3>2, <2>5
  <2>7. MatchesAt(r, x, fields, m + 1)
    BY <1>6, <1>9, <2>1, <2>4, <2>6 DEF MatchesAt
  <2>8. ReadSoFarAs(q, x, fields, m + 1)
    BY <2>1, <2>7, <1>4, <1>10 DEF ReadSoFarAs, S
  <2> QED BY <2>8, <1>9 DEF q, x
<1> QED BY <1>8, <1>9

(* The flow that the first m fields are read as, if they are. *)
ReadAs(r, fields, m) == \E p, ms : r = Ok(FlowSoFar(p, ms)) /\ ReadSoFarAs(p, ms, fields, m)

LEMMA TraceFlowRead ==
  ASSUME NEW fields, Len(fields) \in Nat, UnmarshalDataPathFlows(fields).ok
  PROVE  ReadAs(UnmarshalDataPathFlows(fields), fields, Len(fields))
<1> PICK n : n = Len(fields)
  OBVIOUS
<1>1. PICK W : /\ UnmarshalDataPathFlows(fields) = W[n]
               /\ W[0] = Ok(NewDataPathFlows)
               /\ \A i \in 1 .. n : W[i] = ReadField(W[i - 1], fields[i])
  BY TraceFieldsRead
<1> DEFINE T == {m \in Nat : m <= n /\ W[m].ok => ReadAs(W[m], fields, m)}
<1>2. 0 \in T
  <2>1. W[0] = Ok(FlowSoFar(NoWord, <<>>))
    BY <1>1 DEF NewDataPathFlows, FlowSoFar
  <2>2. KnownOf(fields, 0) = {} /\ LastName(NoWord, fields, 0)
    BY DEF KnownOf, LastName
  <2> DEFINE place == [k \in 1 .. 0 |-> k]
  <2>3. place \in [1 .. 0 -> {}] /\ Len(<<>>) = 0 /\ \A k \in 1 .. 0 : FALSE
    OBVIOUS
  <2> HIDE DEF place
  <2>4. MatchesAt(place, <<>>, fields, 0)
    BY <2>2, <2>3 DEF MatchesAt, InOrder
  <2>5. \A Q : <<>> \in Seq(Q)
    OBVIOUS
  <2>6. ReadSoFarAs(NoWord, <<>>, fields, 0)
    BY <2>2, <2>4, <2>5 DEF ReadSoFarAs
  <2> QED BY <2>1, <2>6 DEF ReadAs
<1>3. \A m \in Nat : m \in T => m + 1 \in T
  <2> SUFFICES ASSUME NEW m \in Nat, m \in T, m + 1 <= n, W[m + 1].ok
               PROVE  ReadAs(W[m + 1], fields, m + 1)
    OBVIOUS
  <2>1. m <= n /\ m + 1 \in 1 .. n /\ (m + 1) - 1 = m
    OBVIOUS
  <2> PICK f : f = fields[m + 1]
    OBVIOUS
  <2>2. W[m + 1] = ReadField(W[m], f)
    BY <2>1, <1>1
  <2>3. W[m].ok /\ W[m + 1] = TraceField(W[m].v, f)
    BY <2>2 DEF ReadField, Then, Fail
  <2>4. PICK p, ms : W[m] = Ok(FlowSoFar(p, ms)) /\ ReadSoFarAs(p, ms, fields, m)
    BY <2>1, <2>3 DEF ReadAs
  <2>5. W[m + 1] = TraceField(FlowSoFar(p, ms), f)
    BY <2>3, <2>4, OkFields
  <2> DEFINE q == IF Names(f) THEN f.key ELSE p
             ns == IF Known(f) THEN Append(ms, MatchOf(f)) ELSE ms
  <2>6. W[m + 1] = Ok(FlowSoFar(q, ns)) /\ Understood(f)
    BY <2>5, TraceFieldRead
  <2>7. ReadSoFarAs(q, ns, fields, m + 1)
    BY <2>4, <2>6, OneFieldMore
  <2> HIDE DEF q, ns
  <2> QED BY <2>6, <2>7 DEF ReadAs
<1>4. Nat \subseteq T
  <2> HIDE DEF T
  <2> QED BY <1>2, <1>3, Induction
<1> QED BY <1>1, <1>4

(* The fields of a flow as ovs-appctl may print it. *)
IsFields(fields) ==
    /\ Len(fields) \in Nat /\ DOMAIN fields = 1 .. Len(fields)
    /\ \A i \in 1 .. Len(fields) : fields[i].val = <<>> \/ IsValue(fields[i].val)

(* A field that has been read is printed again as it was. *)
LEMMA TraceFieldKept ==
  ASSUME NEW f, Known(f), Understood(f), f.val = <<>> \/ IsValue(f.val),
         f.key \notin Renamed, Printed(f.key, f.val), MarshalMatch(MatchOf(f)).ok
  PROVE  KeptAs(f.key, IF IsLocal(f) THEN <<Dec(localPort)>> ELSE f.val, MarshalMatch(MatchOf(f)))
<1>1. CASE IsLocal(f)
  <2> PICK m : m = NumMatch("InPortMatch", localPort)
    OBVIOUS
  <2>1. f.key = "in_port" /\ MatchOf(f) = m
    BY <1>1 DEF MatchOf, IsLocal
  <2>2. "in_port" \in DOMAIN PlainIntMatch /\ PlainIntMatch["in_port"] = "InPortMatch"
    BY DEF PlainIntMatch
  <2>3. "InPortMatch" \in DOMAIN DecimalKey /\ DecimalKey["InPortMatch"] = "in_port"
    BY <2>2, DecimalTables
  <2>4. m.kind = "InPortMatch" /\ m.a = localPort
    BY NumFields
  <2>5. MarshalMatch(m) = Ok(Field("in_port", <<Dec(localPort)>>))
    BY <2>3, <2>4, Printer
  <2> QED
    BY <1>1, <2>1, <2>5, SameItself, OkFields, FieldFields DEF KeptAs
<1>2. CASE ~IsLocal(f)
  <2> PICK r : r = parseMatch(f.key, f.val)
    OBVIOUS
  <2>1. f.val # <<>> /\ r.ok /\ r.v # NoMatch /\ MatchOf(f) = r.v
    BY <1>2 DEF Known, Understood, MatchOf
  <2>2. PrintedAgain(f.key, f.val) = MarshalMatch(MatchOf(f))
    BY <2>1 DEF PrintedAgain, Then
  <2>3. ValueKept(f.key, f.val)
    BY <2>1, FieldIsKept
  <2> QED
    BY <1>2, <2>2, <2>3 DEF ValueKept, KeptAs
<1> QED
  BY <1>1, <1>2

(* A flow of a trace, whatever its fields are, is read as it was printed   *)
(* (DataPathFlows.UnmarshalText, ovs/proto_trace.go).                      *)
LEMMA TraceFlowIsExact ==
  ASSUME NEW fields, IsFields(fields), UnmarshalDataPathFlows(fields).ok
  PROVE  FlowOfTrace(UnmarshalDataPathFlows(fields).v, fields)
<1> DEFINE readOf(f) == parseMatch(f.key, f.val)
           known == {i \in DOMAIN fields :
                       /\ fields[i].val # <<>> /\ fields[i].key # "recirc_id"
                       /\ readOf(fields[i]).ok => readOf(fields[i]).v # NoMatch}
           names == {i \in DOMAIN fields : fields[i].val = <<>> /\ fields[i].key \in TraceProtocols}
           local(f) == IF f.key = "in_port" /\ f.val = <<Word("LOCAL")>> THEN <<Dec(localPort)>> ELSE f.val
           kept(f, text) ==
               f.key \notin Renamed /\ Printed(f.key, f.val) /\ text.ok
                 => text.v.key = f.key /\ SameValue(local(f), text.v.val)
<1> PICK n : n = Len(fields)
  OBVIOUS
<1>1. n \in Nat /\ DOMAIN fields = 1 .. n /\ \A i \in 1 .. n : fields[i].val = <<>> \/ IsValue(fields[i].val)
  BY DEF IsFields
<1>2. ReadAs(UnmarshalDataPathFlows(fields), fields, n)
  BY <1>1, TraceFlowRead
<1>3. PICK p, ms : UnmarshalDataPathFlows(fields) = Ok(FlowSoFar(p, ms)) /\ ReadSoFarAs(p, ms, fields, n)
  BY <1>2 DEF ReadAs
<1> PICK df : df = FlowSoFar(p, ms)
  OBVIOUS
<1>4. UnmarshalDataPathFlows(fields).v = df /\ df.Matches = ms /\ df.Protocol = p
  BY <1>3, OkFields DEF FlowSoFar
<1>5. PICK place : MatchesAt(place, ms, fields, n)
  BY <1>3 DEF ReadSoFarAs
<1>6. DOMAIN ms = 1 .. Len(ms) /\ Len(ms) \in Nat
  BY <1>3, LenProperties DEF ReadSoFarAs
<1>7. known = KnownOf(fields, n)
  BY <1>1 DEF KnownOf, Known
<1>8. /\ place \in [DOMAIN ms -> known]
      /\ \A i \in known : \E k \in DOMAIN ms : place[k] = i
      /\ \A k, l \in DOMAIN ms : k < l => place[k] < place[l]
  BY <1>5, <1>6, <1>7 DEF MatchesAt, InOrder
<1>9. ASSUME NEW k \in DOMAIN ms PROVE kept(fields[place[k]], MarshalMatch(ms[k]))
  <2> PICK f : f = fields[place[k]]
    OBVIOUS
  <2>1. place[k] \in 1 .. n /\ Known(f)
    BY <1>8, <1>7 DEF KnownOf
  <2>2. Understood(f) /\ (f.val = <<>> \/ IsValue(f.val))
    BY <2>1, <1>1, <1>3 DEF ReadSoFarAs
  <2>3. ms[k] = MatchOf(f)
    BY <1>5, <1>6 DEF MatchesAt
  <2> SUFFICES ASSUME f.key \notin Renamed, Printed(f.key, f.val), MarshalMatch(MatchOf(f)).ok
               PROVE  KeptAs(f.key, local(f), MarshalMatch(MatchOf(f)))
    BY <2>3 DEF KeptAs
  <2>4. local(f) = IF IsLocal(f) THEN <<Dec(localPort)>> ELSE f.val
    BY DEF IsLocal
  <2> HIDE DEF local
  <2> QED
    BY <2>1, <2>2, <2>4, TraceFieldKept
<1>10. IF names = {} THEN df.Protocol = NoWord
       ELSE \E i \in names : df.Protocol = fields[i].key /\ \A j \in names : j <= i
  <2>1. LastName(p, fields, n)
    BY <1>3 DEF ReadSoFarAs
  <2>2. names = {i \in 1 .. n : Names(fields[i])}
    BY <1>1 DEF Names
  <2> HIDE DEF names
  <2> QED
    BY <2>1, <2>2, <1>4 DEF LastName
<1> HIDE DEF known, names, kept
<1>11. /\ \E q \in [DOMAIN df.Matches -> known] :
             /\ \A i \in known : \E k \in DOMAIN df.Matches : q[k] = i
             /\ \A k, l \in DOMAIN df.Matches : k < l => q[k] < q[l]
             /\ \A k \in DOMAIN df.Matches : kept(fields[q[k]], MarshalMatch(df.Matches[k]))
       /\ IF names = {} THEN df.Protocol = NoWord
          ELSE \E i \in names : df.Protocol = fields[i].key /\ \A j \in names : j <= i
  BY <1>4, <1>8, <1>9, <1>10
<1>12. FlowOfTrace(df, fields)
  BY ONLY <1>11 DEF FlowOfTrace, known, names, kept
<1> QED
  BY <1>4, <1>12

-----------------------------------------------------------------------------
(* Traces: the lines *)

(* The lines of the text, one after another, take s to t. *)
Steps(Q, s, text, t) ==
    Q[0] = s /\ Q[Len(text)] = t /\ \A i \in 1 .. Len(text) : Q[i] = ReadTrace(Q[i - 1], text[i])
Run(s, text, t) == \E Q : Steps(Q, s, text, t)

LEMMA RunOfTwo ==
  ASSUME NEW s, NEW text, NEW t, NEW more, NEW u, NEW w,
         Run(s, text, t), Run(t, more, u), Follows(w, text, more)
  PROVE  Run(s, w, u)
<1> PICK a, b : a = Len(text) /\ b = Len(more)
  OBVIOUS
<1>1. /\ a \in Nat /\ b \in Nat /\ Len(w) = a + b
      /\ \A p \in 1 .. a : w[p] = text[p]
      /\ \A p \in 1 .. b : w[a + p] = more[p]
  BY DEF Follows
<1>2. PICK Q : Q[0] = s /\ Q[a] = t /\ \A i \in 1 .. a : Q[i] = ReadTrace(Q[i - 1], text[i])
  BY DEF Run, Steps
<1>3. PICK R : R[0] = t /\ R[b] = u /\ \A i \in 1 .. b : R[i] = ReadTrace(R[i - 1], more[i])
  BY DEF Run, Steps
<1> DEFINE V == [i \in 0 .. a + b |-> IF i <= a THEN Q[i] ELSE R[i - a]]
<1>4. /\ \A i \in 0 .. a : V[i] = Q[i]
      /\ \A i \in 0 .. b : V[a + i] = R[i]
  <2>1. ASSUME NEW i \in 0 .. a PROVE V[i] = Q[i]
    BY <1>1
  <2>2. ASSUME NEW i \in 0 .. b PROVE V[a + i] = R[i]
    <3>1. a + i \in 0 .. a + b /\ (a + i) - a = i /\ (a + i <= a <=> i = 0) /\ a + 0 = a
      BY <1>1
    <3> QED BY <3>1, <1>2, <1>3
  <2> QED BY <2>1, <2>2
<1> HIDE DEF V
<1>5. ASSUME NEW i \in 1 .. a + b PROVE V[i] = ReadTrace(V[i - 1], w[i])
  <2>1. CASE i \in 1 .. a
    <3>1. i - 1 \in 0 .. a /\ i \in 0 .. a
      BY <2>1, <1>1
    <3> QED BY <2>1, <3>1, <1>1, <1>2, <1>4
  <2>2. CASE i \notin 1 .. a
    <3>1. i - a \in 1 .. b /\ i - a \in 0 .. b /\ (i - a) - 1 \in 0 .. b /\ a + (i - a) = i /\ a + ((i - a) - 1) = i - 1
      BY <2>2, <1>1
    <3>2. V[i] = R[i - a] /\ V[i - 1] = R[(i - a) - 1] /\ w[i] = more[i - a]
      BY <3>1, <1>1, <1>4
    <3> QED BY <3>1, <3>2, <1>3
  <2> QED BY <2>1, <2>2
<1>6. V[0] = s /\ V[a + b] = u
  <2>1. 0 \in 0 .. a /\ b \in 0 .. b
    BY <1>1
  <2> QED BY <2>1, <1>2, <1>3, <1>4
<1>7. Steps(V, s, w, u)
  BY <1>1, <1>5, <1>6 DEF Steps
<1> QED BY <1>7 DEF Run

(* There is one result only. *)
LEMMA RunIsUnique ==
  ASSUME NEW s, NEW text, Len(text) \in Nat, NEW t, NEW u, Run(s, text, t), Run(s, text, u)
  PROVE  t = u
<1> PICK n : n = Len(text)
  OBVIOUS
<1>1. PICK Q : Q[0] = s /\ Q[n] = t /\ \A i \in 1 .. n : Q[i] = ReadTrace(Q[i - 1], text[i])
  BY DEF Run, Steps
<1>2. PICK R : R[0] = s /\ R[n] = u /\ \A i \in 1 .. n : R[i] = ReadTrace(R[i - 1], text[i])
  BY DEF Run, Steps
<1> DEFINE T == {m \in Nat : m <= n => Q[m] = R[m]}
<1>3. 0 \in T
  BY <1>1, <1>2
<1>4. \A m \in Nat : m \in T => m + 1 \in T
  <2> SUFFICES ASSUME NEW m \in Nat, m \in T, m + 1 <= n PROVE Q[m + 1] = R[m + 1]
    OBVIOUS
  <2>1. m <= n /\ m + 1 \in 1 .. n /\ (m + 1) - 1 = m
    OBVIOUS
  <2>2. Q[m] = R[m]
    BY <2>1
  <2>3. Q[m + 1] = ReadTrace(Q[m], text[m + 1]) /\ R[m + 1] = ReadTrace(R[m], text[m + 1])
    BY <2>1, <1>1, <1>2
  <2> QED BY <2>2, <2>3
<1>5. Nat \subseteq T
  <2> HIDE DEF T
  <2> QED BY <1>3, <1>4, Induction
<1> QED BY <1>1, <1>2, <1>5

(* After an error nothing is read. *)
LEMMA RunFails ==
  ASSUME NEW text, Len(text) \in Nat
  PROVE  Run(Fail, text, Fail)
<1> DEFINE Q == [i \in 0 .. Len(text) |-> Fail]
<1>1. \A x : ReadTrace(Fail, x) = Fail
  BY DEF ReadTrace, Then, Fail
<1>2. \A i \in 0 .. Len(text) : Q[i] = Fail
  OBVIOUS
<1>3. \A i \in 1 .. Len(text) : i \in 0 .. Len(text) /\ i - 1 \in 0 .. Len(text)
  OBVIOUS
<1> HIDE DEF Q
<1>4. Steps(Q, Fail, text, Fail)
  BY <1>1, <1>2, <1>3 DEF Steps
<1> QED BY <1>4 DEF Run

(* Up to four lines. *)
LEMMA RunOfNone == ASSUME NEW s PROVE Run(s, <<>>, s)
<1> DEFINE Q == [i \in 0 .. 0 |-> s]
<1>1. Q[0] = s /\ Len(<<>>) = 0
  OBVIOUS
<1> HIDE DEF Q
<1>2. Steps(Q, s, <<>>, s)
  BY <1>1 DEF Steps
<1> QED BY <1>2 DEF Run

LEMMA RunOfFew ==
  ASSUME NEW s, NEW a, NEW b, NEW c, NEW d
  PROVE  LET s1 == ReadTrace(s, a)
             s2 == ReadTrace(s1, b)
             s3 == ReadTrace(s2, c)
         IN  /\ Run(s, <<a, b>>, s2)
             /\ Run(s, <<a, b, c>>, s3)
             /\ Run(s, <<a, b, c, d>>, ReadTrace(s3, d))
<1> DEFINE s1 == ReadTrace(s, a)
           s2 == ReadTrace(s1, b)
           s3 == ReadTrace(s2, c)
           s4 == ReadTrace(s3, d)
           Q == [i \in 0 .. 4 |-> IF i = 0 THEN s ELSE IF i = 1 THEN s1 ELSE IF i = 2 THEN s2
                                  ELSE IF i = 3 THEN s3 ELSE s4]
<1> HIDE DEF s1, s2, s3, s4
<1>1. Q[0] = s /\ Q[1] = s1 /\ Q[2] = s2 /\ Q[3] = s3 /\ Q[4] = s4
  OBVIOUS
<1> HIDE DEF Q
<1>2. Q[1] = ReadTrace(Q[0], a) /\ Q[2] = ReadTrace(Q[1], b) /\ Q[3] = ReadTrace(Q[2], c) /\ Q[4] = ReadTrace(Q[3], d)
  BY <1>1 DEF s1, s2, s3, s4
<1>3. Steps(Q, s, <<a, b>>, s2)
  <2> PICK w : w = <<a, b>>
    OBVIOUS
  <2>1. Len(w) = 2 /\ w[1] = a /\ w[2] = b
    OBVIOUS
  <2>2. \A i \in 1 .. 2 : i = 1 \/ i = 2
    OBVIOUS
  <2>3. Steps(Q, s, w, s2)
    BY ONLY <2>1, <2>2, <1>1, <1>2 DEF Steps
  <2> QED BY <2>3
<1>4. Steps(Q, s, <<a, b, c>>, s3)
  <2> PICK w : w = <<a, b, c>>
    OBVIOUS
  <2>1. Len(w) = 3 /\ w[1] = a /\ w[2] = b /\ w[3] = c
    OBVIOUS
  <2>2. \A i \in 1 .. 3 : i = 1 \/ i = 2 \/ i = 3
    OBVIOUS
  <2>3. Steps(Q, s, w, s3)
    BY ONLY <2>1, <2>2, <1>1, <1>2 DEF Steps
  <2> QED BY <2>3
<1>5. Steps(Q, s, <<a, b, c, d>>, s4)
  <2> PICK w : w = <<a, b, c, d>>
    OBVIOUS
  <2>1. Len(w) = 4 /\ w[1] = a /\ w[2] = b /\ w[3] = c /\ w[4] = d
    OBVIOUS
  <2>2. \A i \in 1 .. 4 : i = 1 \/ i = 2 \/ i = 3 \/ i = 4
    OBVIOUS
  <2>3. Steps(Q, s, w, s4)
    BY ONLY <2>1, <2>2, <1>1, <1>2 DEF Steps
  <2> QED BY <2>3
<1>6. Run(s, <<a, b>>, s2) /\ Run(s, <<a, b, c>>, s3) /\ Run(s, <<a, b, c, d>>, s4)
  BY <1>3, <1>4, <1>5 DEF Run
<1> QED BY <1>6 DEF s1, s2, s3, s4

-----------------------------------------------------------------------------
(* Traces: one pass *)

(* What has been read of a trace. *)
TraceSoFar(flow, final, da, acts) ==
    [InputFlow |-> flow, FinalFlow |-> final, DataPathActions |-> da, FlowActions |-> acts]

(* The lines of a pass. *)
FlowLine(sh, f) == TraceLine(sh, f, 0, FALSE)
ActionLine(x) == TraceLine("action", <<>>, x, FALSE)
DatapathLine(x, r) == TraceLine("DatapathActions", <<>>, x, r)

LEMMA TraceLineRead ==
  ASSUME NEW pt, NEW l
  PROVE  ReadTrace(Ok(pt), l) = ReadTraceLine(pt, l)
BY OkFields DEF ReadTrace, Then

(* The line of a flow ... *)
LEMMA FlowLineRead ==
  ASSUME NEW flow, NEW final, NEW da, NEW acts, NEW sh \in {"Flow", "FinalFlow"}, NEW f
  PROVE  ReadTrace(Ok(TraceSoFar(flow, final, da, acts)), FlowLine(sh, f))
           = IF UnmarshalDataPathFlows(f).ok
             THEN Ok(IF sh = "Flow" THEN TraceSoFar(UnmarshalDataPathFlows(f).v, final, da, acts)
                     ELSE TraceSoFar(flow, UnmarshalDataPathFlows(f).v, da, acts))
             ELSE Fail
<1> PICK pt : pt = TraceSoFar(flow, final, da, acts)
  OBVIOUS
<1> PICK l : l = FlowLine(sh, f)
  OBVIOUS
<1> PICK u : u = UnmarshalDataPathFlows(f)
  OBVIOUS
<1>1. l.shape = sh /\ l.fields = f
  BY DEF FlowLine, TraceLine
<1>2. /\ \A y : [pt EXCEPT !.InputFlow = y] = TraceSoFar(y, final, da, acts)
      /\ \A y : [pt EXCEPT !.FinalFlow = y] = TraceSoFar(flow, y, da, acts)
  BY DEF TraceSoFar
<1>3. UnmarshalDataPathFlows(l.fields) = u
  BY <1>1
<1>4. sh # "DatapathActions"
  OBVIOUS
<1>5. ReadTraceLine(pt, l)
        = IF u.ok THEN Ok(IF l.shape = "Flow" THEN [pt EXCEPT !.InputFlow = u.v] ELSE [pt EXCEPT !.FinalFlow = u.v])
          ELSE Fail
  BY ONLY <1>1, <1>3, <1>4, sh \in {"Flow", "FinalFlow"} DEF ReadTraceLine, SkippedLines, Then
<1> HIDE DEF TraceSoFar
<1>6. ReadTrace(Ok(pt), l) = ReadTraceLine(pt, l)
  BY TraceLineRead
<1> QED
  BY <1>1, <1>2, <1>5, <1>6

(* ... a line that is skipped ... *)
LEMMA SkippedLineRead ==
  ASSUME NEW pt, NEW sh \in {"bridge", "rule", "comment", "Megaflow", "other"}
  PROVE  ReadTrace(Ok(pt), PlainLine(sh)) = Ok(pt)
<1> PICK l : l = PlainLine(sh)
  OBVIOUS
<1>1. l.shape = sh
  BY DEF PlainLine, TraceLine
<1>2. ReadTraceLine(pt, l) = Ok(pt)
  BY ONLY <1>1, sh \in {"bridge", "rule", "comment", "Megaflow", "other"} DEF ReadTraceLine, SkippedLines
<1> QED
  BY <1>2, TraceLineRead

(* ... an action ... *)
LEMMA ActionLineRead ==
  ASSUME NEW flow, NEW final, NEW da, NEW acts, NEW x
  PROVE  ReadTrace(Ok(TraceSoFar(flow, final, da, acts)), ActionLine(x))
           = Ok(TraceSoFar(flow, final, da, Append(acts, x)))
<1> PICK pt : pt = TraceSoFar(flow, final, da, acts)
  OBVIOUS
<1> PICK l : l = ActionLine(x)
  OBVIOUS
<1>1. l.shape = "action" /\ l.text = x
  BY DEF ActionLine, TraceLine
<1>2. pt.FlowActions = acts /\ \A y : [pt EXCEPT !.FlowActions = y] = TraceSoFar(flow, final, da, y)
  BY DEF TraceSoFar
<1>3. ReadTraceLine(pt, l) = Ok([pt EXCEPT !.FlowActions = Append(pt.FlowActions, x)])
  BY ONLY <1>1 DEF ReadTraceLine, SkippedLines, Then
<1> QED
  BY <1>2, <1>3, TraceLineRead

(* ... and the last line of a pass. *)
LEMMA DatapathLineRead ==
  ASSUME NEW flow, NEW final, NEW da, NEW acts, NEW x, NEW r
  PROVE  ReadTrace(Ok(TraceSoFar(flow, final, da, acts)), DatapathLine(x, r))
           = Ok(TraceSoFar(flow, final, x, IF r THEN Append(acts, Recirc) ELSE acts))
<1> PICK pt : pt = TraceSoFar(flow, final, da, acts)
  OBVIOUS
<1> PICK l : l = DatapathLine(x, r)
  OBVIOUS
<1> PICK q : q = [pt EXCEPT !.DataPathActions = x]
  OBVIOUS
<1> PICK y : y = IF r THEN Append(acts, Recirc) ELSE acts
  OBVIOUS
<1>1. l.shape = "DatapathActions" /\ l.text = x /\ l.recirc = r
  BY DEF DatapathLine, TraceLine
<1>2. q = TraceSoFar(flow, final, x, acts)
  BY DEF TraceSoFar
<1>3. [q EXCEPT !.FlowActions = y] = TraceSoFar(flow, final, x, y)
  BY ONLY <1>2 DEF TraceSoFar
<1>4. pt.FlowActions = acts
  BY DEF TraceSoFar
<1>5. ReadTraceLine(pt, l)
        = Ok([[pt EXCEPT !.DataPathActions = l.text]
                 EXCEPT !.FlowActions = IF l.recirc THEN Append(pt.FlowActions, Recirc) ELSE pt.FlowActions])
  BY ONLY <1>1 DEF ReadTraceLine, SkippedLines, Then
<1>6. ReadTraceLine(pt, l) = Ok([q EXCEPT !.FlowActions = y])
  BY <1>1, <1>4, <1>5
<1> QED
  BY <1>3, <1>6, TraceLineRead

(* What is appended to a concatenation is appended to its end. *)
AppendsToEnd(a, b, x) == Append(a \o b, x) = a \o Append(b, x)

LEMMA AppendToConcat ==
  ASSUME NEW S, NEW a \in Seq(S), NEW b \in Seq(S), NEW x \in S
  PROVE  AppendsToEnd(a, b, x)
<1> PICK c : c = <<x>>
  OBVIOUS
<1>1. c \in Seq(S) /\ a \o b \in Seq(S)
  BY ConcatProperties
<1>2. Append(a \o b, x) = (a \o b) \o c /\ Append(b, x) = b \o c
  BY <1>1, AppendIsConcat
<1>3. (a \o b) \o c = a \o (b \o c)
  BY <1>1, ConcatAssociative
<1> QED
  BY <1>2, <1>3 DEF AppendsToEnd

(* The lines of the actions of a pass. *)
ActionLines(acts) == [i \in DOMAIN acts |-> ActionLine(acts[i])]

LEMMA RunOfActions ==
  ASSUME NEW flow, NEW final, NEW da, NEW S, NEW fa \in Seq(S), NEW acts \in Seq(S)
  PROVE  Run(Ok(TraceSoFar(flow, final, da, fa)), ActionLines(acts),
             Ok(TraceSoFar(flow, final, da, fa \o acts)))
<1> PICK n, text : n = Len(acts) /\ text = ActionLines(acts)
  OBVIOUS
<1>1. n \in Nat /\ DOMAIN acts = 1 .. n /\ \A i \in 1 .. n : acts[i] \in S
  BY LenProperties
<1>2. Len(text) = n /\ \A i \in 1 .. n : text[i] = ActionLine(acts[i])
  BY <1>1 DEF ActionLines
<1> DEFINE P(i) == SubSeq(acts, 1, i)
           Q == [i \in 0 .. n |-> Ok(TraceSoFar(flow, final, da, fa \o P(i)))]
<1>3. \A i \in 0 .. n : Q[i] = Ok(TraceSoFar(flow, final, da, fa \o P(i)))
  OBVIOUS
<1> HIDE DEF Q
<1>4. ASSUME NEW i \in 1 .. n PROVE Append(fa \o P(i - 1), acts[i]) = fa \o P(i)
  <2>1. i - 1 \in Int /\ \A j \in 1 .. i - 1 : acts[j] \in S
    BY <1>1
  <2>2. P(i - 1) \in Seq(S)
    BY <2>1, SubSeqProperties
  <2>3. acts[i] \in S
    BY <1>1
  <2>4. P(i) = Append(P(i - 1), acts[i])
    <3>1. 1 \in 1 .. n /\ i \in 1 .. n
      BY <1>1
    <3>2. P(i) = P(i - 1) \o <<acts[i]>>
      BY <3>1, SubSeqRecursiveSecond
    <3> HIDE DEF P
    <3> QED BY <3>2, <2>2, <2>3, AppendIsConcat
  <2> HIDE DEF P
  <2> PICK q, x : q = P(i - 1) /\ x = acts[i]
    OBVIOUS
  <2>5. q \in Seq(S) /\ x \in S
    BY <2>2, <2>3
  <2>6. AppendsToEnd(fa, q, x)
    BY <2>5, AppendToConcat
  <2> QED BY <2>4, <2>6 DEF AppendsToEnd
<1>5. fa \o P(0) = fa /\ P(n) = acts
  <2>1. P(0) = <<>>
    BY SubSeqEmpty
  <2>2. P(n) = acts
    BY SubSeqFull
  <2>3. fa \o <<>> = fa
    BY ConcatEmptySeq
  <2> QED BY <2>1, <2>2, <2>3
<1> HIDE DEF P
<1>6. ASSUME NEW i \in 1 .. n PROVE Q[i] = ReadTrace(Q[i - 1], text[i])
  <2>1. i \in 0 .. n /\ i - 1 \in 0 .. n
    BY <1>1
  <2>2. Q[i - 1] = Ok(TraceSoFar(flow, final, da, fa \o P(i - 1)))
    BY <2>1, <1>3
  <2>3. ReadTrace(Q[i - 1], ActionLine(acts[i]))
          = Ok(TraceSoFar(flow, final, da, Append(fa \o P(i - 1), acts[i])))
    <3> PICK a, x : a = fa \o P(i - 1) /\ x = acts[i]
      OBVIOUS
    <3>1. ReadTrace(Ok(TraceSoFar(flow, final, da, a)), ActionLine(x))
            = Ok(TraceSoFar(flow, final, da, Append(a, x)))
      BY ActionLineRead
    <3> QED BY <2>2, <3>1
  <2> QED BY <2>1, <2>3, <1>2, <1>3, <1>4
<1>7. Q[0] = Ok(TraceSoFar(flow, final, da, fa)) /\ Q[n] = Ok(TraceSoFar(flow, final, da, fa \o acts))
  <2>1. 0 \in 0 .. n /\ n \in 0 .. n
    BY <1>1
  <2>2. Q[0] = Ok(TraceSoFar(flow, final, da, fa \o P(0))) /\ Q[n] = Ok(TraceSoFar(flow, final, da, fa \o P(n)))
    BY <2>1, <1>3
  <2> QED BY <2>2, <1>5
<1>8. Steps(Q, Ok(TraceSoFar(flow, final, da, fa)), text, Ok(TraceSoFar(flow, final, da, fa \o acts)))
  BY <1>2, <1>6, <1>7 DEF Steps
<1> QED BY <1>8 DEF Run

(* The lines of a pass. *)
LinesOf(p) ==
    {PlainLine(sh) : sh \in {"bridge", "rule", "comment", "Megaflow", "other"}}
      \cup {FlowLine("Flow", p.flow), FlowLine("FinalFlow", p.final)}
      \cup {ActionLine(p.acts[i]) : i \in 1 .. Len(p.acts)} \cup {DatapathLine(p.actions, r) : r \in BOOLEAN}

(* What a pass is read as: both of its flows, or an error. *)
FlowsOk(p) == UnmarshalDataPathFlows(p.flow).ok /\ UnmarshalDataPathFlows(p.final).ok
Marked(acts, recirc) == IF recirc THEN Append(acts, Recirc) ELSE acts
AfterPass(p, fa, recirc) ==
    IF FlowsOk(p)
    THEN Ok(TraceSoFar(UnmarshalDataPathFlows(p.flow).v, UnmarshalDataPathFlows(p.final).v, p.actions,
                       Marked(fa \o p.acts, recirc)))
    ELSE Fail

IsPrinted(p, recirc, S, a, b, c, d) ==
    /\ a = <<FlowLine("Flow", p.flow), PlainLine("bridge"), PlainLine("rule")>>
    /\ b = ActionLines(p.acts)
    /\ c = <<PlainLine("comment"), FlowLine("FinalFlow", p.final),
             PlainLine("Megaflow"), DatapathLine(p.actions, recirc)>>
    /\ d = IF recirc THEN <<PlainLine("other"), PlainLine("comment")>> ELSE <<>>
    /\ a \in Seq(S) /\ b \in Seq(S) /\ c \in Seq(S) /\ d \in Seq(S)
    /\ PrintPass(p, recirc) = ((a \o b) \o c) \o d
HasParts(p, recirc, S) == \E a, b, c, d : IsPrinted(p, recirc, S, a, b, c, d)

LEMMA LinesOfPass ==
  ASSUME NEW T, NEW p, p.acts \in Seq(T), NEW S, LinesOf(p) \subseteq S, NEW recirc \in BOOLEAN
  PROVE  HasParts(p, recirc, S)
<1> PICK a : a = <<FlowLine("Flow", p.flow), PlainLine("bridge"), PlainLine("rule")>>
  OBVIOUS
<1> PICK b : b = ActionLines(p.acts)
  OBVIOUS
<1> PICK c : c = <<PlainLine("comment"), FlowLine("FinalFlow", p.final),
                   PlainLine("Megaflow"), DatapathLine(p.actions, recirc)>>
  OBVIOUS
<1> PICK d : d = IF recirc THEN <<PlainLine("other"), PlainLine("comment")>> ELSE <<>>
  OBVIOUS
<1>1. ASSUME NEW sh \in {"bridge", "rule", "comment", "Megaflow", "other"} PROVE PlainLine(sh) \in S
  BY DEF LinesOf
<1>2. FlowLine("Flow", p.flow) \in S /\ FlowLine("FinalFlow", p.final) \in S /\ DatapathLine(p.actions, recirc) \in S
  BY DEF LinesOf
<1>3. \A i \in 1 .. Len(p.acts) : ActionLine(p.acts[i]) \in S
  BY DEF LinesOf
<1>4. b \in Seq(S)
  <2> PICK acts, n : acts = p.acts /\ n = Len(acts)
    OBVIOUS
  <2>1. n \in Nat /\ DOMAIN acts = 1 .. n
    BY LenProperties
  <2>2. b = [i \in 1 .. n |-> ActionLine(acts[i])]
    BY <2>1 DEF ActionLines
  <2> QED BY <2>1, <2>2, <1>3
<1>5. a \in Seq(S) /\ c \in Seq(S) /\ d \in Seq(S)
  BY <1>1, <1>2
<1>6. PrintPass(p, recirc) = ((a \o b) \o c) \o d
  BY DEF PrintPass, FlowLine, DatapathLine, ActionLines, ActionLine
<1>7. IsPrinted(p, recirc, S, a, b, c, d)
  BY <1>4, <1>5, <1>6 DEF IsPrinted
<1> QED
  BY <1>7 DEF HasParts

(* A pass whose flows are read is read. *)
LEMMA PassRead ==
  ASSUME NEW flow, NEW final, NEW da, NEW T, NEW fa \in Seq(T), NEW p, p.acts \in Seq(T),
         NEW S, LinesOf(p) \subseteq S, NEW recirc \in BOOLEAN
  PROVE  /\ PrintPass(p, recirc) \in Seq(S)
         /\ Run(Ok(TraceSoFar(flow, final, da, fa)), PrintPass(p, recirc), AfterPass(p, fa, recirc))
<1> PICK u, v : u = UnmarshalDataPathFlows(p.flow) /\ v = UnmarshalDataPathFlows(p.final)
  OBVIOUS
<1> PICK s, acts : s = Ok(TraceSoFar(flow, final, da, fa)) /\ acts = fa \o p.acts
  OBVIOUS
<1>0. HasParts(p, recirc, S)
  BY LinesOfPass
<1>9. PICK a, b, c, d : IsPrinted(p, recirc, S, a, b, c, d)
  BY <1>0 DEF HasParts
<1>1. /\ a = <<FlowLine("Flow", p.flow), PlainLine("bridge"), PlainLine("rule")>>
      /\ b = ActionLines(p.acts)
      /\ c = <<PlainLine("comment"), FlowLine("FinalFlow", p.final),
               PlainLine("Megaflow"), DatapathLine(p.actions, recirc)>>
      /\ d = IF recirc THEN <<PlainLine("other"), PlainLine("comment")>> ELSE <<>>
      /\ a \in Seq(S) /\ b \in Seq(S) /\ c \in Seq(S) /\ d \in Seq(S)
      /\ PrintPass(p, recirc) = ((a \o b) \o c) \o d
  BY <1>9 DEF IsPrinted
<1>2. /\ a \o b \in Seq(S) /\ Follows(a \o b, a, b)
      /\ (a \o b) \o c \in Seq(S) /\ Follows((a \o b) \o c, a \o b, c)
      /\ ((a \o b) \o c) \o d \in Seq(S) /\ Follows(((a \o b) \o c) \o d, (a \o b) \o c, d)
      /\ Len(b) \in Nat /\ Len(c) \in Nat /\ Len(d) \in Nat
  <2>1. a \in Seq(S) /\ b \in Seq(S) /\ c \in Seq(S) /\ d \in Seq(S)
    BY <1>1
  <2>2. a \o b \in Seq(S) /\ Follows(a \o b, a, b)
    BY <2>1, Concatenated
  <2>3. (a \o b) \o c \in Seq(S) /\ Follows((a \o b) \o c, a \o b, c)
    BY <2>1, <2>2, Concatenated
  <2>4. ((a \o b) \o c) \o d \in Seq(S) /\ Follows(((a \o b) \o c) \o d, (a \o b) \o c, d)
    BY <2>1, <2>3, Concatenated
  <2> QED BY <2>1, <2>2, <2>3, <2>4, LenProperties
<1>3. /\ ReadTrace(Fail, PlainLine("bridge")) = Fail /\ ReadTrace(Fail, PlainLine("rule")) = Fail
      /\ \A l : ReadTrace(Fail, l) = Fail
  BY DEF ReadTrace, Then, Fail
(* The flow of the packet. *)
<1>4. Run(s, a, IF u.ok THEN Ok(TraceSoFar(u.v, final, da, fa)) ELSE Fail)
  <2> PICK l1, l2, l3 : l1 = FlowLine("Flow", p.flow) /\ l2 = PlainLine("bridge") /\ l3 = PlainLine("rule")
    OBVIOUS
  <2> PICK t : t = IF u.ok THEN Ok(TraceSoFar(u.v, final, da, fa)) ELSE Fail
    OBVIOUS
  <2>1. ReadTrace(s, l1) = t
    BY FlowLineRead
  <2>2. ReadTrace(t, l2) = t /\ ReadTrace(t, l3) = t
    BY <1>3, SkippedLineRead
  <2>3. Run(s, <<l1, l2, l3>>, ReadTrace(ReadTrace(ReadTrace(s, l1), l2), l3))
    BY RunOfFew
  <2> QED BY <2>1, <2>2, <2>3, <1>1
(* Its actions. *)
<1>5. Run(s, a \o b, IF u.ok THEN Ok(TraceSoFar(u.v, final, da, acts)) ELSE Fail)
  <2>1. CASE u.ok
    <3>1. Run(Ok(TraceSoFar(u.v, final, da, fa)), b, Ok(TraceSoFar(u.v, final, da, acts)))
      BY <1>1, RunOfActions
    <3> QED BY <2>1, <3>1, <1>2, <1>4, RunOfTwo
  <2>2. CASE ~u.ok
    <3>1. Run(Fail, b, Fail)
      BY <1>2, RunFails
    <3> QED BY <2>2, <3>1, <1>2, <1>4, RunOfTwo
  <2> QED BY <2>1, <2>2
(* The final flow and what the datapath is told. *)
<1>6. Run(s, (a \o b) \o c, AfterPass(p, fa, recirc))
  <2>1. CASE u.ok
    <3> PICK l1, l2, l3, l4 : /\ l1 = PlainLine("comment") /\ l2 = FlowLine("FinalFlow", p.final)
                              /\ l3 = PlainLine("Megaflow") /\ l4 = DatapathLine(p.actions, recirc)
      OBVIOUS
    <3> PICK t1 : t1 = Ok(TraceSoFar(u.v, final, da, acts))
      OBVIOUS
    <3> PICK t2 : t2 = IF v.ok THEN Ok(TraceSoFar(u.v, v.v, da, acts)) ELSE Fail
      OBVIOUS
    <3>1. ReadTrace(t1, l1) = t1
      BY SkippedLineRead
    <3>2. ReadTrace(t1, l2) = t2
      BY FlowLineRead
    <3>3. ReadTrace(t2, l3) = t2
      BY <1>3, SkippedLineRead
    <3>4. ReadTrace(t2, l4) = AfterPass(p, fa, recirc)
      <4>1. CASE v.ok
        <5>1. ReadTrace(Ok(TraceSoFar(u.v, v.v, da, acts)), l4)
                = Ok(TraceSoFar(u.v, v.v, p.actions, IF recirc THEN Append(acts, Recirc) ELSE acts))
          BY DatapathLineRead
        <5> QED BY <4>1, <5>1, <2>1 DEF AfterPass, FlowsOk, Marked
      <4>2. CASE ~v.ok
        BY <4>2, <2>1, <1>3 DEF AfterPass, FlowsOk
      <4> QED BY <4>1, <4>2
    <3>5. Run(t1, <<l1, l2, l3, l4>>, ReadTrace(ReadTrace(ReadTrace(ReadTrace(t1, l1), l2), l3), l4))
      BY RunOfFew
    <3>6. Run(t1, c, AfterPass(p, fa, recirc))
      BY <3>1, <3>2, <3>3, <3>4, <3>5, <1>1
    <3> QED BY <2>1, <3>6, <1>2, <1>5, RunOfTwo
  <2>2. CASE ~u.ok
    <3>1. Run(Fail, c, Fail) /\ AfterPass(p, fa, recirc) = Fail
      BY <2>2, <1>2, RunFails DEF AfterPass, FlowsOk
    <3> QED BY <2>2, <3>1, <1>2, <1>5, RunOfTwo
  <2> QED BY <2>1, <2>2
(* The lines between two passes. *)
<1>7. Run(AfterPass(p, fa, recirc), d, AfterPass(p, fa, recirc))
  <2> PICK t : t = AfterPass(p, fa, recirc)
    OBVIOUS
  <2>1. CASE recirc
    <3> PICK l1, l2 : l1 = PlainLine("other") /\ l2 = PlainLine("comment")
      OBVIOUS
    <3>1. \/ t = Fail
          \/ \E pt : t = Ok(pt)
      BY DEF AfterPass
    <3>2. ReadTrace(t, l1) = t /\ ReadTrace(t, l2) = t
      BY <3>1, <1>3, SkippedLineRead
    <3>3. Run(t, <<l1, l2>>, ReadTrace(ReadTrace(t, l1), l2))
      BY RunOfFew
    <3> QED BY <2>1, <3>2, <3>3, <1>1
  <2>2. CASE ~recirc
    BY <2>2, <1>1, RunOfNone
  <2> QED BY <2>1, <2>2
<1> PICK v3, w : v3 = (a \o b) \o c /\ w = ((a \o b) \o c) \o d
  OBVIOUS
<1> PICK t : t = AfterPass(p, fa, recirc)
  OBVIOUS
<1>8. w \in Seq(S) /\ Run(s, w, t)
  <2>1. w \in Seq(S) /\ Follows(w, v3, d)
    BY <1>2
  <2>2. Run(s, v3, t) /\ Run(t, d, t)
    BY <1>6, <1>7
  <2> QED BY ONLY <2>1, <2>2, RunOfTwo
<1> QED
  BY <1>1, <1>8

-----------------------------------------------------------------------------
(* Traces: one pass after another *)

(* The passes up to m have been read from the text as: the flows and the   *)
(* datapath actions of the last one, and the actions of all of them, the   *)
(* mark after the last pass of the trace left out; or as an error.         *)
AllOk(passes, m) == \A i \in 1 .. m : FlowsOk(passes[i])
OfLast(passes, m, flow, final, da) ==
    m # 0 => /\ flow = UnmarshalDataPathFlows(passes[m].flow).v
             /\ final = UnmarshalDataPathFlows(passes[m].final).v
             /\ da = passes[m].actions
OfAll(passes, m, fa, acts) == IF m < Len(passes) THEN fa = acts ELSE Append(fa, Recirc) = acts
IsReadAs(passes, m, text, acts, flow, final, da, fa) ==
    /\ Run(Ok(NewProtoTrace), text, Ok(TraceSoFar(flow, final, da, fa)))
    /\ OfLast(passes, m, flow, final, da) /\ OfAll(passes, m, fa, acts)
PassesReadAs(passes, m, text, acts, T) ==
    IF AllOk(passes, m)
    THEN \E flow, final, da : \E fa \in Seq(T) : IsReadAs(passes, m, text, acts, flow, final, da, fa)
    ELSE Run(Ok(NewProtoTrace), text, Fail)

LEMMA OnePassMore ==
  ASSUME NEW passes, Len(passes) \in Nat, NEW m \in Nat, m + 1 <= Len(passes),
         NEW p, p = passes[m + 1], NEW T, Recirc \in T, p.acts \in Seq(T),
         NEW S, LinesOf(p) \subseteq S, NEW text \in Seq(S), NEW acts, PassesReadAs(passes, m, text, acts, T)
  PROVE  /\ text \o PrintPass(p, m + 1 < Len(passes)) \in Seq(S)
         /\ PassesReadAs(passes, m + 1, text \o PrintPass(p, m + 1 < Len(passes)),
                         acts \o Append(p.acts, Recirc), T)
<1> PICK recirc, s : recirc = (m + 1 < Len(passes)) /\ s = Ok(NewProtoTrace)
  OBVIOUS
<1> PICK more, w, all : more = PrintPass(p, recirc) /\ w = text \o more /\ all = acts \o Append(p.acts, Recirc)
  OBVIOUS
<1>1. recirc \in BOOLEAN /\ 1 .. m + 1 = 1 .. m \cup {m + 1} /\ m < Len(passes)
  OBVIOUS
<1>2. AllOk(passes, m + 1) <=> AllOk(passes, m) /\ FlowsOk(p)
  BY <1>1 DEF AllOk
<1>3. more \in Seq(S) /\ \A flow, final, da : \A fa \in Seq(T) :
                            Run(Ok(TraceSoFar(flow, final, da, fa)), more, AfterPass(p, fa, recirc))
  <2>1. <<>> \in Seq(T)
    OBVIOUS
  <2>2. ASSUME NEW flow, NEW final, NEW da, NEW fa \in Seq(T)
        PROVE  more \in Seq(S) /\ Run(Ok(TraceSoFar(flow, final, da, fa)), more, AfterPass(p, fa, recirc))
    BY <1>1, PassRead
  <2> QED BY <2>1, <2>2
<1>4. w \in Seq(S) /\ Follows(w, text, more) /\ Len(more) \in Nat
  BY <1>3, Concatenated, LenProperties
<1>5. CASE AllOk(passes, m)
  <2>1. PICK flow, final, da : \E fa \in Seq(T) : IsReadAs(passes, m, text, acts, flow, final, da, fa)
    BY <1>5 DEF PassesReadAs
  <2>2. PICK fa \in Seq(T) : IsReadAs(passes, m, text, acts, flow, final, da, fa)
    BY <2>1
  <2>3. Run(s, text, Ok(TraceSoFar(flow, final, da, fa))) /\ fa = acts
    BY <2>2, <1>1 DEF IsReadAs, OfAll
  <2>4. Run(s, w, AfterPass(p, fa, recirc))
    BY <2>3, <1>3, <1>4, RunOfTwo
  <2>5. CASE FlowsOk(p)
    <3> PICK u, v : u = UnmarshalDataPathFlows(p.flow).v /\ v = UnmarshalDataPathFlows(p.final).v
      OBVIOUS
    <3> PICK pa, fp : pa = p.acts /\ fp = fa \o pa
      OBVIOUS
    <3> PICK now : now = Marked(fp, recirc)
      OBVIOUS
    <3>1. fp \in Seq(T)
      BY ConcatProperties
    <3>2. now \in Seq(T)
      BY <3>1, AppendProperties DEF Marked
    <3>3. Append(fp, Recirc) = all
      <4>1. AppendsToEnd(fa, pa, Recirc)
        BY AppendToConcat
      <4> QED BY <4>1, <2>3 DEF AppendsToEnd
    <3>4. OfAll(passes, m + 1, now, all)
      BY <3>3 DEF OfAll, Marked
    <3>5. OfLast(passes, m + 1, u, v, p.actions)
      BY DEF OfLast
    <3>6. Run(s, w, Ok(TraceSoFar(u, v, p.actions, now)))
      BY <2>4, <2>5 DEF AfterPass
    <3>7. IsReadAs(passes, m + 1, w, all, u, v, p.actions, now)
      BY <3>4, <3>5, <3>6 DEF IsReadAs
    <3>8. PassesReadAs(passes, m + 1, w, all, T)
      BY <3>2, <3>7, <1>2, <1>5, <2>5 DEF PassesReadAs
    <3> QED BY <3>8, <1>4
  <2>6. CASE ~FlowsOk(p)
    <3>1. Run(s, w, Fail)
      BY <2>4, <2>6 DEF AfterPass
    <3>2. PassesReadAs(passes, m + 1, w, all, T)
      BY <3>1, <1>2, <2>6 DEF PassesReadAs
    <3> QED BY <3>2, <1>4
  <2> QED BY <2>5, <2>6
<1>6. CASE ~AllOk(passes, m)
  <2>1. Run(s, text, Fail)
    BY <1>6 DEF PassesReadAs
  <2>2. Run(Fail, more, Fail)
    BY <1>4, RunFails
  <2>3. Run(s, w, Fail)
    BY <2>1, <2>2, <1>4, RunOfTwo
  <2>4. PassesReadAs(passes, m + 1, w, all, T)
    BY <2>3, <1>2, <1>6 DEF PassesReadAs
  <2> QED BY <2>4, <1>4
<1> QED
  BY <1>5, <1>6

(* So all passes of a trace are read.                                      *)
IsTrace(passes, T) ==
    /\ Len(passes) \in Nat \ {0} /\ DOMAIN passes = 1 .. Len(passes)
    /\ \A i \in 1 .. Len(passes) :
          passes[i].acts \in Seq(T) /\ IsFields(passes[i].flow) /\ IsFields(passes[i].final)

LEMMA PassesRead ==
  ASSUME NEW passes, NEW T, Recirc \in T, IsTrace(passes, T)
  PROVE  /\ Len(PrintTrace(passes)) \in Nat
         /\ PassesReadAs(passes, Len(passes), PrintTrace(passes), AllActions(passes), T)
<1> PICK n : n = Len(passes)
  OBVIOUS
<1>1. n \in Nat /\ n # 0 /\ \A i \in 1 .. n : passes[i].acts \in Seq(T)
  BY DEF IsTrace
<1>2. PICK W : /\ PrintTrace(passes) = W[n] /\ W[0] = <<>>
               /\ \A i \in 1 .. n : W[i] = W[i - 1] \o PrintPass(passes[i], i < n)
  BY <1>1, PassesPrinted
<1>3. PICK A : /\ AllActions(passes) = A[n] /\ A[0] = <<>>
               /\ \A i \in 1 .. n : A[i] = A[i - 1] \o Append(passes[i].acts, Recirc)
  BY <1>1, ActionsCollected
<1> DEFINE S == UNION {LinesOf(passes[i]) : i \in 1 .. n}
           U == {m \in Nat : m <= n => W[m] \in Seq(S) /\ PassesReadAs(passes, m, W[m], A[m], T)}
<1>4. \A i \in 1 .. n : LinesOf(passes[i]) \subseteq S
  OBVIOUS
<1> HIDE DEF S
<1>5. 0 \in U
  <2> PICK none : none = NewDataPathFlows
    OBVIOUS
  <2> PICK a : a = A[0]
    OBVIOUS
  <2>1. NewProtoTrace = TraceSoFar(none, none, 0, a)
    BY <1>3 DEF NewProtoTrace, TraceSoFar
  <2>2. Run(Ok(NewProtoTrace), W[0], Ok(TraceSoFar(none, none, 0, a)))
    BY <2>1, <1>2, RunOfNone
  <2>3. OfLast(passes, 0, none, none, 0) /\ OfAll(passes, 0, a, a)
    BY <1>1 DEF OfLast, OfAll
  <2>4. IsReadAs(passes, 0, W[0], a, none, none, 0, a)
    BY <2>2, <2>3 DEF IsReadAs
  <2>5. AllOk(passes, 0) /\ a \in Seq(T) /\ W[0] \in Seq(S)
    BY <1>2, <1>3 DEF AllOk
  <2>6. PassesReadAs(passes, 0, W[0], a, T)
    BY <2>4, <2>5 DEF PassesReadAs
  <2> QED BY <2>5, <2>6
<1>6. \A m \in Nat : m \in U => m + 1 \in U
  <2> SUFFICES ASSUME NEW m \in Nat, m \in U, m + 1 <= n
               PROVE  W[m + 1] \in Seq(S) /\ PassesReadAs(passes, m + 1, W[m + 1], A[m + 1], T)
    OBVIOUS
  <2>1. m + 1 \in 1 .. n /\ (m + 1) - 1 = m /\ m <= n
    BY <1>1
  <2> PICK p, text, acts : p = passes[m + 1] /\ text = W[m] /\ acts = A[m]
    OBVIOUS
  <2>2. text \in Seq(S) /\ PassesReadAs(passes, m, text, acts, T)
    BY <2>1
  <2>3. W[m + 1] = text \o PrintPass(p, m + 1 < Len(passes)) /\ A[m + 1] = acts \o Append(p.acts, Recirc)
    BY <2>1, <1>2, <1>3
  <2>4. p.acts \in Seq(T) /\ LinesOf(p) \subseteq S
    BY <2>1, <1>1, <1>4
  <2>5. Len(passes) \in Nat /\ m + 1 <= Len(passes)
    BY <1>1
  <2>6. /\ text \o PrintPass(p, m + 1 < Len(passes)) \in Seq(S)
        /\ PassesReadAs(passes, m + 1, text \o PrintPass(p, m + 1 < Len(passes)),
                        acts \o Append(p.acts, Recirc), T)
    BY <2>2, <2>4, <2>5, OnePassMore
  <2> QED BY <2>3, <2>6
<1>7. Nat \subseteq U
  <2> HIDE DEF U
  <2> QED BY <1>5, <1>6, Induction
<1>8. W[n] \in Seq(S) /\ PassesReadAs(passes, n, W[n], A[n], T)
  BY <1>1, <1>7
<1> QED
  BY <1>2, <1>3, <1>8, LenProperties

(* A trace, of any number of passes with any flows and actions, is read as *)
(* it was printed: the flows of the last pass and the actions of all of    *)
(* them, or an error where a flow is not understood (AppService.ProtoTrace *)
(* and ProtoTrace.UnmarshalText).                                          *)
THEOREM TraceIsExact ==
  ASSUME NEW passes, NEW T, Recirc \in T, IsTrace(passes, T), NEW matches
  PROVE  TraceExact(passes, matches)
<1> PICK n, text, r, last : /\ n = Len(passes) /\ text = PrintTrace(passes)
                            /\ r = ProtoTrace(matches, text) /\ last = passes[n]
  OBVIOUS
<1> DEFINE printed == \A i \in DOMAIN matches : MarshalMatch(matches[i]).ok
<1>1. n \in Nat \ {0} /\ DOMAIN passes = 1 .. n /\ IsFields(last.flow) /\ IsFields(last.final)
  BY DEF IsTrace
<1>2. Len(text) \in Nat /\ PassesReadAs(passes, n, text, AllActions(passes), T)
  BY PassesRead
<1>3. Run(Ok(NewProtoTrace), text, UnmarshalProtoTrace(text))
  <2>1. PICK W : /\ UnmarshalProtoTrace(text) = W[Len(text)] /\ W[0] = Ok(NewProtoTrace)
                 /\ \A i \in 1 .. Len(text) : W[i] = ReadTrace(W[i - 1], text[i])
    BY <1>2, TraceLinesRead
  <2>2. Steps(W, Ok(NewProtoTrace), text, UnmarshalProtoTrace(text))
    BY <2>1 DEF Steps
  <2> QED BY <2>2 DEF Run
<1>4. AllOk(passes, n)
        <=> \A i \in DOMAIN passes : /\ UnmarshalDataPathFlows(passes[i].flow).ok
                                     /\ UnmarshalDataPathFlows(passes[i].final).ok
  BY <1>1 DEF AllOk, FlowsOk
<1>5. r = IF printed THEN UnmarshalProtoTrace(text) ELSE Fail
  BY DEF ProtoTrace
<1>6. ~Fail.ok /\ \A x : Ok(x).ok /\ Ok(x).v = x
  BY OkFields DEF Fail
<1> HIDE DEF printed
<1>7. CASE ~AllOk(passes, n)
  <2>1. UnmarshalProtoTrace(text) = Fail
    BY <1>7, <1>2, <1>3, RunIsUnique DEF PassesReadAs
  <2>2. ~r.ok
    BY <2>1, <1>5, <1>6
  <2> QED BY <2>2, <1>4, <1>7 DEF TraceExact, printed
<1>8. CASE AllOk(passes, n)
  <2>1. PICK flow, final, da : \E fa \in Seq(T) : IsReadAs(passes, n, text, AllActions(passes), flow, final, da, fa)
    BY <1>2, <1>8 DEF PassesReadAs
  <2>2. PICK fa : IsReadAs(passes, n, text, AllActions(passes), flow, final, da, fa)
    BY <2>1
  <2> PICK pt : pt = TraceSoFar(flow, final, da, fa)
    OBVIOUS
  <2>3. UnmarshalProtoTrace(text) = Ok(pt)
    BY <2>2, <1>2, <1>3, RunIsUnique DEF IsReadAs
  <2>4. pt.InputFlow = flow /\ pt.FinalFlow = final /\ pt.DataPathActions = da /\ pt.FlowActions = fa
    BY DEF TraceSoFar
  <2>5. /\ flow = UnmarshalDataPathFlows(last.flow).v /\ final = UnmarshalDataPathFlows(last.final).v
        /\ da = last.actions /\ Append(fa, Recirc) = AllActions(passes)
    BY <2>2, <1>1 DEF IsReadAs, OfLast, OfAll
  <2>6. UnmarshalDataPathFlows(last.flow).ok /\ UnmarshalDataPathFlows(last.final).ok
    BY <1>1, <1>8 DEF AllOk, FlowsOk
  <2>7. FlowOfTrace(flow, last.flow) /\ FlowOfTrace(final, last.final)
    BY <2>5, <2>6, <1>1, TraceFlowIsExact
  <2>8. r.ok <=> printed
    BY <2>3, <1>5, <1>6
  <2>9. r.ok => r.v = pt
    BY <2>3, <2>8, <1>5, <1>6
  <2>10. /\ r.ok <=> printed /\ AllOk(passes, n)
         /\ r.ok => /\ Append(r.v.FlowActions, Recirc) = AllActions(passes)
                    /\ FlowOfTrace(r.v.InputFlow, last.flow) /\ FlowOfTrace(r.v.FinalFlow, last.final)
                    /\ r.v.DataPathActions = last.actions
    BY <2>4, <2>5, <2>7, <2>8, <2>9, <1>8
  <2> QED BY <2>10, <1>4 DEF TraceExact, printed
<1> QED
  BY <1>7, <1>8

-----------------------------------------------------------------------------
(* The inputs of the run *)

(* The inputs of MCCommands are such fields, matches, actions, texts and   *)
(* flows, and replies of ct-get-limits: what the theorems above ask for    *)
(* holds of them.                                                          *)
TraceTexts == Nat
CounterWords == [key : {"reply", "packet_count", "byte_count", "flow_count"}, n : Nat]

InputOK ==
    /\ input.kind = "field" => IsValue(input.val)
    /\ input.kind = "match" => Constructed(input.m)
    /\ input.kind = "action" => LibraryAction(input.a)
    /\ input.kind = "range" => input.key \in DOMAIN PortKey /\ input.start \in Ports /\ input.end \in Ports
    /\ input.kind = "acttext" => Dumped(input.text)
    /\ input.kind = "cut" => input.chars \in Seq(Chars)
    /\ input.kind = "ctget" => input.reply \in Seq(CtLines)
    /\ input.kind = "ports" => input.ports \in Seq(PortRecords) /\ input.of13 \in BOOLEAN
    /\ input.kind = "tables" => input.tables \in Seq(TableRecords)
    /\ input.kind = "aggregate" => input.words \in Seq(CounterWords)
    /\ input.kind = "trace" => IsTrace(input.passes, TraceTexts)

(* The numbers of the inputs. *)
LEMMA NumbersType == Numbers \subseteq Int /\ \A n \in Numbers : -1 <= n
<1>1. ASSUME NEW u \in {U8, U12, U16, U20, U32, U64}, NEW n \in {u - 1, u, u + 3}
      PROVE  n \in Int /\ -1 <= n
  BY WidthAssumption
<1>2. ASSUME NEW n \in Numbers
      PROVE  n \in {-1, 0, 1, 4, 5, 7, 9, 10} \/ \E u \in {U8, U12, U16, U20, U32, U64} : n \in {u - 1, u, u + 3}
  BY DEF Numbers
<1> QED
  BY <1>1, <1>2

(* Token makes tokens. *)
LEMMA TokenIs ==
  ASSUME NEW t, NEW n \in Int, NEW x \in Int, t \in {"dec", "hex"} => x = 0
  PROVE  IsToken(Token(t, n, x))
BY DEF IsToken, Token

(* So are the tokens of the inputs. *)
LEMMA TokensType ==
  /\ \A tok \in NumTokens \cup FewTokens : IsToken(tok)
  /\ \A tok \in Addresses \cup Macs \cup Flags : IsToken(tok)
  /\ \A n \in Int : IsToken(Dec(n)) /\ IsToken(Hex(n))
  /\ \A tok \in Strings : IsToken(tok) /\ (tok = Empty \/ tok.t \notin {"dec", "hex"})
  /\ IsToken(Word("any"))
<1>1. \A n \in Int : IsToken(Dec(n)) /\ IsToken(Hex(n))
  BY TokenIs DEF Dec, Hex
<1>2. \A tok \in NumTokens : IsToken(tok)
  BY <1>1, NumbersType DEF NumTokens
<1>3. \A tok \in FewTokens : IsToken(tok)
  BY <1>1, WidthAssumption DEF FewTokens
<1>4. \A tok \in Addresses : IsToken(tok)
  BY TokenIs DEF Addresses, IP4, IP6
<1>5. \A tok \in Macs : IsToken(tok)
  BY TokenIs DEF Macs, Mac
<1>6. \A tok \in Flags : IsToken(tok)
  <2>1. \A i \in 1 .. 2, s \in {-1, 0, 1, 2} : IsToken(Flag(i, s))
    BY TokenIs DEF Flag
  <2> QED
    BY <2>1 DEF Flags
<1>7. \A w : IsToken(Word(w))
  BY TokenIs DEF Word
<1>8. IsToken(Empty)
  BY <1>7 DEF Empty
<1>9. Word("a").t = "a" /\ Word("b").t = "b"
  BY DEF Word, Token
<1> QED
  BY <1>1, <1>2, <1>3, <1>4, <1>5, <1>6, <1>7, <1>8, <1>9 DEF Strings

(* One, two or three tokens are a value. *)
LEMMA ValuesOf ==
  /\ \A t : IsToken(t) => IsValue(<<t>>)
  /\ \A t, u : IsToken(t) /\ IsToken(u) => IsValue(<<t, u>>)
  /\ \A t, u, w : IsToken(t) /\ IsToken(u) /\ IsToken(w) => IsValue(<<t, u, w>>)
<1>1. ASSUME NEW t, IsToken(t) PROVE IsValue(<<t>>)
  <2>1. PICK v : v = <<t>>
    OBVIOUS
  <2>2. Len(v) = 1 /\ v = [i \in 1 .. 1 |-> v[i]] /\ \A i \in 1 .. 1 : v[i] = t
    BY <2>1
  <2> QED
    BY <1>1, <2>1, <2>2 DEF IsValue
<1>2. ASSUME NEW t, NEW u, IsToken(t), IsToken(u) PROVE IsValue(<<t, u>>)
  <2>1. PICK v : v = <<t, u>>
    OBVIOUS
  <2>2. Len(v) = 2 /\ v = [i \in 1 .. 2 |-> v[i]] /\ \A i \in 1 .. 2 : v[i] \in {t, u}
    BY <2>1
  <2> QED
    BY <1>2, <2>1, <2>2 DEF IsValue
<1>3. ASSUME NEW t, NEW u, NEW w, IsToken(t), IsToken(u), IsToken(w) PROVE IsValue(<<t, u, w>>)
  <2>1. PICK v : v = <<t, u, w>>
    OBVIOUS
  <2>2. Len(v) = 3 /\ v = [i \in 1 .. 3 |-> v[i]] /\ \A i \in 1 .. 3 : v[i] \in {t, u, w}
    BY <2>1
  <2> QED
    BY <1>3, <2>1, <2>2 DEF IsValue
<1> QED
  BY <1>1, <1>2, <1>3

(* The values of the fields of the inputs are values. *)
LEMMA ValuesType == \A v \in Values1 \cup Values2 \cup Values3 : IsValue(v)
<1>1. \A v \in Values1 : IsValue(v)
  BY TokensType, ValuesOf DEF Values1, Strings
<1>2. \A v \in Values2 : IsValue(v)
  BY TokensType, ValuesOf DEF Values2
<1>3. \A v \in Values3 : IsValue(v)
  BY TokensType, ValuesOf DEF Values3
<1> QED
  BY <1>1, <1>2, <1>3

(* The numbers that fit in a width. *)
LEMMA FitsType ==
  ASSUME NEW u \in Int, NEW n \in Fits(u)
  PROVE  n \in 0 .. u - 1
<1>1. n \in Int /\ 0 <= n /\ n < u
  BY NumbersType DEF Fits
<1> QED
  BY <1>1

(* The widths of the kinds of numbers. *)
LEMMA KindWidths ==
  /\ \A kind \in DOMAIN NumKinds : NumKinds[kind] \in Int
  /\ \A kind \in DOMAIN MaskKinds : MaskKinds[kind] \in Int
BY WidthAssumption DEF NumKinds, MaskKinds, Over, Single

(* The matches of the inputs are matches of the library. *)
LEMMA MatchesMade == \A m \in MadeMatches : Constructed(m)
<1>1. ASSUME NEW k \in DOMAIN NumKinds, NEW n \in Fits(NumKinds[k])
      PROVE  Constructed(NumMatch(k, n))
  BY KindWidths, FitsType DEF Constructed
<1>2. ASSUME NEW k \in IntKinds, NEW n \in Numbers, n < U32 \div 2
      PROVE  Constructed(NumMatch(k, n))
  <2>1. n \in -(U64 \div 2) .. MaxInt32
    BY <1>2, NumbersType, WidthFacts, WidthAssumption DEF MaxInt32
  <2> QED
    BY <2>1 DEF Constructed
<1>3. ASSUME NEW k \in {"DataLinkVLAN", "DataLinkVLANPCP"}, NEW n \in Numbers
      PROVE  Constructed(NumMatch(k, n))
  BY NumbersType DEF Constructed
<1>4. ASSUME NEW k \in DOMAIN MaskKinds, NEW a \in Fits(MaskKinds[k]), NEW b \in Fits(MaskKinds[k])
      PROVE  Constructed(MaskMatch(k, a, b))
  BY KindWidths, FitsType DEF Constructed
<1>5. ASSUME NEW k \in DOMAIN NetworkKey \cup DOMAIN ARPProtocolKey \cup DOMAIN IPv6Key
                          \cup DOMAIN TunnelKey \cup {"NeighborDiscoveryTarget"},
             NEW v \in {<<a>> : a \in Addresses} \cup {<<a, Dec(n)>> : a \in Addresses, n \in {0, 24, 33}}
      PROVE  Constructed(StrMatch(k, v))
  <2>1. IsValue(v)
    BY TokensType, ValuesOf
  <2>2. CASE k \in DOMAIN TunnelKey
    BY <2>2, StrFields DEF TunnelKey, Unread, Constructed
  <2>3. CASE k \notin DOMAIN TunnelKey
    BY <2>1, <2>3 DEF AddressKinds, Constructed
  <2> QED
    BY <2>2, <2>3
<1>6. ASSUME NEW k \in DOMAIN NDKey \cup DOMAIN ARPHardwareKey \cup {"DataLinkSource", "DataLinkDestination"}, NEW v
      PROVE  Constructed(StrMatch(k, v))
  BY DEF Constructed
<1>7. ASSUME NEW k \in {"ConnectionTrackingState", "TCPFlags"},
             NEW f \in SignedFlags, NEW g \in SignedFlags
      PROVE  Constructed(StrMatch(k, <<f, g>>))
  <2>1. PICK v : v = <<f, g>>
    OBVIOUS
  <2>2. IsValue(v) /\ Len(v) = 2 /\ v[1] = f /\ v[2] = g
    BY <2>1, TokensType, ValuesOf DEF SignedFlags
  <2>3. Signed(v)
    BY <2>2 DEF Signed, SignedFlags
  <2> QED
    BY <2>1, <2>3 DEF Constructed
<1>8. Constructed(StrMatch("IPFrag", <<Word("yes")>>)) /\ Constructed(StrMatch("FieldMatch", <<Word("reg0"), Hex(1)>>))
  BY StrFields DEF Constructed, Unread
<1>9. \A m \in NumberMatches : Constructed(m)
  <2> DEFINE A == UNION {{NumMatch(k, n) : n \in Fits(NumKinds[k])} : k \in DOMAIN NumKinds}
             B == {NumMatch(k, n) : k \in IntKinds, n \in {i \in Numbers : i < U32 \div 2}}
             C == {NumMatch(k, n) : k \in {"DataLinkVLAN", "DataLinkVLANPCP"}, n \in Numbers}
  <2>1. ASSUME NEW m \in NumberMatches PROVE m \in A \cup B \cup C
    BY DEF NumberMatches
  <2>2. ASSUME NEW m \in A PROVE Constructed(m)
    <3>1. PICK k \in DOMAIN NumKinds : m \in {NumMatch(k, n) : n \in Fits(NumKinds[k])}
      OBVIOUS
    <3> QED
      BY <1>1, <3>1
  <2>3. ASSUME NEW m \in B PROVE Constructed(m)
    <3>1. PICK k \in IntKinds, n \in {i \in Numbers : i < U32 \div 2} : m = NumMatch(k, n)
      OBVIOUS
    <3> QED
      BY <1>2, <3>1
  <2>4. ASSUME NEW m \in C PROVE Constructed(m)
    <3>1. PICK k \in {"DataLinkVLAN", "DataLinkVLANPCP"}, n \in Numbers : m = NumMatch(k, n)
      OBVIOUS
    <3> QED
      BY <1>3, <3>1
  <2> HIDE DEF A, B, C
  <2> QED
    BY <2>1, <2>2, <2>3, <2>4
<1>10. \A m \in MaskMatches : Constructed(m)
  BY <1>4 DEF MaskMatches
<1>11. \A m \in AddressMatches : Constructed(m)
  BY <1>5 DEF AddressMatches
<1>12. \A m \in HardwareMatches : Constructed(m)
  <2> DEFINE A == {StrMatch(k, <<a>>) : k \in DOMAIN NDKey \cup DOMAIN ARPHardwareKey, a \in Macs}
             B == {StrMatch(k, v) : k \in {"DataLinkSource", "DataLinkDestination"},
                                    v \in {<<a>> : a \in Macs} \cup {<<a, b>> : a, b \in Macs}}
  <2>1. ASSUME NEW m \in HardwareMatches PROVE m \in A \cup B
    BY DEF HardwareMatches
  <2>2. ASSUME NEW m \in A PROVE Constructed(m)
    <3>1. PICK k \in DOMAIN NDKey \cup DOMAIN ARPHardwareKey, a \in Macs : m = StrMatch(k, <<a>>)
      OBVIOUS
    <3> QED
      BY <1>6, <3>1
  <2>3. ASSUME NEW m \in B PROVE Constructed(m)
    <3> DEFINE V == {<<a>> : a \in Macs} \cup {<<a, b>> : a, b \in Macs}
               K == {"DataLinkSource", "DataLinkDestination"}
    <3>1. m \in {StrMatch(k, v) : k \in K, v \in V}
      OBVIOUS
    <3> HIDE DEF V
    <3>2. PICK k \in K, v \in V : m = StrMatch(k, v)
      BY <3>1
    <3> QED
      BY <1>6, <3>2
  <2> HIDE DEF A, B
  <2> QED
    BY <2>1, <2>2, <2>3
<1>13. \A m \in FlagMatches : Constructed(m)
  <2>1. SUFFICES ASSUME NEW m \in FlagMatches PROVE Constructed(m)
    OBVIOUS
  <2>2. PICK k \in {"ConnectionTrackingState", "TCPFlags"} :
          \E f \in SignedFlags : \E g \in SignedFlags : m = StrMatch(k, <<f, g>>)
    BY SMTT(30) DEF FlagMatches
  <2> QED
    BY <1>7, <2>2
<1>14. \A m \in OtherMatches : Constructed(m)
  BY <1>8 DEF OtherMatches
<1> QED
  BY <1>9, <1>10, <1>11, <1>12, <1>13, <1>14 DEF MadeMatches

(* The actions of the inputs are actions of the library: words and         *)
(* strings,                                                                *)
LEMMA WordActionsMade == \A a \in WordActions : LibraryAction(a)
<1>1. SUFFICES ASSUME NEW a \in WordActions PROVE LibraryAction(a)
  OBVIOUS
<1>2. \/ \E w \in TextActions : a = Action(w, <<>>, <<>>)
      \/ \E k \in {"ConnectionTracking", "OutputField"} : \E s \in Strings : a = Action(k, <<>>, <<s>>)
      \/ \E k \in {"Load", "SetField", "Move"} : \E s \in Strings : \E t \in Strings : a = Action(k, <<>>, <<s, t>>)
  BY SMTT(30) DEF WordActions
<1>3. CASE \E w \in TextActions : a = Action(w, <<>>, <<>>)
  BY <1>3 DEF LibraryAction
<1>4. CASE \E k \in {"ConnectionTracking", "OutputField"} : \E s \in Strings : a = Action(k, <<>>, <<s>>)
  BY <1>4, TokensType DEF LibraryAction
<1>5. CASE \E k \in {"Load", "SetField", "Move"} : \E s \in Strings : \E t \in Strings : a = Action(k, <<>>, <<s, t>>)
  BY <1>5 DEF LibraryAction
<1> QED
  BY <1>2, <1>3, <1>4, <1>5

(* addresses, *)
LEMMA AddressActionsMade == \A a \in DataLinkActions \cup NetworkActions : LibraryAction(a)
<1>1. ASSUME NEW a \in DataLinkActions PROVE LibraryAction(a)
  <2>2. \E k \in DataLinkKinds : \E s \in Macs : a = Action(k, <<>>, <<s>>)
    BY DEF DataLinkActions
  <2>3. \E k \in DOMAIN DataLinkWord \cup DOMAIN NetworkWord : \E s : IsToken(s) /\ a = Action(k, <<>>, <<s>>)
    BY <2>2, TokensType DEF DataLinkKinds, NetworkKinds
  <2> QED
    BY <2>3 DEF LibraryAction
<1>2. ASSUME NEW a \in NetworkActions PROVE LibraryAction(a)
  <2>2. \E k \in NetworkKinds : \E s \in Addresses : a = Action(k, <<>>, <<s>>)
    BY DEF NetworkActions
  <2>3. \E k \in DOMAIN DataLinkWord \cup DOMAIN NetworkWord : \E s : IsToken(s) /\ a = Action(k, <<>>, <<s>>)
    BY <2>2, TokensType DEF DataLinkKinds, NetworkKinds
  <2> QED
    BY <2>3 DEF LibraryAction
<1> QED
  BY <1>1, <1>2

(* numbers, *)
LEMMA NumberActionsMade ==
  \A a \in TransportActions \cup NumberActions \cup TunnelActions \cup ResubmitActions \cup ConjunctionActions :
      LibraryAction(a)
<1>1. -1 \in Int64 /\ \A n \in {0, 1, 2, 5, 10} : n \in Int64 /\ 0 <= n
  <2>1. 10 < U64 \div 2
    BY WidthAssumption
  <2> QED
    BY <2>1, WidthFacts DEF Int64
<1>2. ASSUME NEW a \in TransportActions PROVE LibraryAction(a)
  <2>2. \E k \in TransportKinds : \E n \in Fits(U16) : a = Action(k, <<n>>, <<>>)
    BY DEF TransportActions
  <2>3. \A n \in Fits(U16) : n \in 0 .. U16 - 1
    BY FitsType, WidthAssumption
  <2>4. \E kind \in DOMAIN TransportWord, n \in 0 .. U16 - 1 : a = Action(kind, <<n>>, <<>>)
    BY <2>2, <2>3 DEF TransportKinds
  <2> QED
    BY <2>4 DEF LibraryAction
<1>3. ASSUME NEW a \in NumberActions PROVE LibraryAction(a)
  <2>1. \E k \in {"ModVLANVID", "Output", "ResubmitPort"} : \E n \in SmallNumbers : a = Action(k, <<n>>, <<>>)
    BY DEF NumberActions
  <2>2. \A n \in SmallNumbers : n \in Int64
    BY NumbersType, WidthFacts, WidthAssumption DEF SmallNumbers, Int64
  <2>3. \E kind \in {"ModVLANVID", "Output", "ResubmitPort"}, n \in Int64 : a = Action(kind, <<n>>, <<>>)
    BY <2>1, <2>2
  <2> QED
    BY <2>3 DEF LibraryAction
<1>4. ASSUME NEW a \in TunnelActions PROVE LibraryAction(a)
  <2>1. \E n : a = Action("SetTunnel", <<n>>, <<>>)
    BY DEF TunnelActions
  <2> QED
    BY <2>1 DEF LibraryAction
<1>5. ASSUME NEW a \in ResubmitActions PROVE LibraryAction(a)
  <2>1. \E n \in {0, 1, 10} : \E m \in {0, 1, 10} : a = Action("Resubmit", <<n, m>>, <<>>)
    BY DEF ResubmitActions
  <2>2. \E n, m \in Int64 : 0 <= n /\ 0 <= m /\ a = Action("Resubmit", <<n, m>>, <<>>)
    BY <1>1, <2>1
  <2> QED
    BY <2>2 DEF LibraryAction
<1>6. ASSUME NEW a \in ConjunctionActions PROVE LibraryAction(a)
  <2>1. \E i \in {-1, 5} : \E n \in {0, 1, 2} : \E m \in {0, 1, 2} : a = Action("Conjunction", <<i, n, m>>, <<>>)
    BY DEF ConjunctionActions
  <2>2. \E i, n, m \in Int64 : a = Action("Conjunction", <<i, n, m>>, <<>>)
    BY <1>1, <2>1
  <2> QED
    BY <2>2 DEF LibraryAction
<1> QED
  BY <1>2, <1>3, <1>4, <1>5, <1>6

(* and all of them. *)
LEMMA ActionsMade == \A a \in MadeActions \cup LearnActions : LibraryAction(a)
<1>1. \A f : Learn(f).kind = "Learn"
  BY DEF Learn, Action
<1>2. \A a \in LearnActions : LibraryAction(a)
  <2>1. SUFFICES ASSUME NEW a \in LearnActions PROVE LibraryAction(a)
    OBVIOUS
  <2>2. \E f : a = Learn(f)
    BY DEF LearnActions
  <2> QED
    BY <1>1, <2>2 DEF LibraryAction
<1>3. \A n, s : LibraryAction(Action("Multipath", n, s))
  BY DEF LibraryAction
<1> QED
  BY <1>2, <1>3, WordActionsMade, AddressActionsMade, NumberActionsMade DEF MadeActions

(* The arguments of the texts of the inputs are tokens. *)
LEMMA ArgumentsType ==
  /\ \A t \in NumberArgs : IsToken(t)
  /\ \A t \in AddressArgs : IsToken(t)
  /\ \A t \in ResubmitArgs : IsToken(t)
  /\ \A t \in ConjunctionArgs : IsToken(t)
<1>1. IsToken(Empty) /\ IsToken(Word("a"))
  BY TokensType DEF Strings
<1>2. \A n \in Int : IsToken(Dec(n)) /\ IsToken(Hex(n))
  BY TokensType
<1>3. \A t \in NumberArgs : IsToken(t)
  BY <1>1, TokensType DEF NumberArgs
<1>4. \A t \in AddressArgs : IsToken(t)
  BY TokensType DEF AddressArgs
<1>5. \A t \in ResubmitArgs : IsToken(t)
  BY <1>1, <1>2, WidthAssumption DEF ResubmitArgs
<1>6. \A t \in ConjunctionArgs : IsToken(t)
  BY <1>1, <1>2 DEF ConjunctionArgs
<1> QED
  BY <1>3, <1>4, <1>5, <1>6

(* A text with as many arguments as its word takes ... *)
LEMMA TextIsDumped ==
  ASSUME NEW w, w # "learn", NEW up \in BOOLEAN, NEW args, args = <<>> \/ IsValue(args),
         w \in TextActions => args = <<>>,
         w \in OneArgument => Len(args) = 1,
         w \in TwoArguments => Len(args) = 2
  PROVE  Dumped(TextOf(w, up, args))
<1>1. PICK text : text = TextOf(w, up, args)
  OBVIOUS
<1>2. /\ text = [word |-> w, args |-> args, up |-> up, inner |-> <<>>]
      /\ text.word = w /\ text.args = args /\ text.up = up /\ text.inner = <<>>
  BY <1>1 DEF TextOf
<1>3. /\ Len(args) \in Nat /\ args = [i \in 1 .. Len(args) |-> args[i]]
      /\ \A i \in 1 .. Len(args) : IsToken(args[i])
  <2>1. CASE args = <<>>
    BY <2>1
  <2>2. CASE IsValue(args)
    BY <2>2 DEF IsValue
  <2> QED
    BY <2>1, <2>2
<1> QED
  BY <1>1, <1>2, <1>3 DEF Dumped

(* (The lengths of the tuples.) *)
LEMMA Lengths == \A t, u, w : <<>> # <<t>> /\ Len(<<t>>) = 1 /\ Len(<<t, u>>) = 2 /\ Len(<<t, u, w>>) = 3
OBVIOUS

(* ... in lower case. *)
LEMMA LowerIsDumped ==
  ASSUME NEW w, w # "learn", w \notin TextActions, NEW args, IsValue(args),
         w \in OneArgument => Len(args) = 1,
         w \in TwoArguments => Len(args) = 2
  PROVE  Dumped(ActText(w, args))
<1>1. FALSE \in BOOLEAN
  OBVIOUS
<1>2. Dumped(TextOf(w, FALSE, args))
  BY <1>1, TextIsDumped
<1> QED
  BY <1>2 DEF ActText, TextOf

(* The texts of the inputs are texts of dumped actions. *)
LEMMA TextsMade == \A t \in ActTexts : Dumped(t)
<1>1. ASSUME NEW text \in PlainTexts PROVE Dumped(text)
  <2>1. PICK w \in PlainWords : \E up \in BOOLEAN : text = TextOf(w, up, <<>>)
    BY DEF PlainTexts
  <2>2. w # "learn" /\ w \notin OneArgument /\ w \notin TwoArguments
    BY <2>1 DEF PlainWords, TextActions, OneArgument, TwoArguments
  <2> QED
    BY <2>1, <2>2, TextIsDumped
<1>2. ASSUME NEW text \in NumberTexts PROVE Dumped(text)
  <2>1. PICK w \in NumberWords : \E t \in NumberArgs : \E up \in BOOLEAN : text = TextOf(w, up, <<t>>)
    BY DEF NumberTexts
  <2>2. w # "learn" /\ w \notin TextActions /\ w \notin TwoArguments
    BY <2>1 DEF NumberWords, TextActions, TwoArguments
  <2> QED
    BY <2>1, <2>2, TextIsDumped, Lengths, ArgumentsType, ValuesOf
<1>3. ASSUME NEW text \in AddressTexts PROVE Dumped(text)
  <2>1. PICK w \in AddressWords : \E t \in AddressArgs : text = ActText(w, <<t>>)
    BY DEF AddressTexts
  <2>2. w # "learn" /\ w \notin TextActions /\ w \notin TwoArguments
    BY <2>1 DEF AddressWords, TextActions, TwoArguments
  <2> QED
    BY <2>1, <2>2, LowerIsDumped, Lengths, ArgumentsType, ValuesOf
<1>4. ASSUME NEW text \in ResubmitTexts PROVE Dumped(text)
  <2>1. PICK s \in ResubmitArgs : \E t \in ResubmitArgs : text = ActText("resubmit(", <<s, t>>)
    BY DEF ResubmitTexts
  <2>2. "resubmit(" # "learn" /\ "resubmit(" \notin TextActions /\ "resubmit(" \notin OneArgument
    BY DEF TextActions, OneArgument
  <2> QED
    BY <2>1, <2>2, LowerIsDumped, Lengths, ArgumentsType, ValuesOf
<1>5. ASSUME NEW text \in ConjunctionTexts PROVE Dumped(text)
  <2>1. PICK s \in ConjunctionArgs : \E t \in ConjunctionArgs : text = ActText("conjunction", <<Dec(1), s, t>>)
    BY DEF ConjunctionTexts
  <2>2. /\ "conjunction" # "learn" /\ "conjunction" \notin TextActions
        /\ "conjunction" \notin OneArgument /\ "conjunction" \notin TwoArguments
    BY DEF TextActions, OneArgument, TwoArguments
  <2>3. IsToken(Dec(1))
    BY TokensType
  <2> QED
    BY <2>1, <2>2, <2>3, LowerIsDumped, Lengths, ArgumentsType, ValuesOf
<1>6. ASSUME NEW text \in ArrowTexts PROVE Dumped(text)
  <2>1. PICK w \in ArrowWords : \E args \in ArrowArgs : text = ActText(w, args)
    BY DEF ArrowTexts
  <2>2. w # "learn" /\ w \notin TextActions /\ w \notin OneArgument
    BY <2>1 DEF ArrowWords, TextActions, OneArgument
  <2>3. \A t \in Strings : IsToken(t)
    BY TokensType
  <2>4. \A args \in ArrowArgs : IsValue(args) /\ Len(args) = 2
    BY <2>3, Lengths, ValuesOf DEF ArrowArgs
  <2> QED
    BY <2>1, <2>2, <2>4, LowerIsDumped
<1> QED
  BY <1>1, <1>2, <1>3, <1>4, <1>5, <1>6 DEF ActTexts

(* The replies of the inputs are sequences of lines. *)
LEMMA RepliesMade == \A r \in SeqsUpTo(ReplyLines, MaxLines) : r \in Seq(CtLines)
<1>1. ReplyLines \subseteq CtLines
  <2>1. EmptyLine \in CtLines
    BY DEF EmptyLine, CtLine, CtLines, NoField, CtFields
  <2>2. CtLine(TRUE, <<CtWord("default")>>) \in CtLines
    <3>1. CtWord("default") \in CtFields
      BY DEF CtWord, CtFields
    <3>2. \A x \in CtFields : <<x>> \in Seq(CtFields)
      OBVIOUS
    <3>3. \A fs \in Seq(CtFields) : CtLine(TRUE, fs) \in CtLines
      BY DEF CtLine, CtLines
    <3> QED
      BY <3>1, <3>2, <3>3
  <2>3. DefaultLine(7) \in CtLines /\ ZoneLine(1, 5) \in CtLines /\ ZoneLine(2, 0) \in CtLines
    BY LinesType
  <2> QED
    BY ONLY <2>1, <2>2, <2>3, Zenon DEF ReplyLines
<1>2. SUFFICES ASSUME NEW n \in 1 .. MaxLines, NEW r \in [1 .. n -> ReplyLines] PROVE r \in Seq(CtLines)
  BY DEF SeqsUpTo
<1>3. n \in Nat
  BY BoundsAssumption
<1> QED
  BY <1>1, <1>3

(* The lists of actions of the inputs are texts over Chars. *)
LEMMA ListsMade == \A cs \in SeqsUpTo(Chars, MaxChars) : cs \in Seq(Chars)
<1>1. SUFFICES ASSUME NEW n \in 1 .. MaxChars, NEW cs \in [1 .. n -> Chars] PROVE cs \in Seq(Chars)
  BY DEF SeqsUpTo
<1>2. n \in Nat
  BY BoundsAssumption
<1> QED
  BY <1>1, <1>2

(* The ports, the tables and the counters of the inputs. *)
LEMMA PortsMade ==
  ASSUME FeedPorts
  PROVE  input'.kind = "ports" /\ input'.ports \in Seq(PortRecords) /\ input'.of13 \in BOOLEAN
<1>1. PICK c \in SeqsUpTo(BOOLEAN, MaxPorts), of13 \in BOOLEAN :
         input' = [kind |-> "ports", of13 |-> of13, ports |-> [i \in DOMAIN c |-> PortStats(i, c[i])]]
  BY DEF FeedPorts
<1>2. PICK k \in 1 .. MaxPorts : c \in [1 .. k -> BOOLEAN]
  BY DEF SeqsUpTo
<1>3. ASSUME NEW i \in Nat, NEW b \in BOOLEAN PROVE PortStats(i, b) \in PortRecords
  <2>1. /\ (IF i = 3 THEN PortLocal ELSE i) \in Int /\ (IF i = 2 THEN Unknown ELSE 10 * i) \in Int
        /\ 10 * i + 1 \in Int
    BY DEF PortLocal, Unknown
  <2> QED BY <2>1 DEF PortStats, PortRecords
<1>4. [i \in DOMAIN c |-> PortStats(i, c[i])] \in Seq(PortRecords)
  <2>1. DOMAIN c = 1 .. k /\ k \in Nat /\ \A i \in 1 .. k : i \in Nat /\ c[i] \in BOOLEAN
    BY <1>2, BoundsAssumption
  <2>2. \A i \in 1 .. k : PortStats(i, c[i]) \in PortRecords
    BY <2>1, <1>3
  <2> QED BY <2>1, <2>2
<1> QED BY <1>1, <1>4

LEMMA TablesMade ==
  ASSUME FeedTables
  PROVE  input'.kind = "tables" /\ input'.tables \in Seq(TableRecords)
<1>1. PICK s \in SeqsUpTo(Shapes \X Uses, 2) :
         input' = [kind |-> "tables", tables |-> [i \in DOMAIN s |-> TableStats(i, s[i][1], s[i][2])]]
  BY DEF FeedTables
<1>2. PICK k \in 1 .. 2 : s \in [1 .. k -> Shapes \X Uses]
  BY DEF SeqsUpTo
<1>3. ASSUME NEW i \in Nat, NEW h \in Shapes, NEW u \in Uses PROVE TableStats(i, h, u) \in TableRecords
  <2>1. u[1] \in Nat /\ u[2] \in Nat /\ u[3] \in Nat
    BY DEF Uses
  <2> QED BY <2>1 DEF TableStats, TableRecords, Shapes
<1>4. [i \in DOMAIN s |-> TableStats(i, s[i][1], s[i][2])] \in Seq(TableRecords)
  <2>1. DOMAIN s = 1 .. k /\ k \in Nat /\ \A i \in 1 .. k : i \in Nat /\ s[i][1] \in Shapes /\ s[i][2] \in Uses
    BY <1>2
  <2>2. \A i \in 1 .. k : TableStats(i, s[i][1], s[i][2]) \in TableRecords
    BY <2>1, <1>3
  <2> QED BY <2>1, <2>2
<1> QED BY <1>1, <1>4

LEMMA CountersMade ==
  ASSUME FeedAggregate
  PROVE  input'.kind = "aggregate" /\ input'.words \in Seq(CounterWords)
<1> DEFINE names == {"reply", "packet_count", "byte_count", "flow_count"}
<1>1. PICK w \in SeqsUpTo(names, MaxLines) :
         input' = [kind |-> "aggregate", words |-> [i \in DOMAIN w |-> [key |-> w[i], n |-> i]]]
  BY DEF FeedAggregate
<1>2. PICK k \in 1 .. MaxLines : w \in [1 .. k -> names]
  BY DEF SeqsUpTo
<1>3. [i \in DOMAIN w |-> [key |-> w[i], n |-> i]] \in Seq(CounterWords)
  <2>1. DOMAIN w = 1 .. k /\ k \in Nat /\ \A i \in 1 .. k : i \in Nat /\ w[i] \in names
    BY <1>2, BoundsAssumption
  <2>2. \A i \in 1 .. k : [key |-> w[i], n |-> i] \in CounterWords
    BY <2>1 DEF CounterWords
  <2> QED BY <2>1, <2>2
<1> QED BY <1>1, <1>3

(* The passes of the inputs. *)
LEMMA PassFlowsMade ==
  \A f \in {SentFlow, BackFlow, OddFlow, <<Bare("unchanged")>>} : IsFields(f)
<1>1. ASSUME NEW k PROVE Bare(k).val = <<>>
  BY FieldFields DEF Bare
<1>2. ASSUME NEW k, NEW v, IsValue(v) PROVE IsValue(Field(k, v).val)
  BY <1>2, FieldFields
<1>3. /\ \A w : IsToken(Word(w))
      /\ IsToken(IP4(1, 0)) /\ IsToken(Dec(0)) /\ IsToken(Dec(4)) /\ IsToken(Hex(1))
      /\ IsToken(Flag(1, 0)) /\ IsToken(Flag(2, 2))
  BY TokenIs DEF Word, IP4, Dec, Hex, Flag
<1>4. /\ \A w : IsValue(<<Word(w)>>)
      /\ IsValue(<<IP4(1, 0)>>) /\ IsValue(<<Dec(0)>>) /\ IsValue(<<Dec(4)>>) /\ IsValue(<<Hex(1)>>)
      /\ IsValue(<<Flag(1, 0), Flag(2, 2)>>)
  BY <1>3, ValuesOf
<1> DEFINE Good(x) == x.val = <<>> \/ IsValue(x.val)
<1>5. /\ \A k : Good(Bare(k))
      /\ \A k, v : IsValue(v) => Good(Field(k, v))
  BY <1>1, <1>2
<1>6. ASSUME NEW f, NEW n \in Nat, Len(f) = n, DOMAIN f = 1 .. n, \A i \in 1 .. n : Good(f[i])
      PROVE  IsFields(f)
  BY <1>6 DEF IsFields
<1> HIDE DEF Good
<1>7. ASSUME NEW a, NEW b, NEW c, NEW d, NEW e, Good(a), Good(b), Good(c), Good(d), Good(e)
      PROVE  IsFields(<<a, b, c, d, e>>)
  <2> PICK f : f = <<a, b, c, d, e>>
    OBVIOUS
  <2>1. Len(f) = 5 /\ DOMAIN f = 1 .. 5 /\ f[1] = a /\ f[2] = b /\ f[3] = c /\ f[4] = d /\ f[5] = e
    OBVIOUS
  <2>2. \A i \in 1 .. 5 : i = 1 \/ i = 2 \/ i = 3 \/ i = 4 \/ i = 5
    OBVIOUS
  <2>3. \A i \in 1 .. 5 : Good(f[i])
    BY <1>7, <2>1, <2>2
  <2> QED BY <2>1, <2>3, <1>6
<1>8. ASSUME NEW a, NEW b, Good(a), Good(b) PROVE IsFields(<<a>>) /\ IsFields(<<a, b>>)
  <2> PICK f, g : f = <<a>> /\ g = <<a, b>>
    OBVIOUS
  <2>1. /\ Len(f) = 1 /\ DOMAIN f = 1 .. 1 /\ f[1] = a
        /\ Len(g) = 2 /\ DOMAIN g = 1 .. 2 /\ g[1] = a /\ g[2] = b
    OBVIOUS
  <2>2. (\A i \in 1 .. 1 : Good(f[i])) /\ (\A i \in 1 .. 2 : Good(g[i]))
    BY <1>8, <2>1
  <2>3. IsFields(f)
    BY <2>1, <2>2, <1>6
  <2>4. IsFields(g)
    BY <2>1, <2>2, <1>6
  <2> QED BY <2>3, <2>4
<1>9. IsFields(SentFlow)
  BY <1>4, <1>5, <1>7 DEF SentFlow
<1>10. IsFields(BackFlow)
  BY <1>4, <1>5, <1>7 DEF BackFlow
<1>11. IsFields(OddFlow) /\ IsFields(<<Bare("unchanged")>>)
  BY <1>4, <1>5, <1>8 DEF OddFlow
<1> QED
  BY <1>9, <1>10, <1>11

LEMMA TracesMade ==
  ASSUME FeedTrace
  PROVE  input'.kind = "trace" /\ IsTrace(input'.passes, TraceTexts)
<1>1. PICK t \in SeqsUpTo(SomePasses, MaxPasses) :
         \E m : input' = [kind |-> "trace", passes |-> [i \in DOMAIN t |-> PassOf(i, t[i])], matches |-> m]
  BY DEF FeedTrace
<1>2. PICK k \in 1 .. MaxPasses : t \in [1 .. k -> SomePasses]
  BY DEF SeqsUpTo
<1>3. k \in Nat \ {0} /\ DOMAIN t = 1 .. k /\ \A i \in 1 .. k : i \in Nat /\ t[i] \in SomePasses
  BY <1>2, BoundsAssumption
<1>4. ASSUME NEW i \in Nat, NEW q \in SomePasses
      PROVE  /\ PassOf(i, q).acts \in Seq(TraceTexts)
             /\ IsFields(PassOf(i, q).flow) /\ IsFields(PassOf(i, q).final)
  <2>1. /\ q[1] \in {SentFlow, BackFlow, OddFlow}
        /\ q[2] \in {BackFlow, <<Bare("unchanged")>>, OddFlow} /\ q[3] \in 0 .. 2
    BY DEF SomePasses
  <2>2. PassOf(i, q).flow = q[1] /\ PassOf(i, q).final = q[2] /\ PassOf(i, q).acts = [j \in 1 .. q[3] |-> 10 * i + j]
    BY DEF PassOf
  <2>3. q[3] \in Nat /\ \A j \in 1 .. q[3] : 10 * i + j \in TraceTexts
    BY <2>1 DEF TraceTexts
  <2> HIDE DEF TraceTexts
  <2>4. [j \in 1 .. q[3] |-> 10 * i + j] \in Seq(TraceTexts)
    BY <2>3
  <2> QED BY <2>1, <2>2, <2>4, PassFlowsMade
<1> PICK ps : ps = [i \in DOMAIN t |-> PassOf(i, t[i])]
  OBVIOUS
<1>5. Len(ps) = k /\ DOMAIN ps = 1 .. k /\ \A i \in 1 .. k : ps[i] = PassOf(i, t[i])
  BY <1>3
<1>6. IsTrace(ps, TraceTexts)
  BY <1>3, <1>4, <1>5 DEF IsTrace
<1> QED
  BY <1>1, <1>6

(* So an input that Feed makes is as InputOK says, ... *)
LEMMA Inputs ==
  ASSUME Feed
  PROVE  InputOK'
<1>1. CASE FeedMatch
  BY <1>1, ValuesType, MatchesMade DEF FeedMatch, InputOK
<1>2. CASE FeedAction
  BY <1>2, ActionsMade, TextsMade DEF FeedAction, InputOK
<1>3. CASE FeedLimits
  BY <1>3, RepliesMade DEF FeedLimits, InputOK
<1>4. CASE FeedActions \/ FeedRange
  <2>1. CASE FeedActions
    BY <2>1, ListsMade DEF FeedActions, InputOK
  <2>2. CASE FeedRange
    BY <2>2 DEF FeedRange, InputOK
  <2> QED
    BY <1>4, <2>1, <2>2
<1>5. CASE FeedPorts \/ FeedTables \/ FeedAggregate
  <2>1. CASE FeedPorts
    BY <2>1, PortsMade DEF InputOK
  <2>2. CASE FeedTables
    BY <2>2, TablesMade DEF InputOK
  <2>3. CASE FeedAggregate
    BY <2>3, CountersMade DEF InputOK
  <2> QED
    BY <1>5, <2>1, <2>2, <2>3
<1>6. CASE FeedTrace
  BY <1>6, TracesMade DEF InputOK
<1> QED
  BY <1>1, <1>2, <1>3, <1>4, <1>5, <1>6 DEF Feed

(* ... and every input is, at any time. *)
LEMMA InputInvariant == Spec => []InputOK
<1>1. Init => InputOK
  BY DEF Init, None, InputOK
<1>2. InputOK /\ [Next]_vars => InputOK'
  <2>1. ASSUME InputOK, input' = input PROVE InputOK'
    BY <2>1 DEF InputOK
  <2>2. ASSUME input' = None PROVE InputOK'
    BY <2>2 DEF None, InputOK
  <2>3. ASSUME InputOK, Next PROVE InputOK'
    BY <2>1, <2>2, <2>3, Inputs DEF Next, Take
  <2>4. ASSUME InputOK, UNCHANGED vars PROVE InputOK'
    BY <2>1, <2>4 DEF vars
  <2> QED
    BY <2>3, <2>4
<1> QED
  BY <1>1, <1>2, PTL DEF Spec

-----------------------------------------------------------------------------
(* The run *)

(* In every run of the commands a field of a dumped flow is kept or        *)
(* rejected (parseMatch and MarshalText).                                  *)
THEOREM FieldsAreKept == Spec => []FieldsKept
<1>1. InputOK => FieldsKept
  BY FieldIsKept DEF InputOK, FieldsKept
<1> QED
  BY <1>1, InputInvariant, PTL

(* In every run of the commands a match of the library is read back from   *)
(* its own text.                                                           *)
THEOREM MatchesAreReadBack == Spec => []MatchesReadBack
<1>1. InputOK => MatchesReadBack
  BY MatchIsReadBack DEF InputOK, MatchesReadBack
<1> QED
  BY <1>1, InputInvariant, PTL

(* In every run of the commands the text of an action is parsed as that    *)
(* action or rejected.                                                     *)
THEOREM ActionsAreReadBack == Spec => []ActionsReadBack
<1>1. InputOK => ActionsReadBack
  BY ActionIsReadBack DEF InputOK, ActionsReadBack
<1> QED
  BY <1>1, InputInvariant, PTL

(* In every run of the commands a dumped action is kept or rejected        *)
(* (parseAction and MarshalText).                                          *)
THEOREM ActionsAreKept == Spec => []ActionsKept
<1>1. InputOK => ActionsKept
  BY ActionIsKept DEF InputOK, ActionsKept
<1> QED
  BY <1>1, InputInvariant, PTL

(* In every run of the commands a list of actions is cut at the commas     *)
(* outside parentheses and nowhere else (actionParser.Parse).              *)
THEOREM ActionsAreCut == Spec => []ActionsCut
<1>1. InputOK => ActionsCut
  BY ListsAreCut DEF InputOK, ActionsCut
<1> QED
  BY <1>1, InputInvariant, PTL

(* In every run of the commands the matches for a range of ports select    *)
(* the ports of the range, each once (MaskedPorts).                        *)
THEOREM RangesAreExact == Spec => []RangesExact
<1>1. InputOK => RangesExact
  BY RangeIsExact DEF InputOK, RangesExact
<1> QED
  BY <1>1, InputInvariant, PTL

(* In every run of the commands the statistics of ports and tables, and    *)
(* the totals of dump-aggregate, are those that were printed, or the call  *)
(* returns an error (parseEach, ovs/openflow.go).                          *)
THEOREM DumpsAreExact == Spec => []DumpsExact
<1>1. InputOK => DumpsExact
  BY PortsAreExact, TablesAreExact, AggregatesAreExact DEF InputOK, DumpsExact
<1> QED
  BY <1>1, InputInvariant, PTL

(* In every run of the commands ProtoTrace returns the actions of every    *)
(* pass of a packet in their order, and the flows of the last one, or an   *)
(* error (ovs/app.go, ovs/proto_trace.go).                                 *)
THEOREM TracesAreExact == Spec => []TracesExact
<1>1. Recirc \in TraceTexts
  BY DEF Recirc, TraceTexts
<1>2. InputOK => TracesExact
  BY <1>1, TraceIsExact DEF InputOK, TracesExact
<1> QED
  BY <1>2, InputInvariant, PTL

(* In every run of the commands GetCTLimits returns the limits of the      *)
(* reply, each once, and SetCTLimits runs its command for a default alone  *)
(* or for a zone with its limit.                                           *)
THEOREM CommandLimitsAreExact == Spec => []CtLimitsExact
<1>1. InputOK => CtLimitsExact
  BY LimitsAreExact, SetLimitsArgs DEF InputOK, CtLimitsExact
<1> QED
  BY <1>1, InputInvariant, PTL

(* The commands implement the specifications of the three services, so     *)
(* that what is proved of OpenFlowService, of VSwitchService and of        *)
(* DataPathService holds of the commands together.                         *)
THEOREM Components == Spec => OpenFlowSpec /\ VSwitchSpec /\ DataPathSpec
<1>1. Init => OpenFlowInit /\ VSwitchInit /\ DataPathInit
  BY DEF Init
<1>2. [Next]_vars => [OpenFlowNext]_openFlowVars
  BY DEF Next, Take, vars
<1>3. [Next]_vars => [VSwitchNext]_vswitchVars /\ [DataPathNext]_dataPathVars
  BY DEF Next, Take, vars
<1> QED
  BY <1>1, <1>2, <1>3, PTL DEF Spec, OpenFlowSpec, VSwitchSpec, DataPathSpec

(* The callers, the bridge, the database (no port is without its bridge)   *)
(* and the datapath are always in a state that TypeOK describes.           *)
THEOREM CommandsType == Spec => []TypeOK
<1>1. FlowsInv /\ VSwitchTypeOK /\ DataPathTypeOK => TypeOK
  BY FlowsType DEF TypeOK
<1> QED
  BY <1>1, Components, FlowsInvariant, VSwitchType, DataPathType, PTL

(* In every run of the commands with flows of the library, of one table    *)
(* each, all the flows that a bridge holds survive together: dumps return  *)
(* the flows that were added, and DelFlows with the MatchFlow of a dumped  *)
(* flow deletes what was meant (ovs/openflow.go).                          *)
THEOREM FlowsAreSafe ==
  ASSUME \A f \in Flows : LibraryFlow(f) /\ f.Table # AnyTable
  PROVE  Spec => []DumpFaithful /\ []DeleteDumped
<1>1. \A f \in Flows : FlowReadBack(f) /\ OwnFields(f)
  BY LibraryFlowIsReadBack, FlowsAssumption
<1>2. OpenFlowSpec => []DumpFaithful
  BY <1>1, DumpsAreFaithful
<1>3. OpenFlowSpec => []DeleteDumped
  BY <1>1, DumpedAreDeleted
<1> QED
  BY <1>2, <1>3, Components, PTL

(* What the flows of the runs have in common (the fields that NewFlow and  *)
(* the three constructors give them).                                      *)
PlainFlow(f) ==
    /\ f.Protocol \in {Empty, Word("tcp")} /\ f.Table \in {0, 1}
    /\ f.Matches \in {<<>>, NetworkMatch, TransportMatch}
    /\ f.Actions \in SomeActions \cup {<<OutputTo(1)>>}

(* Each of the three constructors leaves the other fields as they are.     *)
LEMMA PlainFlowsAre ==
  ASSUME NEW f \in PlainFlows
  PROVE  PlainFlow(f)
<1>1. NewFlow.Protocol = Empty /\ NewFlow.Table = 0 /\ NewFlow.Matches = <<>>
  BY DEF NewFlow
<1>2. ASSUME NEW i, NEW m \in {<<>>, NetworkMatch}, NEW c PROVE PlainFlow(PortFlow(i, m, c))
  <2> PICK g : g = PortFlow(i, m, c)
    OBVIOUS
  <2>1. g.Protocol = Empty /\ g.Table = 0 /\ g.Matches = m /\ g.Actions = <<OutputTo(1)>>
    BY <1>1 DEF NewFlow, PortFlow
  <2> QED BY <2>1 DEF PlainFlow
<1>3. ASSUME NEW t \in {0, 1} PROVE PlainFlow(TransportFlow(t))
  <2> PICK g : g = TransportFlow(t)
    OBVIOUS
  <2>1. g.Protocol = Word("tcp") /\ g.Table = t /\ g.Matches = TransportMatch /\ g.Actions = <<OutputTo(1)>>
    BY DEF NewFlow, TransportFlow
  <2> QED BY <2>1 DEF PlainFlow
<1>4. ASSUME NEW a \in SomeActions PROVE PlainFlow(IdleFlow(a))
  <2> PICK g : g = IdleFlow(a)
    OBVIOUS
  <2>1. g.Protocol = Empty /\ g.Table = 0 /\ g.Matches = <<>> /\ g.Actions = a
    BY <1>1 DEF NewFlow, IdleFlow
  <2> QED BY <2>1 DEF PlainFlow
<1>5. \/ \E i \in {0, PortLOCAL}, m \in {<<>>, NetworkMatch}, c \in {0, 5} : f = PortFlow(i, m, c)
      \/ \E t \in {0, 1} : f = TransportFlow(t)
      \/ \E a \in SomeActions : f = IdleFlow(a)
  BY DEF PlainFlows
<1> QED
  BY <1>2, <1>3, <1>4, <1>5

(* Their matches are matches that the constructors of the library return.  *)
LEMMA PlainMatches ==
  ASSUME NEW mm \in {<<>>, NetworkMatch, TransportMatch}, NEW i \in DOMAIN mm
  PROVE  LibraryMatch(mm[i])
<1>1. IsToken(IP4(1, 0)) /\ IsToken(Dec(24)) /\ IsToken(Flag(1, 1)) /\ IsToken(Flag(2, -1)) /\ IsToken(Empty)
  BY TokenIs DEF IP4, Dec, Flag, Empty, Word
<1>2. LibraryMatch(StrMatch("NetworkDestination", <<IP4(1, 0), Dec(24)>>))
  <2> PICK v : v = <<IP4(1, 0), Dec(24)>>
    OBVIOUS
  <2>1. IsValue(v)
    BY <1>1, ValuesOf
  <2> PICK m : m = StrMatch("NetworkDestination", v)
    OBVIOUS
  <2>2. m.kind = "NetworkDestination" /\ m.s = v
    BY StrFields
  <2>3. "NetworkDestination" \in AddressKinds
    BY DEF AddressKinds, NetworkKey
  <2> QED BY <2>1, <2>2, <2>3 DEF LibraryMatch, Constructed, Unread
<1>3. LibraryMatch(StrMatch("ConnectionTrackingState", <<Flag(1, 1), Flag(2, -1)>>))
  <2> PICK v : v = <<Flag(1, 1), Flag(2, -1)>>
    OBVIOUS
  <2>1. IsValue(v) /\ Len(v) = 2 /\ v[1].x = 1 /\ v[2].x = -1
    <3>1. IsValue(v)
      BY <1>1, ValuesOf
    <3>2. Flag(1, 1).x = 1 /\ Flag(2, -1).x = -1
      BY DEF Flag, Token
    <3> QED BY <3>1, <3>2
  <2> PICK m : m = StrMatch("ConnectionTrackingState", v)
    OBVIOUS
  <2>2. m.kind = "ConnectionTrackingState" /\ m.s = v
    BY StrFields
  <2>3. Signed(v)
    <3>1. ASSUME NEW j \in 1 .. 2 PROVE v[j].x \in {1, -1}
      <4>1. CASE j = 1
        BY <4>1, <2>1
      <4>2. CASE j = 2
        BY <4>2, <2>1
      <4> QED BY <4>1, <4>2
    <3> QED BY <2>1, <3>1 DEF Signed
  <2> QED BY <2>1, <2>2, <2>3 DEF LibraryMatch, Constructed, Unread
<1>4. LibraryMatch(MaskMatch("TransportDestinationMaskedPort", U16 - 8, U16 - 8))
  <2> PICK kind, n, m : kind = "TransportDestinationMaskedPort" /\ n = U16 - 8 /\ m = MaskMatch(kind, n, n)
    OBVIOUS
  <2>1. kind \in DOMAIN MaskKinds /\ MaskKinds[kind] = U16
    BY DEF MaskKinds, Over, PortKey
  <2>2. n \in 0 .. U16 - 1
    BY WidthAssumption
  <2>3. m.kind = kind /\ m.s = <<Empty>>
    BY DEF MaskMatch, Match
  <2>4. IsValue(<<Empty>>)
    BY <1>1, ValuesOf
  <2>5. Constructed(m)
    BY <2>1, <2>2 DEF Constructed
  <2> QED BY <2>3, <2>4, <2>5 DEF LibraryMatch, Unread
<1>5. CASE mm = <<>>
  BY <1>5
<1>6. CASE mm = NetworkMatch
  <2>1. i = 1 /\ mm[1] = StrMatch("NetworkDestination", <<IP4(1, 0), Dec(24)>>)
    BY <1>6 DEF NetworkMatch
  <2> QED BY <2>1, <1>2
<1>7. CASE mm = TransportMatch
  <2>1. i \in {1, 2} /\ mm[1] = StrMatch("ConnectionTrackingState", <<Flag(1, 1), Flag(2, -1)>>)
        /\ mm[2] = MaskMatch("TransportDestinationMaskedPort", U16 - 8, U16 - 8)
    BY <1>7 DEF TransportMatch
  <2> QED BY <2>1, <1>3, <1>4
<1> QED
  BY <1>5, <1>6, <1>7

(* And so are their actions: each is printed and parsed alone.             *)
LEMMA PlainActions ==
  ASSUME NEW aa \in SomeActions \cup {<<OutputTo(1)>>}, NEW i \in DOMAIN aa
  PROVE  LibraryActionRead(aa[i])
<1>1. -1 \in Int64 /\ 0 \in Int64 /\ 1 \in Int64 /\ 5 \in Int64 /\ 10 \in Int64
  <2>1. 10 < U64 \div 2
    BY WidthAssumption
  <2> QED BY <2>1, WidthFacts DEF Int64
<1>2. \A n \in {-1, 1} : LibraryAction(OutputTo(n))
  BY <1>1 DEF OutputTo, LibraryAction
<1>3. \A w \in {"drop", "normal"} : LibraryAction(Action(w, <<>>, <<>>))
  BY DEF LibraryAction, TextActions
<1>4. LibraryAction(Action("ConnectionTracking", <<>>, <<Word("commit")>>))
  BY DEF LibraryAction
<1>5. LibraryAction(Action("ModVLANVID", <<10>>, <<>>))
  BY <1>1 DEF LibraryAction
<1>6. LibraryAction(Action("Resubmit", <<0, 5>>, <<>>))
  <2>1. \E n, m \in Int64 : 0 <= n /\ 0 <= m /\ Action("Resubmit", <<0, 5>>, <<>>) = Action("Resubmit", <<n, m>>, <<>>)
    BY <1>1
  <2> QED BY <2>1 DEF LibraryAction
<1>7. ASSUME NEW k, k # "Learn", NEW n, NEW s, LibraryAction(Action(k, n, s))
      PROVE  LibraryActionRead(Action(k, n, s))
  BY <1>7, ActionFields DEF LibraryActionRead
<1>8. /\ \A n \in {-1, 1} : LibraryActionRead(OutputTo(n))
      /\ \A w \in {"drop", "normal"} : LibraryActionRead(Action(w, <<>>, <<>>))
      /\ LibraryActionRead(Action("ConnectionTracking", <<>>, <<Word("commit")>>))
      /\ LibraryActionRead(Action("ModVLANVID", <<10>>, <<>>))
      /\ LibraryActionRead(Action("Resubmit", <<0, 5>>, <<>>))
  BY <1>2, <1>3, <1>4, <1>5, <1>6, <1>7 DEF OutputTo
<1>9. ASSUME NEW a, NEW b, aa = <<a, b>>, LibraryActionRead(a), LibraryActionRead(b) PROVE LibraryActionRead(aa[i])
  <2>1. i \in {1, 2} /\ aa[1] = a /\ aa[2] = b
    BY <1>9
  <2> QED BY <2>1, <1>9
<1>10. ASSUME NEW a, aa = <<a>>, LibraryActionRead(a) PROVE LibraryActionRead(aa[i])
  <2>1. i = 1 /\ aa[1] = a
    BY <1>10
  <2> QED BY <2>1, <1>10
<1>11. \/ aa = <<>> \/ aa = <<OutputTo(1)>> \/ aa = <<OutputTo(-1)>>
       \/ aa = <<Action("drop", <<>>, <<>>), OutputTo(1)>>
       \/ aa = <<Action("ConnectionTracking", <<>>, <<Word("commit")>>), Action("normal", <<>>, <<>>)>>
       \/ aa = <<Action("ModVLANVID", <<10>>, <<>>), Action("Resubmit", <<0, 5>>, <<>>)>>
  BY Zenon DEF SomeActions
<1> QED
  BY <1>8, <1>9, <1>10, <1>11

(* The flows of the runs of MCCommands are such flows, of one table each,  *)
(* so that the theorems say something of them.                             *)
THEOREM PlainFlowsAreLibraryFlows ==
  \A f \in PlainFlows : LibraryFlow(f) /\ f.Table # AnyTable
<1> SUFFICES ASSUME NEW f \in PlainFlows PROVE LibraryFlow(f) /\ f.Table # AnyTable
  OBVIOUS
<1>1. PlainFlow(f)
  BY PlainFlowsAre
<1>2. \A w : Word(w).t = w
  BY DEF Word, Token
<1>3. f.Protocol = Word(f.Protocol.t) /\ f.Protocol.t \notin OwnKeysOfLine
  <2>1. NoWord \notin OwnKeysOfLine
    BY DEF OwnKeysOfLine, NoWord
  <2>2. "tcp" \notin OwnKeysOfLine
    BY DEF OwnKeysOfLine
  <2> QED BY <1>1, <1>2, <2>1, <2>2 DEF PlainFlow, Empty
<1>4. \A i \in DOMAIN f.Matches : LibraryMatch(f.Matches[i])
  BY <1>1, PlainMatches DEF PlainFlow
<1>5. \A i \in DOMAIN f.Actions : LibraryActionRead(f.Actions[i])
  BY <1>1, PlainActions DEF PlainFlow
<1>6. f.Table # AnyTable
  BY <1>1 DEF PlainFlow, AnyTable
<1> QED BY <1>3, <1>4, <1>5, <1>6 DEF LibraryFlow

(* With them as the flows that are added, nothing is left to assume.       *)
COROLLARY PlainFlowsAreSafe ==
  ASSUME Flows \subseteq PlainFlows
  PROVE  Spec => []DumpFaithful /\ []DeleteDumped
<1>1. \A f \in Flows : LibraryFlow(f) /\ f.Table # AnyTable
  BY PlainFlowsAreLibraryFlows
<1> QED
  BY <1>1, FlowsAreSafe

(* So in every run of the commands a retried command of ovs-vsctl does no  *)
(* harm, what is read is what the database holds, no option is lost by     *)
(* another call, and the limits read back are those that were set.         *)
THEOREM ServicesAreSafe ==
  Spec => /\ [](RetrySafe /\ ReadsExact)
          /\ OptionsKept
          /\ []LimitsReadBack
BY Components, RetryIsSafe, ReadsAreExact, OptionsAreKept, LimitsAreReadBack, PTL
=============================================================================
