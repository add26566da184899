--------------------------- MODULE OpenFlow_proofs ---------------------------
(***************************************************************************)
(* Proofs about the flows of a bridge (OpenFlow), for any flows, any bound *)
(* of the bridge and any sequence of calls.  That a dump of many flows     *)
(* keeps each with its line, and that the MatchFlow of one selects it and  *)
(* what it should, is proved under the hypothesis that each flow survives  *)
(* by itself (FlowReadBack); the last section proves that hypothesis of    *)
(* every flow whose matches and actions survive by themselves, and         *)
(* Commands_proofs that those of the library do.                           *)
(***************************************************************************)
EXTENDS OpenFlow, Services_proofs, SequenceTheorems

-----------------------------------------------------------------------------
(* Reading the fields of a flow *)

(* The loop of parseFields as a sequence of steps: what a step returns is  *)
(* the flow so far, or an error that stays.                                *)
LEMMA FieldsParsed ==
    ASSUME NEW fields, Len(fields) \in Nat
    PROVE  \E W : /\ ParseFields(fields) = W[Len(fields)]
                  /\ W[0] = Ok(NewFlow)
                  /\ \A i \in 1 .. Len(fields) :
                        W[i] = IF W[i - 1].ok THEN ParseField(W[i - 1].v, fields[i]) ELSE Fail
<1> DEFINE n == Len(fields)
           Step(r, i) == IF r.ok THEN ParseField(r.v, fields[i]) ELSE Fail
           F(f) == [i \in 0 .. n |-> IF i = 0 THEN Ok(NewFlow) ELSE Step(f[i - 1], i)]
           Upto(W, m) == /\ W[0] = Ok(NewFlow)
                         /\ \A i \in 1 .. m : W[i] = Step(W[i - 1], i)
           S == {m \in Nat : \E W : Upto(W, m)}
<1> HIDE DEF Step
<1>1. 0 \in S
  <2>1. Upto([i \in 0 .. 0 |-> Ok(NewFlow)], 0)
    OBVIOUS
  <2> HIDE DEF Upto
  <2> QED BY <2>1
<1>2. \A m \in Nat : m \in S => m + 1 \in S
  <2> SUFFICES ASSUME NEW m \in Nat, m \in S PROVE \E W : Upto(W, m + 1)
    <3> HIDE DEF Upto
    <3> QED OBVIOUS
  <2>1. PICK W : Upto(W, m)
    <3> HIDE DEF Upto
    <3> QED OBVIOUS
  <2> DEFINE V == [i \in 0 .. m + 1 |-> IF i = m + 1 THEN Step(W[m], i) ELSE W[i]]
  <2>2. /\ \A i \in 0 .. m : V[i] = W[i]
        /\ V[m + 1] = Step(W[m], m + 1)
    OBVIOUS
  <2> HIDE DEF V
  <2>3. ASSUME NEW i \in 1 .. m + 1 PROVE V[i] = Step(V[i - 1], i)
    <3>1. CASE i = m + 1
      <4>1. i - 1 = m /\ V[m] = W[m]
        BY <3>1, <2>2
      <4> QED BY <3>1, <4>1, <2>2
    <3>2. CASE i \in 1 .. m
      <4>1. V[i] = W[i] /\ V[i - 1] = W[i - 1]
        BY <3>2, <2>2
      <4> QED BY <3>2, <4>1, <2>1
    <3> QED BY <3>1, <3>2
  <2>4. V[0] = Ok(NewFlow)
    BY <2>1, <2>2
  <2> QED BY <2>3, <2>4
<1>3. Nat \subseteq S
  <2> HIDE DEF S
  <2> QED BY <1>1, <1>2, Induction
<1>4. PICK W : Upto(W, n)
  BY <1>3
<1> DEFINE V == [i \in 0 .. n |-> W[i]]
           loop == CHOOSE f : f = F(f)
<1>5. V = F(V)
  <2>1. \A i \in 0 .. n : V[i] = IF i = 0 THEN Ok(NewFlow) ELSE Step(V[i - 1], i)
    <3> SUFFICES ASSUME NEW i \in 0 .. n PROVE V[i] = IF i = 0 THEN Ok(NewFlow) ELSE Step(V[i - 1], i)
      OBVIOUS
    <3>1. CASE i = 0
      BY <3>1, <1>4
    <3>2. CASE i \in 1 .. n
      <4>1. i - 1 \in 0 .. n /\ i # 0
        BY <3>2
      <4>2. V[i] = W[i] /\ V[i - 1] = W[i - 1]
        BY <4>1
      <4> QED BY <3>2, <4>1, <4>2, <1>4
    <3> QED BY <3>1, <3>2
  <2>2. V = [i \in 0 .. n |-> V[i]]
    OBVIOUS
  <2> HIDE DEF V
  <2> QED BY <2>1, <2>2
<1>6. loop = F(loop)
  <2> HIDE DEF F, V
  <2> QED BY <1>5, Zenon
<1>7. \A i \in 0 .. n : loop[i] = IF i = 0 THEN Ok(NewFlow) ELSE Step(loop[i - 1], i)
  <2> HIDE DEF loop
  <2> QED BY <1>6, Zenon
<1>8. ParseFields(fields) = loop[n]
  BY Zenon DEF ParseFields, Step, Then
<1> HIDE DEF loop, F
<1>9. loop[0] = Ok(NewFlow) /\ \A i \in 1 .. n : loop[i] = Step(loop[i - 1], i)
  BY <1>7
<1> QED BY <1>8, <1>9 DEF Step

(* The match that a field is read as. *)
Parsed(f) == parseMatch(f.key, f.val).v

(* The fields of the flow itself are not its matches ... *)
LEMMA OwnKeys ==
    \A k \in DOMAIN IntKeys \cup DOMAIN UintKeys :
        Over(IntKeys, UintKeys)[k] \in {"Priority", "Table", "IdleTimeout", "InPort", "Cookie", "PacketCount", "ByteCount"}
BY DEF IntKeys, UintKeys, Over

(* ... and a field that is read leaves the matches a sequence of matches.  *)
LEMMA FieldParsed ==
    ASSUME NEW M, NEW f, Parsed(f) \in M, NEW flow, "Matches" \in DOMAIN flow, flow.Matches \in Seq(M),
           ParseField(flow, f).ok
    PROVE  "Matches" \in DOMAIN ParseField(flow, f).v /\ ParseField(flow, f).v.Matches \in Seq(M)
<1>1. CASE f.val = <<>>
  <2>1. \E p : ParseField(flow, f) = Ok([flow EXCEPT !.Protocol = p])
    BY <1>1 DEF ParseField
  <2> QED BY <2>1 DEF Ok
<1>2. CASE f.val # <<>>
  <2> DEFINE skip == Contains(f.val, Word("=")) \/ f.key \in IgnoredKeys
             own == f.key \in DOMAIN IntKeys \cup DOMAIN UintKeys
  <2>1. CASE skip
    <3>1. ParseField(flow, f) = Ok(flow)
      BY <1>2, <2>1 DEF ParseField
    <3> QED BY <3>1 DEF Ok
  <2>2. CASE ~skip /\ own
    <3> DEFINE number ==
                 IF Len(f.val) # 1 THEN Fail
                 ELSE IF f.key = "in_port" /\ f.val[1] = Word("LOCAL") THEN Ok(PortLOCAL)
                 ELSE IF f.key \in DOMAIN IntKeys THEN Atoi(f.val[1])
                 ELSE ParseUint(f.val[1])
    <3>1. ParseField(flow, f) =
            IF number.ok THEN Ok([flow EXCEPT ![Over(IntKeys, UintKeys)[f.key]] = number.v]) ELSE Fail
      BY <1>2, <2>2, Zenon DEF ParseField, Then
    <3>2. Over(IntKeys, UintKeys)[f.key] # "Matches"
      BY <2>2, OwnKeys
    <3> DEFINE k == Over(IntKeys, UintKeys)[f.key]
               n == number.v
    <3> HIDE DEF number, k
    <3>3. number.ok
      <4>1. ParseField(flow, f) # Fail
        BY DEF Fail
      <4> QED BY <3>1, <4>1, Zenon
    <3>4. ParseField(flow, f).v = [flow EXCEPT ![k] = n]
      BY <3>1, <3>3 DEF Ok, k
    <3> HIDE DEF n
    <3>5. DOMAIN [flow EXCEPT ![k] = n] = DOMAIN flow
      OBVIOUS
    <3>6. k # "Matches"
      BY <3>2 DEF k
    <3>7. [flow EXCEPT ![k] = n].Matches = flow.Matches
      BY <3>6
    <3> QED BY <3>4, <3>5, <3>7
  <2>3. CASE ~skip /\ ~own
    <3> DEFINE match == IF f.blank THEN Skipped ELSE parseMatch(f.key, f.val)
    <3>1. ParseField(flow, f) =
            IF match.ok THEN Ok(IF match.v = NoMatch THEN flow ELSE [flow EXCEPT !.Matches = Append(@, match.v)])
            ELSE Fail
      BY <1>2, <2>3 DEF ParseField, Then
    <3>2. CASE ParseField(flow, f) = Ok(flow)
      BY <3>2 DEF Ok
    <3>3. CASE match.ok /\ match.v # NoMatch
      <4>1. ~f.blank
        BY <3>3 DEF Skipped, Ok
      <4>2. match.v \in M
        BY <4>1 DEF Parsed
      <4> HIDE DEF match
      <4>3. ParseField(flow, f).v = [flow EXCEPT !.Matches = Append(@, match.v)]
        BY <3>1, <3>3 DEF Ok
      <4>4. Append(flow.Matches, match.v) \in Seq(M)
        BY <4>2
      <4> QED BY <4>3, <4>4
    <3> QED BY <3>1, <3>2, <3>3 DEF Fail
  <2> QED BY <2>1, <2>2, <2>3
<1> QED BY <1>1, <1>2

(* So are the matches of a flow that was read. *)
LEMMA FlowFieldsParsed ==
    ASSUME NEW fields, Len(fields) \in Nat, ParseFields(fields).ok
    PROVE  /\ "Matches" \in DOMAIN ParseFields(fields).v
           /\ \E M : ParseFields(fields).v.Matches \in Seq(M)
<1> DEFINE n == Len(fields)
           M == {Parsed(fields[i]) : i \in 1 .. n}
           OK(r) == r.ok => "Matches" \in DOMAIN r.v /\ r.v.Matches \in Seq(M)
<1>1. PICK W : /\ ParseFields(fields) = W[n]
               /\ W[0] = Ok(NewFlow)
               /\ \A i \in 1 .. n :
                     W[i] = IF W[i - 1].ok THEN ParseField(W[i - 1].v, fields[i]) ELSE Fail
  BY FieldsParsed
<1> DEFINE S == {i \in Nat : i <= n => OK(W[i])}
<1>2. 0 \in S
  <2>1. W[0].v = NewFlow
    BY <1>1 DEF Ok
  <2>2. "Matches" \in DOMAIN NewFlow /\ NewFlow.Matches = <<>>
    BY DEF NewFlow
  <2>3. OK(W[0])
    BY <2>1, <2>2
  <2> QED BY <2>3
<1> HIDE DEF OK
<1>3. \A i \in Nat : i \in S => i + 1 \in S
  <2> SUFFICES ASSUME NEW i \in Nat, i + 1 <= n, OK(W[i]) PROVE OK(W[i + 1])
    OBVIOUS
  <2>1. i + 1 \in 1 .. n /\ (i + 1) - 1 = i
    OBVIOUS
  <2>2. W[i + 1] = IF W[i].ok THEN ParseField(W[i].v, fields[i + 1]) ELSE Fail
    BY <1>1, <2>1
  <2>3. Parsed(fields[i + 1]) \in M
    BY <2>1
  <2> HIDE DEF M
  <2> USE DEF OK
  <2>4. CASE W[i].ok
    BY <2>2, <2>3, <2>4, FieldParsed
  <2>5. CASE ~W[i].ok
    BY <2>2, <2>5 DEF Fail
  <2> QED BY <2>4, <2>5
<1>4. Nat \subseteq S
  <2> HIDE DEF S
  <2> QED BY <1>2, <1>3, Induction
<1>5. OK(W[n])
  BY <1>4
<1> QED BY <1>1, <1>5 DEF OK

-----------------------------------------------------------------------------
(* Printing a flow *)

(* The loop of parseEachLine as a sequence of steps. *)
LEMMA LinesRead ==
    ASSUME NEW output, output # <<>>, Len(output) - 1 \in Nat
    PROVE  \E W : /\ parseEachLine(output) = W[Len(output) - 1]
                  /\ W[0] = [flows |-> <<>>, ok |-> output[1] = Banner]
                  /\ \A i \in 1 .. Len(output) - 1 : W[i] = ReadLine(W[i - 1], output[i + 1])
<1> DEFINE n == Len(output) - 1
           Start == [flows |-> <<>>, ok |-> output[1] = Banner]
           Step(r, i) == ReadLine(r, output[i + 1])
           F(f) == [i \in 0 .. n |-> IF i = 0 THEN Start ELSE Step(f[i - 1], i)]
           Upto(W, m) == /\ W[0] = Start
                         /\ \A i \in 1 .. m : W[i] = Step(W[i - 1], i)
           S == {m \in Nat : \E W : Upto(W, m)}
<1> HIDE DEF Step, Start
<1>1. 0 \in S
  <2>1. Upto([i \in 0 .. 0 |-> Start], 0)
    OBVIOUS
  <2> HIDE DEF Upto
  <2> QED BY <2>1
<1>2. \A m \in Nat : m \in S => m + 1 \in S
  <2> SUFFICES ASSUME NEW m \in Nat, m \in S PROVE \E W : Upto(W, m + 1)
    <3> HIDE DEF Upto
    <3> QED OBVIOUS
  <2>1. PICK W : Upto(W, m)
    <3> HIDE DEF Upto
    <3> QED OBVIOUS
  <2> DEFINE V == [i \in 0 .. m + 1 |-> IF i = m + 1 THEN Step(W[m], i) ELSE W[i]]
  <2>2. /\ \A i \in 0 .. m : V[i] = W[i]
        /\ V[m + 1] = Step(W[m], m + 1)
    OBVIOUS
  <2> HIDE DEF V
  <2>3. ASSUME NEW i \in 1 .. m + 1 PROVE V[i] = Step(V[i - 1], i)
    <3>1. CASE i = m + 1
      <4>1. i - 1 = m /\ V[m] = W[m]
        BY <3>1, <2>2
      <4> QED BY <3>1, <4>1, <2>2
    <3>2. CASE i \in 1 .. m
      <4>1. V[i] = W[i] /\ V[i - 1] = W[i - 1]
        BY <3>2, <2>2
      <4> QED BY <3>2, <4>1, <2>1
    <3> QED BY <3>1, <3>2
  <2>4. V[0] = Start
    BY <2>1, <2>2
  <2> QED BY <2>3, <2>4
<1>3. Nat \subseteq S
  <2> HIDE DEF S
  <2> QED BY <1>1, <1>2, Induction
<1>4. PICK W : Upto(W, n)
  BY <1>3
<1> DEFINE V == [i \in 0 .. n |-> W[i]]
           loop == CHOOSE f : f = F(f)
<1>5. V = F(V)
  <2>1. \A i \in 0 .. n : V[i] = IF i = 0 THEN Start ELSE Step(V[i - 1], i)
    <3> SUFFICES ASSUME NEW i \in 0 .. n PROVE V[i] = IF i = 0 THEN Start ELSE Step(V[i - 1], i)
      OBVIOUS
    <3>1. CASE i = 0
      BY <3>1, <1>4
    <3>2. CASE i \in 1 .. n
      <4>1. i - 1 \in 0 .. n /\ i # 0
        BY <3>2
      <4>2. V[i] = W[i] /\ V[i - 1] = W[i - 1]
        BY <4>1
      <4> QED BY <3>2, <4>1, <4>2, <1>4
    <3> QED BY <3>1, <3>2
  <2>2. V = [i \in 0 .. n |-> V[i]]
    OBVIOUS
  <2> HIDE DEF V
  <2> QED BY <2>1, <2>2
<1>6. loop = F(loop)
  <2> HIDE DEF F, V
  <2> QED BY <1>5, Zenon
<1>7. \A i \in 0 .. n : loop[i] = IF i = 0 THEN Start ELSE Step(loop[i - 1], i)
  <2> HIDE DEF loop
  <2> QED BY <1>6, Zenon
<1>8. parseEachLine(output) = loop[n]
  BY Zenon DEF parseEachLine, Step, Start
<1> HIDE DEF loop, F
<1>9. loop[0] = Start /\ \A i \in 1 .. n : loop[i] = Step(loop[i - 1], i)
  BY <1>7
<1> QED BY <1>8, <1>9 DEF Step, Start

(* A result without an error holds its value. *)
LEMMA OkFields == ASSUME NEW x PROVE Ok(x).ok /\ Ok(x).v = x
BY DEF Ok

(* marshalFunctions returns what each of its functions returned. *)
LEMMA FunctionsMarshalled ==
    ASSUME NEW results, marshalFunctions(results).ok
    PROVE  /\ marshalFunctions(results) = Ok([i \in DOMAIN results |-> results[i].v])
           /\ marshalFunctions(results).v = [i \in DOMAIN results |-> results[i].v]
           /\ \A i \in DOMAIN results : results[i].ok
<1>1. marshalFunctions(results) # Fail
  BY DEF Fail
<1>2. ~ \E i \in DOMAIN results : ~results[i].ok
  BY <1>1, Zenon DEF marshalFunctions
<1>3. marshalFunctions(results) = Ok([i \in DOMAIN results |-> results[i].v])
  BY <1>2, Zenon DEF marshalFunctions
<1> QED BY <1>2, <1>3, OkFields

(* The text of a flow, if it has one, is that of its fields and its        *)
(* actions ...                                                             *)
LEMMA MarshalledIs ==
    ASSUME NEW f, MarshalFlow(f).ok
    PROVE  LET mm == marshalMatches(f.Matches)
               aa == marshalActions(f.Actions)
               text == [fields |-> FlowFields(f, mm.v), actions |-> aa.v]
           IN  /\ mm.ok /\ aa.ok /\ f.Actions # <<>>
               /\ MarshalFlow(f) = Ok(text) /\ MarshalFlow(f).v = text
<1> DEFINE mm == marshalMatches(f.Matches)
           aa == marshalActions(f.Actions)
           text == [fields |-> FlowFields(f, mm.v), actions |-> aa.v]
<1>1. MarshalFlow(f) # Fail
  BY DEF Fail
<1>2. MarshalFlow(f) =
        IF f.Actions = <<>> THEN Fail
        ELSE IF aa.ok THEN IF mm.ok THEN IF WithDrop(aa.v) THEN Fail ELSE Ok(text) ELSE Fail
        ELSE Fail
  BY Zenon DEF MarshalFlow, Then
<1> HIDE DEF mm, aa, text
<1>3. mm.ok /\ aa.ok /\ f.Actions # <<>> /\ MarshalFlow(f) = Ok(text)
  BY <1>1, <1>2, Zenon
<1>4. MarshalFlow(f).v = text
  BY <1>3, OkFields
<1> QED BY <1>3, <1>4 DEF mm, aa, text

(* ... and there is an action, since a flow without one is an error. *)
LEMMA ActionsPrinted ==
    ASSUME NEW f, f.Actions \in Seq(Range(f.Actions)), MarshalFlow(f).ok
    PROVE  MarshalFlow(f).v.actions # <<>>
<1> DEFINE results == [i \in DOMAIN f.Actions |-> MarshalAction(f.Actions[i])]
           aa == marshalActions(f.Actions)
<1>1. aa.ok /\ f.Actions # <<>> /\ MarshalFlow(f).v.actions = aa.v
  <2>1. /\ aa.ok /\ f.Actions # <<>>
        /\ MarshalFlow(f).v = [fields |-> FlowFields(f, marshalMatches(f.Matches).v), actions |-> aa.v]
    BY MarshalledIs, Zenon
  <2> HIDE DEF aa
  <2> QED BY <2>1
<1>2. aa = marshalFunctions(results)
  BY DEF marshalActions
<1>3. aa.v = [i \in DOMAIN results |-> results[i].v]
  <2> HIDE DEF results, aa
  <2> QED BY <1>1, <1>2, FunctionsMarshalled
<1>4. DOMAIN aa.v = DOMAIN f.Actions
  BY <1>3
<1>5. 1 \in DOMAIN f.Actions
  BY <1>1
<1> HIDE DEF aa
<1> QED BY <1>1, <1>4, <1>5

-----------------------------------------------------------------------------
(* Reading a dump *)

(* The line of a flow with an action is no banner, and holds its actions.  *)
LEMMA LineIsNoBanner ==
    ASSUME NEW x, NEW y, y # <<>>
    PROVE  /\ DumpLine([fields |-> x, actions |-> y]) # Banner
           /\ DumpLine([fields |-> x, actions |-> y]).actions = y
<1> DEFINE text == [fields |-> x, actions |-> y]
<1>1. \E z : DumpLine(text) = [text EXCEPT !.fields = z]
  BY Zenon DEF DumpLine
<1>2. PICK z : DumpLine(text) = [text EXCEPT !.fields = z]
  BY <1>1
<1>3. DumpLine(text) = [fields |-> z, actions |-> y]
  BY <1>2
<1> HIDE DEF text
<1>4. DumpLine(text).actions = y
  BY <1>3
<1>5. Banner.actions = <<>>
  BY DEF Banner
<1> QED BY <1>4, <1>5 DEF text

(* The output of dump-flows: a banner, the lines of the flows, and maybe a *)
(* second banner after the k-th of them.                                   *)
CutAt(texts, output, k) ==
    /\ k \in 0 .. Len(texts) /\ output[1] = Banner
    /\ \A i \in 1 .. k : output[i + 1] = DumpLine(texts[i])
    /\ \/ k = Len(texts) /\ Len(output) = Len(texts) + 1
       \/ /\ Len(output) = Len(texts) + 2 /\ output[k + 2] = Banner
          /\ \A i \in k + 1 .. Len(texts) : output[i + 2] = DumpLine(texts[i])

(* What ovs-ofctl prints is such an output. *)
LEMMA OutputCut ==
    ASSUME NEW T, NEW texts \in Seq(T), NEW output \in DumpOutputs(texts)
    PROVE  output # <<>> /\ Len(output) \in Nat \ {0} /\ \E k \in Nat : CutAt(texts, output, k)
<1> DEFINE n == Len(texts)
           out == [i \in DOMAIN texts |-> DumpLine(texts[i])]
           D == {DumpLine(texts[i]) : i \in 1 .. n} \cup {Banner}
<1>1. out \in Seq(D) /\ Len(out) = n /\ n \in Nat /\ \A i \in 1 .. n : out[i] = DumpLine(texts[i])
  <2>1. out \in [1 .. n -> D] /\ n \in Nat
    OBVIOUS
  <2> HIDE DEF D
  <2> QED BY <2>1
<1>2. <<Banner>> \in Seq(D) /\ Len(<<Banner>>) = 1 /\ <<Banner>>[1] = Banner
  OBVIOUS
<1>3. \/ output = <<Banner>> \o out
      \/ \E k \in 1 .. n - 1 : output = <<Banner>> \o SubSeq(out, 1, k) \o <<Banner>> \o SubSeq(out, k + 1, n)
  <2>1. \/ output = <<Banner>> \o out
        \/ \E k \in 1 .. Len(out) - 1 :
              output = <<Banner>> \o SubSeq(out, 1, k) \o <<Banner>> \o SubSeq(out, k + 1, Len(out))
    BY DEF DumpOutputs
  <2> HIDE DEF out
  <2> QED BY <2>1, <1>1
<1> HIDE DEF D, out
<1>4. CASE output = <<Banner>> \o out
  <2>1. Len(output) = n + 1 /\ output \in Seq(D) /\ output[1] = Banner
        /\ \A i \in 1 .. n : output[i + 1] = out[i]
    BY <1>1, <1>2, <1>4, ConcatProperties
  <2>2. CutAt(texts, output, n)
    BY <1>1, <2>1 DEF CutAt
  <2> QED BY <2>1, <2>2, <1>1
<1>5. CASE \E k \in 1 .. n - 1 : output = <<Banner>> \o SubSeq(out, 1, k) \o <<Banner>> \o SubSeq(out, k + 1, n)
  <2>1. PICK k \in 1 .. n - 1 : output = <<Banner>> \o SubSeq(out, 1, k) \o <<Banner>> \o SubSeq(out, k + 1, n)
    BY <1>5
  <2> DEFINE p == SubSeq(out, 1, k)
             q == SubSeq(out, k + 1, n)
             a == <<Banner>> \o p
             b == a \o <<Banner>>
  <2>2. /\ p \in Seq(D) /\ Len(p) = k /\ \A i \in 1 .. k : p[i] = out[i]
        /\ q \in Seq(D) /\ Len(q) = n - k /\ \A i \in 1 .. n - k : q[i] = out[k + i]
    BY <1>1
  <2> HIDE DEF p, q
  <2>3. /\ a \in Seq(D) /\ Len(a) = k + 1 /\ a[1] = Banner
        /\ \A i \in 1 .. k : a[i + 1] = p[i]
    BY <2>2, <1>2, ConcatProperties
  <2> HIDE DEF a
  <2>4. /\ b \in Seq(D) /\ Len(b) = k + 2 /\ b[k + 2] = Banner
        /\ \A i \in 1 .. k + 1 : b[i] = a[i]
    BY <2>3, <1>2, ConcatProperties
  <2> HIDE DEF b
  <2>5. output = b \o q
    BY <2>1 DEF a, b, p, q
  <2>6. /\ output \in Seq(D) /\ Len(output) = n + 2
        /\ \A i \in 1 .. k + 2 : output[i] = b[i]
        /\ \A i \in 1 .. n - k : output[k + 2 + i] = q[i]
    BY <2>2, <2>4, <2>5, <1>1, ConcatProperties, SMTT(30)
  <2>7. output[1] = Banner /\ output[k + 2] = Banner
    BY <2>3, <2>4, <2>6
  <2>8. ASSUME NEW i \in 1 .. k PROVE output[i + 1] = DumpLine(texts[i])
    <3>1. i + 1 \in 1 .. k + 1 /\ i + 1 \in 1 .. k + 2 /\ i \in 1 .. n
      BY <1>1
    <3>2. output[i + 1] = b[i + 1] /\ b[i + 1] = a[i + 1] /\ a[i + 1] = p[i] /\ p[i] = out[i]
      BY <3>1, <2>2, <2>3, <2>4, <2>6
    <3> QED BY <3>1, <3>2, <1>1
  <2>9. ASSUME NEW i \in k + 1 .. n PROVE output[i + 2] = DumpLine(texts[i])
    <3>1. i - k \in 1 .. n - k /\ k + 2 + (i - k) = i + 2 /\ k + (i - k) = i /\ i \in 1 .. n
      BY <1>1
    <3>2. output[i + 2] = q[i - k] /\ q[i - k] = out[i]
      BY <3>1, <2>2, <2>6
    <3> QED BY <3>1, <3>2, <1>1
  <2>10. CutAt(texts, output, k)
    BY <2>6, <2>7, <2>8, <2>9, <1>1 DEF CutAt
  <2> QED BY <2>6, <2>10, <1>1
<1> QED BY <1>3, <1>4, <1>5

(* The flow that UnmarshalText returns for the line of a text. *)
FlowOf(text) == UnmarshalFlow(DumpLine(text))

(* What parseEachLine has read after the lines of the first m texts: the   *)
(* flow of each of them, or those before the first error.                  *)
ReadSofar(r, texts, V, m) ==
    /\ r \in [flows : Seq(V), ok : BOOLEAN]
    /\ Len(r.flows) <= m /\ (r.ok => Len(r.flows) = m)
    /\ \A i \in 1 .. Len(r.flows) : FlowOf(texts[i]).ok /\ r.flows[i] = FlowOf(texts[i]).v

(* A banner changes nothing, ... *)
LEMMA BannerRead ==
    ASSUME NEW r, NEW texts, NEW V, NEW m \in Nat, ReadSofar(r, texts, V, m)
    PROVE  ReadSofar(ReadLine(r, Banner), texts, V, m)
BY DEF ReadLine

(* ... and the next line adds its flow, or the error. *)
LEMMA LineRead ==
    ASSUME NEW r, NEW texts, NEW V, NEW m \in Nat, ReadSofar(r, texts, V, m),
           FlowOf(texts[m + 1]).v \in V, DumpLine(texts[m + 1]) # Banner
    PROVE  ReadSofar(ReadLine(r, DumpLine(texts[m + 1])), texts, V, m + 1)
<1> DEFINE g == FlowOf(texts[m + 1])
           s == ReadLine(r, DumpLine(texts[m + 1]))
<1>0. /\ r \in [flows : Seq(V), ok : BOOLEAN]
      /\ Len(r.flows) <= m /\ (r.ok => Len(r.flows) = m) /\ Len(r.flows) \in Nat
      /\ \A i \in 1 .. Len(r.flows) : FlowOf(texts[i]).ok /\ r.flows[i] = FlowOf(texts[i]).v
  BY DEF ReadSofar
<1>1. s = IF ~r.ok THEN r
          ELSE IF g.ok THEN [r EXCEPT !.flows = Append(@, g.v)] ELSE [r EXCEPT !.ok = FALSE]
  BY Zenon DEF ReadLine, AddParsed, FlowOf
<1> HIDE DEF g, s
<1>2. CASE ~r.ok
  <2>1. s = r
    BY <1>1, <1>2
  <2> QED BY <2>1, <1>0, <1>2 DEF ReadSofar, s
<1>4. CASE r.ok /\ ~g.ok
  <2>1. s = [r EXCEPT !.ok = FALSE]
    BY <1>1, <1>4
  <2>2. s \in [flows : Seq(V), ok : BOOLEAN] /\ s.ok = FALSE /\ s.flows = r.flows
    BY <2>1, <1>0
  <2> QED BY <2>2, <1>0 DEF ReadSofar, s
<1>5. CASE r.ok /\ g.ok
  <2>1. s = [r EXCEPT !.flows = Append(@, g.v)]
    BY <1>1, <1>5
  <2>2. g.v \in V
    BY DEF g
  <2>3. /\ Append(r.flows, g.v) \in Seq(V) /\ Len(Append(r.flows, g.v)) = m + 1
        /\ Append(r.flows, g.v)[m + 1] = g.v
        /\ \A i \in 1 .. m : Append(r.flows, g.v)[i] = r.flows[i]
    BY <2>2, <1>0, <1>5
  <2>4. s \in [flows : Seq(V), ok : BOOLEAN] /\ s.flows = Append(r.flows, g.v)
    BY <2>1, <2>3, <1>0
  <2>5. Len(s.flows) = m + 1 /\ Len(r.flows) = m
    BY <2>3, <2>4, <1>0, <1>5
  <2>6. ASSUME NEW i \in 1 .. m + 1 PROVE FlowOf(texts[i]).ok /\ s.flows[i] = FlowOf(texts[i]).v
    <3>1. CASE i = m + 1
      BY <3>1, <2>3, <2>4, <1>5 DEF g
    <3>2. CASE i \in 1 .. m
      BY <3>2, <2>3, <2>4, <2>5, <1>0
    <3> QED BY <3>1, <3>2
  <2> QED BY <2>4, <2>5, <2>6 DEF ReadSofar, s
<1> QED BY <1>2, <1>4, <1>5

(* So parseEachLine reads the flow of each line in the order of the lines, *)
(* wherever the second banner is; and without an error it reads all of     *)
(* them.                                                                   *)
LEMMA DumpRead ==
    ASSUME NEW T, NEW texts \in Seq(T), \A t \in T : DumpLine(t) # Banner,
           NEW output \in DumpOutputs(texts)
    PROVE  LET r == parseEachLine(output)
           IN  /\ r.ok \in BOOLEAN /\ r.flows \in Seq({FlowOf(t) .v : t \in T})
               /\ Len(r.flows) <= Len(texts) /\ (r.ok => Len(r.flows) = Len(texts))
               /\ \A i \in DOMAIN r.flows : FlowOf(texts[i]).ok /\ r.flows[i] = FlowOf(texts[i]).v
<1> DEFINE n == Len(texts)
           l == Len(output) - 1
           V == {FlowOf(t) .v : t \in T}
<1>1. output # <<>> /\ l \in Nat /\ \E k \in Nat : CutAt(texts, output, k)
  BY OutputCut
<1>2. PICK k \in Nat : CutAt(texts, output, k)
  BY <1>1
<1>3. n \in Nat /\ k \in 0 .. n /\ \A i \in 1 .. n : FlowOf(texts[i]).v \in V /\ DumpLine(texts[i]) # Banner
  BY <1>2 DEF CutAt
<1>4. PICK W : /\ parseEachLine(output) = W[l]
               /\ W[0] = [flows |-> <<>>, ok |-> output[1] = Banner]
               /\ \A i \in 1 .. l : W[i] = ReadLine(W[i - 1], output[i + 1])
  BY <1>1, LinesRead
<1> DEFINE Inv(i) == ReadSofar(W[i], texts, V, IF i <= k THEN i ELSE i - 1)
           S == {i \in Nat : i <= l => Inv(i)}
<1> HIDE DEF V
<1>5. Inv(0)
  <2>1. W[0] = [flows |-> <<>>, ok |-> TRUE]
    BY <1>2, <1>4 DEF CutAt
  <2>2. W[0] \in [flows : Seq(V), ok : BOOLEAN] /\ Len(W[0].flows) = 0
    BY <2>1
  <2> QED BY <2>2 DEF ReadSofar
<1>6. ASSUME NEW i \in Nat, i + 1 <= l, Inv(i) PROVE Inv(i + 1)
  <2>1. W[i + 1] = ReadLine(W[i], output[i + 2])
    <3>1. i + 1 \in 1 .. l /\ (i + 1) - 1 = i /\ (i + 1) + 1 = i + 2
      BY <1>1, <1>6
    <3> QED BY <3>1, <1>4
  <2>2. CASE i + 1 <= k
    <3>1. output[i + 2] = DumpLine(texts[i + 1])
      <4>1. i + 1 \in 1 .. k /\ (i + 1) + 1 = i + 2
        BY <2>2
      <4> QED BY <4>1, <1>2 DEF CutAt
    <3>2. ReadSofar(W[i], texts, V, i) /\ i + 1 \in 1 .. n
      BY <1>6, <1>3, <2>2
    <3>3. ReadSofar(W[i + 1], texts, V, i + 1)
      BY <3>1, <3>2, <1>3, <2>1, LineRead
    <3> QED BY <3>3, <2>2
  <2>3. CASE i = k
    <3>1. output[i + 2] = Banner
      <4>1. Len(output) # n + 1 \/ k # n
        BY <1>6, <2>3, <1>3, <1>1
      <4> QED BY <4>1, <2>3, <1>2 DEF CutAt
    <3>2. ReadSofar(W[i], texts, V, i)
      BY <1>6, <2>3
    <3>3. ReadSofar(W[i + 1], texts, V, i)
      BY <3>1, <3>2, <2>1, BannerRead
    <3> QED BY <3>3, <2>3
  <2>4. CASE i > k
    <3>1. Len(output) = n + 2 /\ \A j \in k + 1 .. n : output[j + 2] = DumpLine(texts[j])
      <4>1. Len(output) # n + 1 \/ k # n
        BY <1>6, <2>4, <1>3, <1>1
      <4> QED BY <4>1, <1>2 DEF CutAt
    <3>2. i \in k + 1 .. n /\ i \in 1 .. n /\ (i - 1) + 1 = i /\ i - 1 \in Nat
      BY <3>1, <2>4, <1>6, <1>3
    <3>3. ReadSofar(W[i], texts, V, i - 1)
      BY <1>6, <2>4
    <3>4. ReadSofar(ReadLine(W[i], DumpLine(texts[i])), texts, V, i)
      BY <3>2, <3>3, <1>3, LineRead
    <3>5. ReadSofar(W[i + 1], texts, V, i)
      BY <3>1, <3>2, <3>4, <2>1
    <3> QED BY <3>5, <2>4
  <2> QED BY <2>2, <2>3, <2>4
<1>7. Nat \subseteq S
  <2> HIDE DEF Inv
  <2>1. 0 \in S
    BY <1>5
  <2>2. \A i \in Nat : i \in S => i + 1 \in S
    BY <1>6, <1>1
  <2> HIDE DEF S
  <2> QED BY <2>1, <2>2, Induction
<1>8. Inv(l)
  <2> HIDE DEF Inv
  <2> QED BY <1>7, <1>1
<1>9. (IF l <= k THEN l ELSE l - 1) = n
  BY <1>2, <1>3, <1>1 DEF CutAt
<1>10. ReadSofar(parseEachLine(output), texts, V, n)
  BY <1>8, <1>9, <1>4
<1>11. LET r == parseEachLine(output)
       IN  /\ r.ok \in BOOLEAN /\ r.flows \in Seq(V)
           /\ Len(r.flows) <= Len(texts) /\ (r.ok => Len(r.flows) = Len(texts))
           /\ \A i \in DOMAIN r.flows : FlowOf(texts[i]).ok /\ r.flows[i] = FlowOf(texts[i]).v
  BY <1>10 DEF ReadSofar
<1> QED BY <1>11 DEF V

-----------------------------------------------------------------------------
(* The fields of a flow and of its MatchFlow *)

(* A sequence of texts, each of which is the text of a match of mm. *)
TextsOf(texts, mm) ==
  /\ \E S : texts \in Seq(S)
  /\ \A x \in Range(texts) : \E i \in DOMAIN mm : MarshalMatch(mm[i]).ok /\ x = MarshalMatch(mm[i]).v

(* The texts of the matches of a flow are the texts of single matches. *)
LEMMA MatchesPrinted ==
    ASSUME NEW R, NEW mm \in Seq(R), marshalMatches(mm).ok
    PROVE  TextsOf(marshalMatches(mm).v, mm)
<1> DEFINE results == [i \in DOMAIN mm |-> MarshalMatch(mm[i])]
           P == {MarshalMatch(m).v : m \in R}
<1>1. marshalMatches(mm) = marshalFunctions(results)
  BY DEF marshalMatches
<1>2. marshalMatches(mm).v = [i \in DOMAIN results |-> results[i].v]
  <2> HIDE DEF results
  <2> QED BY <1>1, FunctionsMarshalled
<1>3. marshalMatches(mm).v = [i \in 1 .. Len(mm) |-> MarshalMatch(mm[i]).v]
  BY <1>2
<1>4. marshalMatches(mm).v \in [1 .. Len(mm) -> P] /\ Len(mm) \in Nat
  BY <1>3
<1>5. marshalMatches(mm).v \in Seq(P)
  <2> HIDE DEF P
  <2> QED BY <1>4
<1>8. \A i \in DOMAIN mm : MarshalMatch(mm[i]).ok
  <2>1. \A i \in DOMAIN mm : i \in DOMAIN results /\ results[i] = MarshalMatch(mm[i])
    OBVIOUS
  <2>2. \A i \in DOMAIN results : results[i].ok
    <3> HIDE DEF results
    <3> QED BY <1>1, FunctionsMarshalled
  <2> QED BY <2>1, <2>2
<1>6. \A x \in Range(marshalMatches(mm).v) : \E i \in DOMAIN mm : MarshalMatch(mm[i]).ok /\ x = MarshalMatch(mm[i]).v
  BY <1>3, <1>8 DEF Range
<1>7. \E S : marshalMatches(mm).v \in Seq(S)
  <2> HIDE DEF P
  <2> QED BY <1>5, Zenon
<1> QED BY <1>6, <1>7, Zenon DEF TextsOf

(* A field that is printed on a condition. *)
LEMMA RangeOfWhen ==
    ASSUME NEW c, NEW x, NEW S, x \in S
    PROVE  When(c, x) \in Seq(S) /\ Range(When(c, x)) = IF c THEN {x} ELSE {}
<1>1. <<x>> \in Seq(S) /\ Range(<<x>>) = {x}
  BY DEF Range
<1>2. <<>> \in Seq(S) /\ Range(<<>>) = {}
  BY DEF Range
<1>3. CASE c
  <2>1. When(c, x) = <<x>>
    BY <1>3, Zenon DEF When
  <2> QED BY <2>1, <1>1, <1>3, Zenon
<1>4. CASE ~c
  <2>1. When(c, x) = <<>>
    BY <1>4, Zenon DEF When
  <2> QED BY <2>1, <1>2, <1>4, Zenon
<1> QED BY <1>3, <1>4

(* The fields of two texts together. *)
LEMMA RangeOfConcat ==
    \A S : \A s, t \in Seq(S) : s \o t \in Seq(S) /\ Range(s \o t) = Range(s) \cup Range(t)
BY ConcatProperties, RangeConcatenation

(* What a flow prints for its protocol, ... *)
ProtocolField(f) == IF f.Protocol # Empty THEN {Bare(f.Protocol.t)} ELSE {}

(* ... its port ... *)
PortField(f) ==
    IF f.InPort # 0
    THEN {Field("in_port", <<IF f.InPort = PortLOCAL THEN Word("LOCAL") ELSE Dec(f.InPort)>>)} ELSE {}

(* ... and its cookie; ... *)
CookieOf(f) == IF f.Cookie > 0 THEN {Field("cookie", <<Hex(f.Cookie)>>)} ELSE {}

(* ... and the fields that do not select it. *)
Timing(f) == {Number("priority", f.Priority), Number("idle_timeout", f.IdleTimeout)}

(* All the fields of the text of a flow. *)
LEMMA RangeOfFlow ==
    ASSUME NEW f, NEW R, NEW matches \in Seq(R)
    PROVE  /\ \E S : FlowFields(f, matches) \in Seq(S)
           /\ Range(FlowFields(f, matches)) =
                Timing(f) \cup {Number("table", f.Table)} \cup ProtocolField(f) \cup PortField(f)
                  \cup Range(matches) \cup CookieOf(f)
<1> DEFINE prio == Number("priority", f.Priority)
           table == Number("table", f.Table)
           idle == Number("idle_timeout", f.IdleTimeout)
           proto == Bare(f.Protocol.t)
           port == Field("in_port", <<IF f.InPort = PortLOCAL THEN Word("LOCAL") ELSE Dec(f.InPort)>>)
           cookie == Field("cookie", <<paddedHexUint64(f.Cookie)>>)
           S == {prio, table, idle, proto, port, cookie} \cup R
           a == <<prio>>
           b == When(f.Protocol # Empty, proto)
           c == When(f.InPort # 0, port)
           d == <<table, idle>>
           e == When(f.Cookie > 0, cookie)
<1>1. FlowFields(f, matches) = ((((a \o b) \o c) \o matches) \o d) \o e
  BY Zenon DEF FlowFields, InPortField, CookieField
<1> HIDE DEF prio, table, idle, proto, port, cookie
<1>2. a \in Seq(S) /\ Range(a) = {prio}
  BY DEF Range
<1>3. b \in Seq(S) /\ Range(b) = IF f.Protocol # Empty THEN {proto} ELSE {}
  BY RangeOfWhen
<1>4. c \in Seq(S) /\ Range(c) = IF f.InPort # 0 THEN {port} ELSE {}
  BY RangeOfWhen
<1>5. d \in Seq(S) /\ Range(d) = {table, idle}
  <2>1. d \in Seq(S) /\ DOMAIN d = {1, 2} /\ d[1] = table /\ d[2] = idle
    OBVIOUS
  <2> QED BY <2>1 DEF Range
<1>6. e \in Seq(S) /\ Range(e) = IF f.Cookie > 0 THEN {cookie} ELSE {}
  BY RangeOfWhen
<1>7. matches \in Seq(S)
  BY SeqMonotonic
<1> HIDE DEF S, a, b, c, d, e
<1> DEFINE ab == a \o b
           abc == ab \o c
           abcm == abc \o matches
           abcmd == abcm \o d
<1>8. FlowFields(f, matches) = abcmd \o e
  BY <1>1, Zenon
<1>9. Range(ab) = Range(a) \cup Range(b) /\ ab \in Seq(S)
  BY <1>2, <1>3, RangeOfConcat
<1> HIDE DEF ab
<1>10. Range(abc) = Range(ab) \cup Range(c) /\ abc \in Seq(S)
  BY <1>9, <1>4, RangeOfConcat
<1> HIDE DEF abc
<1>11. Range(abcm) = Range(abc) \cup Range(matches) /\ abcm \in Seq(S)
  BY <1>10, <1>7, RangeOfConcat
<1> HIDE DEF abcm
<1>12. Range(abcmd) = Range(abcm) \cup Range(d) /\ abcmd \in Seq(S)
  BY <1>11, <1>5, RangeOfConcat
<1> HIDE DEF abcmd
<1>13. FlowFields(f, matches) \in Seq(S) /\ Range(FlowFields(f, matches)) = Range(abcmd) \cup Range(e)
  BY <1>12, <1>6, <1>8, RangeOfConcat
<1>14. Range(FlowFields(f, matches)) = Range(a) \cup Range(b) \cup Range(c) \cup Range(matches) \cup Range(d) \cup Range(e)
  BY <1>9, <1>10, <1>11, <1>12, <1>13, Zenon
<1>15. /\ Range(b) = ProtocolField(f) /\ Range(c) = PortField(f) /\ Range(e) = CookieOf(f)
       /\ Range(a) \cup Range(d) = Timing(f) \cup {table}
  BY <1>2, <1>3, <1>4, <1>5, <1>6 DEF ProtocolField, PortField, CookieOf, Timing, prio, table, idle, proto, port, cookie, paddedHexUint64
<1>16. Range(FlowFields(f, matches)) =
         Timing(f) \cup {table} \cup ProtocolField(f) \cup PortField(f) \cup Range(matches) \cup CookieOf(f)
  BY <1>14, <1>15
<1> QED BY <1>13, <1>16 DEF table

(* A field holds its key and its value. *)
LEMMA FieldFields == ASSUME NEW k, NEW x PROVE Field(k, x).key = k /\ Field(k, x).val = x
BY DEF Field

(* A selection gives the cookie with a mask of all its bits. *)
CookieSelected(g) == IF g.Cookie > 0 THEN {Field("cookie", <<Hex(g.Cookie), Dec(-1)>>)} ELSE {}

(* MatchFlow takes over what selects the flow (ovs/flow.go). *)
LEMMA MatchFlowIs ==
    ASSUME NEW g
    PROVE  /\ MatchFlow(g).Protocol = g.Protocol /\ MatchFlow(g).InPort = g.InPort
           /\ MatchFlow(g).Matches = g.Matches /\ MatchFlow(g).Table = g.Table
           /\ MatchFlow(g).Cookie = g.Cookie /\ MatchFlow(g).CookieMask = 0
BY DEF MatchFlow

(* All the fields of the text of a MatchFlow. *)
LEMMA RangeOfMatchFlow ==
    ASSUME NEW g, NEW R, NEW matches \in Seq(R), g.Table # AnyTable
    PROVE  /\ \E S : MatchFlowFields(MatchFlow(g), matches) \in Seq(S)
           /\ Range(MatchFlowFields(MatchFlow(g), matches)) =
                {Number("table", g.Table)} \cup ProtocolField(g) \cup PortField(g)
                  \cup Range(matches) \cup CookieSelected(g)
<1> DEFINE table == Number("table", g.Table)
           proto == Bare(g.Protocol.t)
           port == Field("in_port", <<IF g.InPort = PortLOCAL THEN Word("LOCAL") ELSE Dec(g.InPort)>>)
           cookie == Field("cookie", <<Hex(g.Cookie), Dec(-1)>>)
           S == {table, proto, port, cookie} \cup R
           b == When(g.Protocol # Empty, proto)
           c == When(g.InPort # 0, port)
           d == When(g.Table # AnyTable, table)
           e == When(g.Cookie > 0 \/ 0 > 0, cookie)
<1>1. MatchFlowFields(MatchFlow(g), matches) = (((b \o c) \o matches) \o e) \o d
  <2> DEFINE h == MatchFlow(g)
             mask == IF h.CookieMask = 0 THEN Dec(-1) ELSE paddedHexUint64(h.CookieMask)
  <2>1. MatchFlowFields(h, matches) =
           (((When(h.Protocol # Empty, Bare(h.Protocol.t)) \o InPortField(h.InPort)) \o matches)
              \o When(h.Cookie > 0 \/ h.CookieMask > 0, Field("cookie", <<paddedHexUint64(h.Cookie), mask>>)))
              \o When(h.Table # AnyTable, Number("table", h.Table))
    BY Zenon DEF MatchFlowFields
  <2>2. mask = Dec(-1)
    BY MatchFlowIs
  <2> HIDE DEF mask, h
  <2>3. h.Protocol = g.Protocol /\ h.InPort = g.InPort /\ h.Table = g.Table /\ h.Cookie = g.Cookie /\ h.CookieMask = 0
    BY MatchFlowIs DEF h
  <2>4. InPortField(h.InPort) = c
    BY <2>3, Zenon DEF InPortField
  <2>5. When(h.Cookie > 0 \/ h.CookieMask > 0, Field("cookie", <<paddedHexUint64(h.Cookie), mask>>)) = e
    BY <2>2, <2>3 DEF paddedHexUint64
  <2>6. When(h.Protocol # Empty, Bare(h.Protocol.t)) = b /\ When(h.Table # AnyTable, Number("table", h.Table)) = d
    BY <2>3
  <2> HIDE DEF b, c, d, e
  <2> QED BY <2>1, <2>4, <2>5, <2>6 DEF h
<1> HIDE DEF table, proto, port, cookie
<1>3. b \in Seq(S) /\ Range(b) = IF g.Protocol # Empty THEN {proto} ELSE {}
  BY RangeOfWhen
<1>4. c \in Seq(S) /\ Range(c) = IF g.InPort # 0 THEN {port} ELSE {}
  BY RangeOfWhen
<1>5. d \in Seq(S) /\ Range(d) = {table}
  <2>1. d \in Seq(S) /\ Range(d) = IF g.Table # AnyTable THEN {table} ELSE {}
    BY RangeOfWhen
  <2> QED BY <2>1
<1>6. e \in Seq(S) /\ Range(e) = IF g.Cookie > 0 THEN {cookie} ELSE {}
  <2>1. e \in Seq(S) /\ Range(e) = IF g.Cookie > 0 \/ 0 > 0 THEN {cookie} ELSE {}
    BY RangeOfWhen
  <2>2. ~(0 > 0)
    OBVIOUS
  <2> QED BY <2>1, <2>2
<1>7. matches \in Seq(S)
  BY SeqMonotonic
<1> HIDE DEF S, b, c, d, e
<1> DEFINE bc == b \o c
           bcm == bc \o matches
           bcme == bcm \o e
<1>8. MatchFlowFields(MatchFlow(g), matches) = bcme \o d
  BY <1>1, Zenon
<1>9. Range(bc) = Range(b) \cup Range(c) /\ bc \in Seq(S)
  BY <1>3, <1>4, RangeOfConcat
<1> HIDE DEF bc
<1>10. Range(bcm) = Range(bc) \cup Range(matches) /\ bcm \in Seq(S)
  BY <1>9, <1>7, RangeOfConcat
<1> HIDE DEF bcm
<1>11. Range(bcme) = Range(bcm) \cup Range(e) /\ bcme \in Seq(S)
  BY <1>10, <1>6, RangeOfConcat
<1> HIDE DEF bcme
<1>12. MatchFlowFields(MatchFlow(g), matches) \in Seq(S)
       /\ Range(MatchFlowFields(MatchFlow(g), matches)) = Range(bcme) \cup Range(d)
  BY <1>11, <1>5, <1>8, RangeOfConcat
<1>13. Range(b) = ProtocolField(g) /\ Range(c) = PortField(g) /\ Range(e) = CookieSelected(g)
  BY <1>3, <1>4, <1>6 DEF ProtocolField, PortField, CookieSelected, proto, port, cookie
<1>14. Range(MatchFlowFields(MatchFlow(g), matches)) =
          {table} \cup ProtocolField(g) \cup PortField(g) \cup Range(matches) \cup CookieSelected(g)
  BY <1>5, <1>9, <1>10, <1>11, <1>12, <1>13
<1> QED BY <1>12, <1>14 DEF table

(* The field that a field of a selection asks for. *)
Wanted(x) == IF x.key = "cookie" THEN Field("cookie", <<x.val[1]>>) ELSE x

(* A selection selects the flows that have all the fields it asks for. *)
LEMMA SelectionIs ==
    ASSUME NEW A, NEW sel \in Seq(A), NEW t, NEW B, t.fields \in Seq(B)
    PROVE  Selects(sel, t) <=> \A x \in Range(sel) : Wanted(x) \in Range(t.fields)
<1>1. \A e : Contains(t.fields, e) <=> e \in Range(t.fields)
  BY DEF Contains, Range
<1>2. Selects(sel, t) <=> \A i \in DOMAIN sel : Contains(t.fields, Wanted(sel[i]))
  BY Zenon DEF Selects, Wanted
<1>3. (\A x \in Range(sel) : Wanted(x) \in Range(t.fields)) <=> \A i \in DOMAIN sel : Wanted(sel[i]) \in Range(t.fields)
  BY Zenon DEF Range
<1> QED BY <1>1, <1>2, <1>3

(* The fields of a flow that select it. *)
LEMMA MatchFieldsAre ==
    ASSUME NEW t
    PROVE  MatchFields(t) = {x \in Range(t.fields) : x.key \notin {"priority", "idle_timeout"}}
BY DEF MatchFields, Range

(* The text of a MatchFlow, if it has one. *)
LEMMA SelectionPrinted ==
    ASSUME NEW g, MarshalMatchFlow(MatchFlow(g)).ok
    PROVE  MarshalMatchFlow(MatchFlow(g)).v = MatchFlowFields(MatchFlow(g), marshalMatches(g.Matches).v)
<1> DEFINE h == MatchFlow(g)
           mm == marshalMatches(h.Matches)
<1>1. MarshalMatchFlow(h) =
        IF mm.ok THEN IF MatchFlowFields(h, mm.v) = <<>> THEN Fail ELSE Ok(MatchFlowFields(h, mm.v)) ELSE Fail
  BY Zenon DEF MarshalMatchFlow, Then
<1>2. MarshalMatchFlow(h) # Fail
  BY DEF Fail
<1> HIDE DEF h, mm
<1>3. MarshalMatchFlow(h) = Ok(MatchFlowFields(h, mm.v))
  BY <1>1, <1>2, Zenon
<1>4. h.Matches = g.Matches
  BY MatchFlowIs DEF h
<1> QED BY <1>3, <1>4, OkFields DEF h, mm

(* With OwnFields the only cookie and the only table of the text of a flow *)
(* are those of the flow.                                                  *)
LEMMA OwnFieldsOnly ==
    ASSUME NEW f, OwnFields(f), f.Matches \in Seq(Range(f.Matches)), MarshalFlow(f).ok,
           NEW x \in Range(MarshalFlow(f).v.fields)
    PROVE  /\ x.key = "cookie" => x = Field("cookie", <<x.val[1]>>)
           /\ x.key = "table" => x = Number("table", f.Table)
<1> DEFINE mm == marshalMatches(f.Matches).v
<1>1. MarshalFlow(f).v.fields = FlowFields(f, mm) /\ marshalMatches(f.Matches).ok
  <2>1. MarshalFlow(f).v = [fields |-> FlowFields(f, mm), actions |-> marshalActions(f.Actions).v]
    BY MarshalledIs, Zenon
  <2> HIDE DEF mm
  <2>2. marshalMatches(f.Matches).ok
    BY MarshalledIs, Zenon
  <2> QED BY <2>1, <2>2
<1>2. /\ \E S : mm \in Seq(S)
      /\ \A y \in Range(mm) :
            \E i \in DOMAIN f.Matches : MarshalMatch(f.Matches[i]).ok /\ y = MarshalMatch(f.Matches[i]).v
  <2>1. PICK given, R : given = f.Matches /\ given \in Seq(R)
    OBVIOUS
  <2>2. marshalMatches(given).ok
    BY <1>1, <2>1, Zenon
  <2>3. TextsOf(marshalMatches(given).v, given)
    BY <2>1, <2>2, MatchesPrinted, Zenon
  <2> QED BY <2>1, <2>3, Zenon DEF TextsOf
<1> HIDE DEF mm
<1>3. x \in Timing(f) \cup {Number("table", f.Table)} \cup ProtocolField(f) \cup PortField(f)
                  \cup Range(mm) \cup CookieOf(f)
  BY <1>1, <1>2, RangeOfFlow
<1>4. CASE x \in Timing(f)
  BY <1>4 DEF Timing, Number, Field
<1>5. CASE x = Number("table", f.Table)
  BY <1>5 DEF Number, Field
<1>6. CASE x \in ProtocolField(f)
  <2>1. x.key = f.Protocol.t
    BY <1>6, FieldFields DEF ProtocolField, Bare
  <2> QED BY <2>1 DEF OwnFields
<1>7. CASE x \in PortField(f)
  <2>1. x.key = "in_port"
    BY <1>7, FieldFields DEF PortField
  <2> QED BY <2>1
<1>8. CASE x \in Range(mm)
  <2>1. x.key \notin {"cookie", "table"}
    BY <1>8, <1>2 DEF OwnFields
  <2> QED BY <2>1
<1>9. CASE x \in CookieOf(f)
  <2>1. x = Field("cookie", <<Hex(f.Cookie)>>)
    BY <1>9 DEF CookieOf
  <2>2. x.key = "cookie" /\ x.val = <<Hex(f.Cookie)>>
    BY <2>1, FieldFields
  <2>3. x.val[1] = Hex(f.Cookie)
    BY <2>2
  <2> QED BY <2>1, <2>2, <2>3
<1> QED BY <1>3, <1>4, <1>5, <1>6, <1>7, <1>8, <1>9

(* Fields of one key that are the same hold the same number. *)
LEMMA SameNumber == ASSUME NEW a, NEW b, NEW k, Number(k, a) = Number(k, b) PROVE a = b
<1>1. Number(k, a).val = <<Dec(a)>> /\ Number(k, b).val = <<Dec(b)>>
  BY FieldFields DEF Number
<1>2. <<Dec(a)>>[1] = Dec(a) /\ <<Dec(b)>>[1] = Dec(b)
  OBVIOUS
<1>3. Dec(a) = Dec(b)
  BY <1>1, <1>2
<1>4. Dec(a).n = a /\ Dec(b).n = b
  BY DEF Dec, Token
<1> QED BY <1>3, <1>4

(* A flow that prints the text of another one selects that text by its     *)
(* MatchFlow, and selects no text that lacks a field of it: the cookie and *)
(* the table, which the two texts print in their own ways, are the same.   *)
LEMMA DumpedIsSelected ==
    ASSUME NEW f, OwnFields(f), f.Matches \in Seq(Range(f.Matches)), MarshalFlow(f).ok,
           NEW g, MarshalFlow(g) = MarshalFlow(f), NEW M, g.Matches \in Seq(M),
           MarshalMatchFlow(MatchFlow(g)).ok
    PROVE  LET text == MarshalFlow(f).v
               sel  == MarshalMatchFlow(MatchFlow(g)).v
           IN  /\ Selects(sel, text)
               /\ \A t, S : t.fields \in Seq(S) /\ Selects(sel, t) => MatchFields(text) \subseteq MatchFields(t)
<1> DEFINE text == MarshalFlow(f).v
           sel == MarshalMatchFlow(MatchFlow(g)).v
           mm == marshalMatches(g.Matches).v
           own == {Number("table", g.Table)} \cup ProtocolField(g) \cup PortField(g) \cup Range(mm)
<1>1. text.fields = FlowFields(g, mm) /\ marshalMatches(g.Matches).ok
  <2>1. MarshalFlow(g).ok
    OBVIOUS
  <2>2. MarshalFlow(g).v = [fields |-> FlowFields(g, mm), actions |-> marshalActions(g.Actions).v]
    BY <2>1, MarshalledIs, Zenon
  <2>3. marshalMatches(g.Matches).ok
    BY <2>1, MarshalledIs, Zenon
  <2> HIDE DEF mm
  <2> QED BY <2>2, <2>3
<1>2. sel = MatchFlowFields(MatchFlow(g), mm)
  BY SelectionPrinted
<1>3. PICK PrintedSet : mm \in Seq(PrintedSet)
  BY <1>1, MatchesPrinted, Zenon DEF TextsOf
<1>4. \A x \in Range(text.fields) :
        /\ x.key = "cookie" => x = Field("cookie", <<x.val[1]>>)
        /\ x.key = "table" => x = Number("table", f.Table)
  BY OwnFieldsOnly
<1> HIDE DEF text, sel, mm
<1>5. Range(text.fields) = Timing(g) \cup own \cup CookieOf(g)
  <2>1. Range(FlowFields(g, mm)) = Timing(g) \cup {Number("table", g.Table)} \cup ProtocolField(g) \cup PortField(g)
                  \cup Range(mm) \cup CookieOf(g)
    BY <1>3, RangeOfFlow
  <2> QED BY <2>1, <1>1
<1>6. \E S : text.fields \in Seq(S)
  BY <1>1, <1>3, RangeOfFlow
<1>7. g.Table # AnyTable
  <2>1. Number("table", g.Table) = Number("table", f.Table)
    <3>1. Number("table", g.Table).key = "table"
      BY FieldFields DEF Number
    <3> QED BY <3>1, <1>4, <1>5
  <2> QED BY <2>1, SameNumber DEF OwnFields
<1>8. Range(sel) = own \cup CookieSelected(g) /\ \E S : sel \in Seq(S)
  <2>1. Range(sel) = {Number("table", g.Table)} \cup ProtocolField(g) \cup PortField(g)
                  \cup Range(mm) \cup CookieSelected(g)
    BY <1>2, <1>3, <1>7, RangeOfMatchFlow
  <2>2. \E S : sel \in Seq(S)
    BY <1>2, <1>3, <1>7, RangeOfMatchFlow
  <2> QED BY <2>1, <2>2
<1> HIDE DEF own
<1>9. \A x \in own : Wanted(x) = x /\ x \in Range(text.fields)
  BY <1>4, <1>5 DEF Wanted
<1>10. \A x \in CookieSelected(g) : Wanted(x) = Field("cookie", <<Hex(g.Cookie)>>) /\ CookieOf(g) = {Field("cookie", <<Hex(g.Cookie)>>)}
  <2> SUFFICES ASSUME NEW x \in CookieSelected(g)
               PROVE  Wanted(x) = Field("cookie", <<Hex(g.Cookie)>>) /\ CookieOf(g) = {Field("cookie", <<Hex(g.Cookie)>>)}
    OBVIOUS
  <2>1. g.Cookie > 0 /\ x = Field("cookie", <<Hex(g.Cookie), Dec(-1)>>)
    BY DEF CookieSelected
  <2>2. x.key = "cookie" /\ x.val = <<Hex(g.Cookie), Dec(-1)>>
    BY <2>1, FieldFields
  <2>3. x.val[1] = Hex(g.Cookie)
    BY <2>2
  <2> QED BY <2>1, <2>2, <2>3 DEF Wanted, CookieOf
<1>11. Selects(sel, text)
  <2>1. \A x \in Range(sel) : Wanted(x) \in Range(text.fields)
    BY <1>5, <1>8, <1>9, <1>10
  <2> QED BY <2>1, <1>6, <1>8, SelectionIs
<1>12. ASSUME NEW t, NEW S, t.fields \in Seq(S), Selects(sel, t), NEW x \in MatchFields(text)
       PROVE  x \in MatchFields(t)
  <2>1. \A y \in Range(sel) : Wanted(y) \in Range(t.fields)
    BY <1>8, <1>12, SelectionIs
  <2>2. x \in Range(text.fields) /\ x.key \notin {"priority", "idle_timeout"}
    BY <1>12, MatchFieldsAre
  <2>3. \A y \in Timing(g) : y.key \in {"priority", "idle_timeout"}
    BY FieldFields DEF Timing, Number
  <2>4. CASE x \in own
    <3>1. x \in Range(t.fields)
      BY <2>1, <2>4, <1>8, <1>9
    <3> QED BY <3>1, <2>2, MatchFieldsAre
  <2>5. CASE x \in CookieOf(g)
    <3>1. g.Cookie > 0 /\ x = Field("cookie", <<Hex(g.Cookie)>>)
      BY <2>5 DEF CookieOf
    <3>2. Field("cookie", <<Hex(g.Cookie), Dec(-1)>>) \in CookieSelected(g)
      BY <3>1 DEF CookieSelected
    <3>3. x \in Range(t.fields)
      BY <3>1, <3>2, <2>1, <1>8, <1>10
    <3> QED BY <3>3, <2>2, MatchFieldsAre
  <2> QED BY <2>2, <2>3, <2>4, <2>5, <1>5
<1> QED BY <1>11, <1>12 DEF text, sel

-----------------------------------------------------------------------------
(* The texts on the bridge *)

(* The texts of the flows that the caller may add. *)
Texts == {MarshalFlow(f).v : f \in {g \in Flows : MarshalFlow(g).ok}}

(* Each was printed for one of them, ... *)
LEMMA TextPrinted ==
    ASSUME NEW t \in Texts
    PROVE  \E f \in Flows : MarshalFlow(f) = Ok(t) /\ MarshalFlow(f).ok /\ MarshalFlow(f).v = t
<1>1. PICK f \in Flows : MarshalFlow(f).ok /\ t = MarshalFlow(f).v
  BY DEF Texts
<1>2. MarshalFlow(f) = Ok(MarshalFlow(f).v)
  BY <1>1, MarshalledIs, Zenon
<1> QED BY <1>1, <1>2

(* ... and has fields and actions. *)
LEMMA TextsAre ==
    ASSUME NEW t \in Texts
    PROVE  /\ t.fields # <<>> /\ t.actions # <<>> /\ DumpLine(t) # Banner
           /\ DumpLine(t).actions = t.actions
           /\ \E S : t.fields \in Seq(S)
           /\ t = [fields |-> t.fields, actions |-> t.actions]
<1>1. PICK f \in Flows : MarshalFlow(f) = Ok(t) /\ MarshalFlow(f).ok /\ MarshalFlow(f).v = t
  BY TextPrinted
<1>2. f.Actions \in Seq(Range(f.Actions)) /\ f.Matches \in Seq(Range(f.Matches))
  BY FlowsAssumption
<1>3. t.actions # <<>>
  BY <1>1, <1>2, ActionsPrinted
<1> DEFINE mm == marshalMatches(f.Matches).v
           aa == marshalActions(f.Actions).v
           x == FlowFields(f, mm)
<1>4. t = [fields |-> x, actions |-> aa] /\ marshalMatches(f.Matches).ok
  <2>1. MarshalFlow(f).v = [fields |-> FlowFields(f, mm), actions |-> aa]
    BY <1>1, MarshalledIs, Zenon
  <2>2. marshalMatches(f.Matches).ok
    BY <1>1, MarshalledIs, Zenon
  <2> QED BY <2>1, <2>2, <1>1
<1>5. PICK S : mm \in Seq(S)
  <2>1. PICK R : f.Matches \in Seq(R)
    BY <1>2
  <2> QED BY <2>1, <1>4, MatchesPrinted, Zenon DEF TextsOf
<1> HIDE DEF mm, aa
<1>6. (\E B : x \in Seq(B)) /\ Number("priority", f.Priority) \in Range(x)
  <2>1. (\E B : x \in Seq(B)) /\ Range(x) = Timing(f) \cup {Number("table", f.Table)} \cup ProtocolField(f) \cup PortField(f)
                  \cup Range(mm) \cup CookieOf(f)
    BY <1>5, RangeOfFlow
  <2> HIDE DEF x
  <2> QED BY <2>1 DEF Timing
<1> HIDE DEF x
<1>7. x # <<>>
  BY <1>6 DEF Range
<1>8. t.fields = x /\ t.actions = aa
  BY <1>4
<1>9. DumpLine(t) # Banner /\ DumpLine(t).actions = aa
  BY <1>3, <1>4, <1>8, LineIsNoBanner
<1>10. t = [fields |-> t.fields, actions |-> t.actions]
  BY <1>4, <1>8
<1> QED BY <1>3, <1>6, <1>7, <1>8, <1>9, <1>10

(* The fields at some positions are a sequence, ... *)
LEMMA FieldsAtType ==
    ASSUME NEW B, NEW fields \in Seq(B), NEW at, at \subseteq DOMAIN fields
    PROVE  \E S : FieldsAt(fields, at) \in Seq(S)
<1> DEFINE n == Cardinality(at)
           e(j) == fields[CHOOSE i \in at : Cardinality({k \in at : k <= i}) = j]
           S == {e(j) : j \in 1 .. n}
<1>1. n \in Nat
  <2>1. IsFiniteSet(1 .. Len(fields)) /\ at \subseteq 1 .. Len(fields)
    BY FS_Interval
  <2> QED BY <2>1, FS_Subset, FS_CardinalityType
<1>2. FieldsAt(fields, at) = [j \in 1 .. n |-> e(j)]
  BY Zenon DEF FieldsAt
<1> HIDE DEF n, e
<1>3. [j \in 1 .. n |-> e(j)] \in [1 .. n -> S]
  OBVIOUS
<1> HIDE DEF S
<1> QED BY <1>1, <1>2, <1>3

(* ... and so are two sequences together; ... *)
LEMMA JoinedType ==
    ASSUME NEW s, \E A : s \in Seq(A), NEW t, \E B : t \in Seq(B)
    PROVE  \E C : s \o t \in Seq(C)
<1> PICK A : s \in Seq(A)
  OBVIOUS
<1> PICK B : t \in Seq(B)
  OBVIOUS
<1>1. s \in Seq(A \cup B) /\ t \in Seq(A \cup B)
  BY SeqMonotonic
<1> QED BY <1>1

(* ... so the fields of a line have a length. *)
LEMMA LineType ==
    ASSUME NEW x, NEW B, x \in Seq(B), NEW y
    PROVE  Len(DumpLine([fields |-> x, actions |-> y]).fields) \in Nat
<1> DEFINE text == [fields |-> x, actions |-> y]
           own == {"cookie", "table", "idle_timeout", "priority"}
           get(key) == FieldsAt(text.fields, {i \in DOMAIN text.fields : text.fields[i].key = key})
           blank(f) == [f EXCEPT !.blank = TRUE]
           cookie == IF get("cookie") = <<>> THEN <<Field("cookie", <<Hex(0)>>)>> ELSE get("cookie")
           idle == IF get("idle_timeout")[1].val = <<Dec(0)>> THEN <<>> ELSE get("idle_timeout")
           a == <<Field("duration", <<Word("1s")>>)>>
           b == <<Number("n_packets", 1), Number("n_bytes", 2)>>
           head == a \o get("table") \o b \o idle \o get("priority")
           blanks == [i \in DOMAIN head |-> blank(head[i])]
           rest == FieldsAt(text.fields, {i \in DOMAIN text.fields : text.fields[i].key \notin own})
<1>1. DumpLine(text) = [text EXCEPT !.fields = cookie \o blanks \o rest]
  BY Zenon DEF DumpLine
<1>2. text.fields = x
  OBVIOUS
<1> HIDE DEF text
<1>3. \A k : \E S : get(k) \in Seq(S)
  <2> SUFFICES ASSUME NEW k PROVE \E S : get(k) \in Seq(S)
    OBVIOUS
  <2> DEFINE at == {i \in DOMAIN text.fields : text.fields[i].key = k}
  <2>1. at \subseteq DOMAIN x
    BY <1>2
  <2> HIDE DEF at
  <2>2. \E S : FieldsAt(x, at) \in Seq(S)
    BY <2>1, FieldsAtType
  <2> QED BY <2>2, <1>2 DEF at
<1>4. \E S : rest \in Seq(S)
  <2> DEFINE at == {i \in DOMAIN text.fields : text.fields[i].key \notin own}
  <2>1. at \subseteq DOMAIN x
    BY <1>2
  <2> HIDE DEF at
  <2>2. \E S : FieldsAt(x, at) \in Seq(S)
    BY <2>1, FieldsAtType
  <2> QED BY <2>2, <1>2 DEF at
<1> HIDE DEF get, rest, blank
<1>5. \E S : cookie \in Seq(S)
  <2>1. <<Field("cookie", <<Hex(0)>>)>> \in Seq({Field("cookie", <<Hex(0)>>)})
    OBVIOUS
  <2>2. \E S : get("cookie") \in Seq(S)
    BY <1>3
  <2> QED BY <2>1, <2>2, Zenon
<1>6. \E S : idle \in Seq(S)
  <2>1. \E S : get("idle_timeout") \in Seq(S)
    BY <1>3
  <2>2. <<>> \in Seq({})
    OBVIOUS
  <2> QED BY <2>1, <2>2, Zenon
<1>7. (\E S : a \in Seq(S)) /\ (\E S : b \in Seq(S))
  <2> DEFINE f == Field("duration", <<Word("1s")>>)
             g == Number("n_packets", 1)
             h == Number("n_bytes", 2)
  <2> HIDE DEF f, g, h
  <2>1. <<f>> \in Seq({f}) /\ <<g, h>> \in Seq({g, h})
    OBVIOUS
  <2> QED BY <2>1 DEF f, g, h
<1> HIDE DEF cookie, idle, a, b
<1>8. \E S : head \in Seq(S)
  <2>1. \E S : a \o get("table") \in Seq(S)
    BY <1>3, <1>7, JoinedType
  <2>2. \E S : (a \o get("table")) \o b \in Seq(S)
    BY <2>1, <1>7, JoinedType
  <2>3. \E S : ((a \o get("table")) \o b) \o idle \in Seq(S)
    BY <2>2, <1>6, JoinedType
  <2> QED BY <2>3, <1>3, JoinedType
<1> HIDE DEF head
<1>9. \E S : blanks \in Seq(S)
  <2>1. DOMAIN head = 1 .. Len(head) /\ Len(head) \in Nat
    BY <1>8
  <2>2. blanks \in [1 .. Len(head) -> {blank(head[i]) : i \in 1 .. Len(head)}]
    BY <2>1
  <2> DEFINE V == {blank(head[i]) : i \in 1 .. Len(head)}
  <2> HIDE DEF V
  <2>3. blanks \in Seq(V)
    BY <2>1, <2>2 DEF V
  <2> QED BY <2>3
<1> HIDE DEF blanks
<1>10. \E S : (cookie \o blanks) \o rest \in Seq(S)
  <2>1. \E S : cookie \o blanks \in Seq(S)
    BY <1>5, <1>9, JoinedType
  <2> QED BY <2>1, <1>4, JoinedType
<1>11. DumpLine(text).fields = (cookie \o blanks) \o rest
  BY <1>1 DEF text
<1>12. Len(DumpLine(text).fields) \in Nat
  BY <1>10, <1>11
<1> QED BY <1>12 DEF text

(* The matches of a flow that was dumped are a sequence. *)
LEMMA FlowRead ==
    ASSUME NEW t \in Texts, FlowOf(t).ok
    PROVE  \E M : FlowOf(t).v.Matches \in Seq(M)
<1> DEFINE line == DumpLine(t)
           parsed == ParseFields(line.fields)
           acts == marshalFunctions([i \in DOMAIN line.actions |-> parseAction(line.actions[i])])
<1>1. FlowOf(t) = IF line.actions = <<>> \/ WithDrop(line.actions) THEN Fail
                  ELSE IF parsed.ok THEN IF acts.ok THEN Ok([parsed.v EXCEPT !.Actions = acts.v]) ELSE Fail
                  ELSE Fail
  BY Zenon DEF FlowOf, UnmarshalFlow, Then
<1>2. FlowOf(t) # Fail
  BY DEF Fail
<1> HIDE DEF parsed, acts
<1>3. parsed.ok /\ FlowOf(t) = Ok([parsed.v EXCEPT !.Actions = acts.v])
  BY <1>1, <1>2, Zenon
<1>4. FlowOf(t).v = [parsed.v EXCEPT !.Actions = acts.v]
  BY <1>3, OkFields
<1>5. Len(line.fields) \in Nat
  <2>1. t = [fields |-> t.fields, actions |-> t.actions] /\ \E S : t.fields \in Seq(S)
    BY TextsAre
  <2>2. Len(DumpLine([fields |-> t.fields, actions |-> t.actions]).fields) \in Nat
    BY <2>1, LineType
  <2> QED BY <2>1, <2>2, Zenon
<1>6. "Matches" \in DOMAIN parsed.v /\ \E M : parsed.v.Matches \in Seq(M)
  BY <1>3, <1>5, FlowFieldsParsed DEF parsed
<1>7. FlowOf(t).v.Matches = parsed.v.Matches
  BY <1>4, <1>6
<1> QED BY <1>6, <1>7

-----------------------------------------------------------------------------
(* The invariant *)

(* The bridge holds texts that the caller has added, no more than the      *)
(* bound.                                                                  *)
BridgeOK == installed \subseteq Texts /\ IsFiniteSet(installed) /\ Cardinality(installed) <= MaxInstalled

(* The flows of the last dump are what its lines are read as, up to the    *)
(* first error.                                                            *)
DumpOK ==
    /\ lines \in Seq(Texts) /\ Len(lines) <= MaxInstalled
    /\ dumped \in Seq({FlowOf(t).v : t \in Texts}) /\ Len(dumped) <= Len(lines)
    /\ complete \in BOOLEAN /\ (complete => Len(dumped) = Len(lines))
    /\ \A i \in DOMAIN dumped : FlowOf(lines[i]).ok /\ dumped[i] = FlowOf(lines[i]).v

(* What was removed is gone. *)
DeletedOK ==
    /\ result \in {"ok", "error"} /\ deleted.op \in {"none", "delete"}
    /\ deleted.removed \cap installed = {}

(* The inductive invariant. *)
FlowsInv == BridgeOK /\ DumpOK /\ DeletedOK

(* It holds at first, ... *)
LEMMA FlowsInit == OpenFlowInit => FlowsInv
<1> SUFFICES ASSUME OpenFlowInit PROVE FlowsInv
  OBVIOUS
<1> USE DEF OpenFlowInit
<1>1. BridgeOK
  BY FS_EmptySet, FlowsAssumption DEF BridgeOK
<1>2. DumpOK
  <2>1. lines = <<>> /\ dumped = <<>> /\ complete = TRUE
    OBVIOUS
  <2> DEFINE V == {FlowOf(t).v : t \in Texts}
  <2> HIDE DEF V
  <2>2. <<>> \in Seq(Texts) /\ Len(<<>>) = 0 /\ <<>> \in Seq(V) /\ DOMAIN <<>> = {}
    OBVIOUS
  <2>3. 0 <= MaxInstalled
    BY FlowsAssumption
  <2> QED BY <2>1, <2>2, <2>3 DEF DumpOK, V
<1>3. DeletedOK
  BY DEF DeletedOK, NoDelete
<1> QED BY <1>1, <1>2, <1>3 DEF FlowsInv

(* (A call that dumps nothing leaves the last dump as it is.) *)
LEMMA DumpUnchanged == ASSUME DumpOK, UNCHANGED <<lines, dumped, complete>> PROVE DumpOK'
BY DEF DumpOK

(* (The fields of NoDelete.) *)
LEMMA NoneDeleted == NoDelete.op = "none" /\ NoDelete.removed = {}
BY DEF NoDelete

(* ... after AddFlow, ... *)
LEMMA AddStep ==
    ASSUME FlowsInv, NEW f \in Flows, Cardinality(installed) < MaxInstalled, AddFlow(f)
    PROVE  FlowsInv'
<1>1. DumpOK' /\ deleted' = NoDelete
  BY DumpUnchanged DEF FlowsInv, AddFlow
<1>2. result' \in {"ok", "error"} /\ BridgeOK'
  <2>1. CASE \E text \in {MarshalFlow(f)} : text.ok /\ installed' = installed \cup {text.v} /\ Returns("ok")
    <3>1. MarshalFlow(f).ok /\ installed' = installed \cup {MarshalFlow(f).v} /\ result' = "ok"
      BY <2>1 DEF Returns
    <3>2. MarshalFlow(f).v \in Texts
      BY <3>1 DEF Texts
    <3>3. /\ IsFiniteSet(installed') /\ Cardinality(installed') <= Cardinality(installed) + 1
          /\ Cardinality(installed) \in Nat
      <4>1. IsFiniteSet(installed) /\ Cardinality(installed) \in Nat
        BY FS_CardinalityType DEF FlowsInv, BridgeOK
      <4> DEFINE x == MarshalFlow(f).v
      <4>2. installed' = installed \cup {x}
        BY <3>1
      <4> HIDE DEF x
      <4>3. /\ IsFiniteSet(installed \cup {x})
            /\ Cardinality(installed \cup {x}) =
                 IF x \in installed THEN Cardinality(installed) ELSE Cardinality(installed) + 1
        BY <4>1, FS_AddElement
      <4> QED BY <4>1, <4>2, <4>3
    <3>4. Cardinality(installed') \in Nat
      BY <3>3, FS_CardinalityType
    <3> QED BY <3>1, <3>2, <3>3, <3>4, FlowsAssumption DEF FlowsInv, BridgeOK
  <2>2. CASE UNCHANGED installed /\ Returns("error")
    BY <2>2 DEF FlowsInv, BridgeOK, Returns
  <2> QED BY <2>1, <2>2 DEF AddFlow
<1> QED BY <1>1, <1>2, NoneDeleted DEF FlowsInv, DeletedOK

(* ... after DelFlows, with a flow or with nil, ... *)
LEMMA DeleteStep ==
    ASSUME FlowsInv, NEW meant, NEW text, Delete(meant, text)
    PROVE  FlowsInv'
<1>1. DumpOK'
  BY DumpUnchanged DEF FlowsInv, Delete
<1> DEFINE removed == {t \in installed : Selects(text.v, t)}
<1>2. CASE /\ Returns("ok") /\ installed' = installed \ removed
           /\ deleted' = [op |-> "delete", meant |-> meant, removed |-> removed]
  <2> HIDE DEF removed
  <2>1. deleted'.op = "delete" /\ deleted'.removed = removed
    BY <1>2
  <2>2. IsFiniteSet(installed') /\ Cardinality(installed') <= Cardinality(installed)
    BY <1>2, FS_Subset DEF FlowsInv, BridgeOK
  <2>3. Cardinality(installed') \in Nat /\ Cardinality(installed) \in Nat
    BY <2>2, FS_CardinalityType DEF FlowsInv, BridgeOK
  <2>4. BridgeOK'
    BY <1>2, <2>2, <2>3, FlowsAssumption DEF FlowsInv, BridgeOK
  <2> QED BY <1>1, <1>2, <2>1, <2>4 DEF FlowsInv, DeletedOK, Returns
<1>3. CASE UNCHANGED installed /\ deleted' = NoDelete /\ Returns("error")
  BY <1>1, <1>3, NoneDeleted DEF FlowsInv, BridgeOK, DeletedOK, Returns
<1> QED BY <1>2, <1>3 DEF Delete

(* ... after DumpFlows and DumpFlowsWithFlowArgs, ... *)
LEMMA DumpStep ==
    ASSUME FlowsInv, NEW sel, Dump(sel)
    PROVE  FlowsInv'
<1>1. BridgeOK' /\ deleted' = NoDelete
  BY DEF FlowsInv, BridgeOK, Dump
<1>2. DumpOK' /\ result' \in {"ok", "error"}
  <2>1. CASE /\ sel.ok
             /\ lines' = SetToSeq({t \in installed : Selects(sel.v, t)})
             /\ \E output \in DumpOutputs(lines') : \E r \in {parseEachLine(output)} :
                   dumped' = r.flows /\ complete' = r.ok /\ Returns(IF r.ok THEN "ok" ELSE "error")
    <3> DEFINE chosen == {t \in installed : Selects(sel.v, t)}
    <3>1. PICK output \in DumpOutputs(lines') :
             /\ dumped' = parseEachLine(output).flows /\ complete' = parseEachLine(output).ok
             /\ result' = IF parseEachLine(output).ok THEN "ok" ELSE "error"
      BY <2>1 DEF Returns
    <3>2. chosen \subseteq installed /\ lines' = SetToSeq(chosen)
      BY <2>1
    <3> HIDE DEF chosen
    <3>3. /\ IsFiniteSet(chosen) /\ Cardinality(chosen) <= Cardinality(installed)
          /\ Cardinality(chosen) \in Nat /\ Cardinality(installed) \in Nat
      BY <3>2, FS_Subset, FS_CardinalityType DEF FlowsInv, BridgeOK
    <3>4. lines' \in Seq(chosen) /\ Len(lines') = Cardinality(chosen)
      BY <3>2, <3>3, SetToSeqExact
    <3>5. lines' \in Seq(Texts)
      BY <3>2, <3>4, SeqMonotonic DEF FlowsInv, BridgeOK
    <3>6. Len(lines') <= MaxInstalled
      BY <3>3, <3>4, FlowsAssumption DEF FlowsInv, BridgeOK
    <3>7. \A t \in Texts : DumpLine(t) # Banner
      BY TextsAre
    <3> DEFINE r == parseEachLine(output)
    <3>8. /\ r.ok \in BOOLEAN /\ r.flows \in Seq({FlowOf(t).v : t \in Texts})
          /\ Len(r.flows) <= Len(lines') /\ (r.ok => Len(r.flows) = Len(lines'))
          /\ \A i \in DOMAIN r.flows : FlowOf(lines'[i]).ok /\ r.flows[i] = FlowOf(lines'[i]).v
      BY <3>5, <3>7, DumpRead
    <3>9. dumped' = r.flows /\ complete' = r.ok /\ result' \in {"ok", "error"}
      BY <3>1
    <3> HIDE DEF r
    <3> QED BY <3>5, <3>6, <3>8, <3>9 DEF DumpOK
  <2>2. CASE lines' = <<>> /\ dumped' = <<>> /\ complete' = FALSE /\ Returns("error")
    <3> DEFINE V == {FlowOf(t).v : t \in Texts}
    <3> HIDE DEF V
    <3>1. <<>> \in Seq(Texts) /\ Len(<<>>) = 0 /\ <<>> \in Seq(V) /\ DOMAIN <<>> = {}
      OBVIOUS
    <3>2. 0 <= MaxInstalled
      BY FlowsAssumption
    <3>3. lines' = <<>> /\ dumped' = <<>> /\ complete' = FALSE /\ result' = "error"
      BY <2>2 DEF Returns
    <3>4. DumpOK'
      <4>1. lines' \in Seq(Texts) /\ Len(lines') <= MaxInstalled
        BY <3>1, <3>2, <3>3
      <4>2. dumped' \in Seq(V) /\ Len(dumped') <= Len(lines') /\ Len(dumped') = Len(lines') /\ DOMAIN dumped' = {}
        BY <3>1, <3>3
      <4>3. complete' \in BOOLEAN
        BY <3>3
      <4> QED BY <4>1, <4>2, <4>3 DEF DumpOK, V
    <3> QED BY <3>3, <3>4
  <2> QED BY <2>1, <2>2 DEF Dump
<1> QED BY <1>1, <1>2, NoneDeleted DEF FlowsInv, DeletedOK

(* ... and so after every step. *)
LEMMA FlowsInductive == FlowsInv /\ [OpenFlowNext]_openFlowVars => FlowsInv'
<1> SUFFICES ASSUME FlowsInv, [OpenFlowNext]_openFlowVars PROVE FlowsInv'
  OBVIOUS
<1>1. ASSUME NEW f \in Flows, Cardinality(installed) < MaxInstalled, AddFlow(f) PROVE FlowsInv'
  BY <1>1, AddStep
<1>2. ASSUME NEW i \in DOMAIN dumped, DelFlows(i) PROVE FlowsInv'
  BY <1>2, DeleteStep DEF DelFlows
<1>3. ASSUME DelAllFlows PROVE FlowsInv'
  BY <1>3, DeleteStep DEF DelAllFlows
<1>4. ASSUME DumpFlows PROVE FlowsInv'
  BY <1>4, DumpStep DEF DumpFlows
<1>5. ASSUME NEW f \in Flows, DumpFlowsWithFlowArgs(f) PROVE FlowsInv'
  BY <1>5, DumpStep DEF DumpFlowsWithFlowArgs
<1>6. ASSUME UNCHANGED openFlowVars PROVE FlowsInv'
  BY <1>6 DEF FlowsInv, BridgeOK, DumpOK, DeletedOK, openFlowVars
<1> QED BY <1>1, <1>2, <1>3, <1>4, <1>5, <1>6 DEF OpenFlowNext

(* Therefore it holds at any time. *)
LEMMA FlowsInvariant == OpenFlowSpec => []FlowsInv
BY FlowsInit, FlowsInductive, PTL DEF OpenFlowSpec

(* The invariant has the types of the variables. *)
LEMMA FlowsType ==
    ASSUME FlowsInv
    PROVE  /\ \A t \in installed : t.fields # <<>> /\ t.actions # <<>>
           /\ Len(dumped) <= Len(lines) /\ Len(lines) <= MaxInstalled
           /\ complete \in BOOLEAN /\ result \in {"ok", "error"} /\ deleted.op \in {"none", "delete"}
           /\ deleted.removed \cap installed = {}
BY TextsAre DEF FlowsInv, BridgeOK, DumpOK, DeletedOK

-----------------------------------------------------------------------------
(* Dumping and deleting *)

(* If every flow survives by itself, a dumped flow prints the text of its  *)
(* line.                                                                   *)
LEMMA DumpedAsAdded ==
    ASSUME \A f \in Flows : FlowReadBack(f), FlowsInv, NEW i \in DOMAIN dumped
    PROVE  /\ lines[i] \in Texts /\ MarshalFlow(dumped[i]) = Ok(lines[i])
           /\ \E M : dumped[i].Matches \in Seq(M)
<1>1. i \in DOMAIN lines /\ lines[i] \in Texts
  BY DEF FlowsInv, DumpOK
<1>2. FlowOf(lines[i]).ok /\ dumped[i] = FlowOf(lines[i]).v
  BY DEF FlowsInv, DumpOK
<1>3. PICK f \in Flows : MarshalFlow(f) = Ok(lines[i]) /\ MarshalFlow(f).ok /\ MarshalFlow(f).v = lines[i]
  BY <1>1, TextPrinted
<1>4. MarshalFlow(FlowOf(lines[i]).v) = MarshalFlow(f)
  <2>1. FlowReadBack(f)
    OBVIOUS
  <2> QED BY <2>1, <1>2, <1>3 DEF FlowReadBack, FlowOf
<1> QED BY <1>1, <1>2, <1>3, <1>4, FlowRead

(* If every single flow survives being printed, dumped and read            *)
(* (FlowReadBack: see the end of this module), then so do all of them      *)
(* together after any calls, for any number of flows: what DumpFlows and   *)
(* DumpFlowsWithFlowArgs return without an error are the flows that were   *)
(* added, each in its line, wherever the switch begins a second message    *)
(* (ovs/openflow.go).                                                      *)
THEOREM DumpsAreFaithful ==
    ASSUME \A f \in Flows : FlowReadBack(f)
    PROVE  OpenFlowSpec => []DumpFaithful
<1>1. FlowsInv => DumpFaithful
  <2> SUFFICES ASSUME FlowsInv, complete
               PROVE  Len(dumped) = Len(lines) /\ \A i \in DOMAIN dumped : MarshalFlow(dumped[i]) = Ok(lines[i])
    BY DEF DumpFaithful
  <2>1. Len(dumped) = Len(lines)
    BY DEF FlowsInv, DumpOK
  <2> QED BY <2>1, DumpedAsAdded
<1> QED BY <1>1, FlowsInvariant, PTL

(* The MatchFlow of a dumped flow selects the text of its line, and no     *)
(* text that lacks one of its match fields.                                *)
LEMMA DumpedIsDeleted ==
    ASSUME \A f \in Flows : FlowReadBack(f) /\ OwnFields(f), FlowsInv,
           NEW i \in DOMAIN dumped, MarshalMatchFlow(MatchFlow(dumped[i])).ok
    PROVE  LET sel == MarshalMatchFlow(MatchFlow(dumped[i])).v
           IN  /\ Selects(sel, lines[i])
               /\ \A t \in Texts : Selects(sel, t) => MatchFields(lines[i]) \subseteq MatchFields(t)
<1>1. /\ lines[i] \in Texts /\ MarshalFlow(dumped[i]) = Ok(lines[i])
      /\ \E M : dumped[i].Matches \in Seq(M)
  BY DumpedAsAdded
<1>2. PICK f \in Flows : MarshalFlow(f) = Ok(lines[i]) /\ MarshalFlow(f).ok /\ MarshalFlow(f).v = lines[i]
  BY <1>1, TextPrinted
<1>3. f.Matches \in Seq(Range(f.Matches)) /\ OwnFields(f)
  BY FlowsAssumption
<1> DEFINE sel == MarshalMatchFlow(MatchFlow(dumped[i])).v
<1>4. /\ Selects(sel, lines[i])
      /\ \A t, S : t.fields \in Seq(S) /\ Selects(sel, t) => MatchFields(lines[i]) \subseteq MatchFields(t)
  BY <1>1, <1>2, <1>3, DumpedIsSelected
<1> HIDE DEF sel
<1>5. \A t \in Texts : \E S : t.fields \in Seq(S)
  BY TextsAre
<1>6. \A t \in Texts : Selects(sel, t) => MatchFields(lines[i]) \subseteq MatchFields(t)
  BY <1>4, <1>5
<1> QED BY <1>4, <1>6 DEF sel

(* A step keeps DeleteDumped. *)
LEMMA DeletedStep ==
    ASSUME \A f \in Flows : FlowReadBack(f) /\ OwnFields(f), FlowsInv, DeleteDumped, OpenFlowNext
    PROVE  DeleteDumped'
<1>1. ASSUME deleted' = NoDelete PROVE DeleteDumped'
  BY <1>1, NoneDeleted DEF DeleteDumped
<1>2. ASSUME NEW i \in DOMAIN dumped, DelFlows(i) PROVE DeleteDumped'
  <2> DEFINE sel == MarshalMatchFlow(MatchFlow(dumped[i]))
             removed == {t \in installed : Selects(sel.v, t)}
  <2>1. CASE /\ sel.ok /\ installed' = installed \ removed
             /\ deleted' = [op |-> "delete", meant |-> <<lines[i]>>, removed |-> removed]
    <3>1. /\ Selects(sel.v, lines[i])
          /\ \A t \in Texts : Selects(sel.v, t) => MatchFields(lines[i]) \subseteq MatchFields(t)
      BY <2>1, DumpedIsDeleted
    <3> HIDE DEF sel
    <3>2. lines[i] \notin installed'
      BY <2>1, <3>1
    <3>3. \A t \in removed : MatchFields(lines[i]) \subseteq MatchFields(t)
      BY <3>1 DEF FlowsInv, BridgeOK
    <3> HIDE DEF removed
    <3>4. deleted'.meant = <<lines[i]>> /\ deleted'.removed = removed
      BY <2>1
    <3>5. deleted'.meant[1] = lines[i]
      BY <3>4
    <3> QED BY <3>2, <3>3, <3>4, <3>5 DEF DeleteDumped
  <2>2. CASE deleted' = NoDelete
    BY <2>2, <1>1
  <2> QED BY <1>2, <2>1, <2>2 DEF DelFlows, Delete
<1>3. ASSUME DelAllFlows PROVE DeleteDumped'
  <2>1. deleted'.meant = <<>> \/ deleted' = NoDelete
    BY <1>3 DEF DelAllFlows, Delete
  <2> QED BY <2>1, <1>1 DEF DeleteDumped
<1>4. ASSUME NEW f \in Flows, AddFlow(f) PROVE DeleteDumped'
  BY <1>1, <1>4 DEF AddFlow
<1>5. ASSUME NEW sel, Dump(sel) PROVE DeleteDumped'
  BY <1>1, <1>5 DEF Dump
<1> QED BY <1>2, <1>3, <1>4, <1>5 DEF OpenFlowNext, DumpFlows, DumpFlowsWithFlowArgs

(* If moreover the fields of every flow are its own, DelFlows with the     *)
(* MatchFlow of a dumped flow removes that flow and no flow that lacks any *)
(* of its match fields, its table or its cookie, after any calls           *)
(* (ovs/openflow.go, ovs/flow.go).                                         *)
THEOREM DumpedAreDeleted ==
    ASSUME \A f \in Flows : FlowReadBack(f) /\ OwnFields(f)
    PROVE  OpenFlowSpec => []DeleteDumped
<1>1. OpenFlowInit => DeleteDumped
  BY NoneDeleted DEF OpenFlowInit, DeleteDumped
<1>2. FlowsInv /\ DeleteDumped /\ [OpenFlowNext]_openFlowVars => DeleteDumped'
  <2>1. ASSUME DeleteDumped, UNCHANGED openFlowVars PROVE DeleteDumped'
    BY <2>1 DEF DeleteDumped, openFlowVars
  <2> QED BY <2>1, DeletedStep
<1> QED BY <1>1, <1>2, FlowsInvariant, PTL DEF OpenFlowSpec

-----------------------------------------------------------------------------
(* Reading the line of a flow back *)

(* The fields from one position to another. *)
IsPart(s, U, fields, a, b) ==
    s \in Seq(U) /\ Len(s) = b - a + 1 /\ \A j \in 1 .. b - a + 1 : s[j] = fields[a + j - 1]

(* FieldsAt of the positions between two bounds is that part of the        *)
(* fields.                                                                 *)
LEMMA FieldsFrom ==
    ASSUME NEW U, NEW fields \in Seq(U), NEW a \in Nat \ {0}, NEW b \in Nat, a <= b + 1, b <= Len(fields)
    PROVE  IsPart(FieldsAt(fields, a .. b), U, fields, a, b)
<1> DEFINE n == b - a + 1
           at == a .. b
           e(j) == fields[CHOOSE i \in at : Cardinality({k \in at : k <= i}) = j]
<1>0. n \in Nat
  OBVIOUS
<1>1. Cardinality(at) = n
  <2>1. CASE a <= b
    BY <2>1, FS_Interval
  <2>2. CASE a = b + 1
    <3>1. at = {}
      BY <2>2
    <3> QED BY <2>2, <3>1, FS_EmptySet
  <2> QED BY <2>1, <2>2
<1>2. \A i \in at : Cardinality({k \in at : k <= i}) = i - a + 1
  <2> SUFFICES ASSUME NEW i \in at PROVE Cardinality({k \in at : k <= i}) = i - a + 1
    OBVIOUS
  <2>1. {k \in at : k <= i} = a .. i
    OBVIOUS
  <2>2. Cardinality(a .. i) = i - a + 1
    BY FS_Interval
  <2> QED BY <2>1, <2>2
<1>3. ASSUME NEW j \in 1 .. n PROVE e(j) = fields[a + j - 1]
  <2> DEFINE P(i) == Cardinality({k \in at : k <= i}) = j
             c == CHOOSE i \in at : P(i)
  <2>1. \A i \in at : P(i) <=> i = a + j - 1
    BY <1>2
  <2>2. a + j - 1 \in at
    OBVIOUS
  <2> HIDE DEF P, at
  <2>3. c \in at /\ P(c)
    <3>1. \E i \in at : P(i)
      BY <2>1, <2>2
    <3> QED BY <3>1, Zenon
  <2>4. c = a + j - 1
    BY <2>1, <2>3
  <2> QED BY <2>4 DEF P
<1>4. FieldsAt(fields, at) = [j \in 1 .. n |-> e(j)]
  BY <1>1, Zenon DEF FieldsAt
<1> HIDE DEF e
<1>5. \A j \in 1 .. n : e(j) \in U
  BY <1>3
<1>6. FieldsAt(fields, at) \in [1 .. n -> U]
  BY <1>4, <1>5
<1>7. FieldsAt(fields, at) \in Seq(U) /\ Len(FieldsAt(fields, at)) = n
  BY <1>0, <1>6
<1> QED BY <1>3, <1>4, <1>7 DEF IsPart

(* They are a sequence, if it has the same elements. *)
SameFrom(fields, a, t) == \A j \in 1 .. Len(t) : fields[a + j - 1] = t[j]

(* If that part is a known sequence, FieldsAt returns the sequence.        *)
LEMMA Slice ==
    ASSUME NEW U, NEW fields \in Seq(U), NEW a \in Nat \ {0}, NEW b, b <= Len(fields),
           NEW V, NEW t \in Seq(V), b = a + Len(t) - 1, SameFrom(fields, a, t)
    PROVE  FieldsAt(fields, a .. b) = t
<1> PICK n : n = Len(t)
  OBVIOUS
<1>3a. n \in Nat /\ \A j \in 1 .. n : fields[a + j - 1] = t[j]
  BY DEF SameFrom
<1>1. b \in Nat /\ a <= b + 1 /\ b - a + 1 = n
  OBVIOUS
<1>0. b \in Nat /\ a <= b + 1
  BY <1>1
<1>2. IsPart(FieldsAt(fields, a .. b), U, fields, a, b)
  BY <1>0, FieldsFrom, Zenon
<1> PICK s : s = FieldsAt(fields, a .. b)
  OBVIOUS
<1>3. Len(s) = n /\ s \in Seq(U) /\ \A j \in 1 .. n : s[j] = t[j]
  BY <1>1, <1>2, <1>3a DEF IsPart
<1>4. DOMAIN s = 1 .. n /\ DOMAIN t = 1 .. n
  BY <1>3, <1>3a
<1>5. s \in [1 .. n -> U] /\ t \in [1 .. n -> V]
  BY <1>3, <1>4
<1> QED BY <1>3, <1>5, SMTT(20)

(* FieldsAt of one position is the field there.                            *)
LEMMA SliceOne ==
    ASSUME NEW U, NEW fields \in Seq(U), NEW i \in 1 .. Len(fields)
    PROVE  FieldsAt(fields, i .. i) = <<fields[i]>>
<1>1. \E t : t = <<fields[i]>>
  OBVIOUS
<1>2. ASSUME NEW t, t = <<fields[i]>> PROVE FieldsAt(fields, i .. i) = t
  <2>1. i \in Nat \ {0} /\ i <= Len(fields) /\ t \in Seq({fields[i]}) /\ Len(t) = 1 /\ t[1] = fields[i]
    BY <1>2
  <2>2. i = i + Len(t) - 1 /\ SameFrom(fields, i, t)
    BY <2>1 DEF SameFrom
  <2> HIDE <1>2
  <2> QED BY <2>1, <2>2, Slice, Zenon
<1> QED BY <1>1, <1>2

SameAfterOne(fields, t) == \A j \in 1 .. Len(t) : fields[j + 1] = t[j]

(* The same after the first field.                                         *)
LEMMA SliceOfMatches ==
    ASSUME NEW U, NEW fields \in Seq(U), NEW V, NEW t \in Seq(V), NEW k, k = Len(t), k + 1 <= Len(fields),
           SameAfterOne(fields, t)
    PROVE  FieldsAt(fields, 2 .. k + 1) = t
<1>1. \E a, b : a = 2 /\ b = k + 1
  OBVIOUS
<1>2. ASSUME NEW a, NEW b, a = 2, b = k + 1 PROVE FieldsAt(fields, a .. b) = t
  <2>1. k \in Nat
    OBVIOUS
  <2>2. a \in Nat \ {0} /\ b <= Len(fields) /\ b = a + Len(t) - 1
    BY <2>1, <1>2
  <2>3. \A j \in 1 .. k : a + j - 1 = j + 1
    BY <2>1, <1>2
  <2>4. SameFrom(fields, a, t)
    BY <2>3 DEF SameFrom, SameAfterOne
  <2> HIDE <1>2
  <2> QED BY <2>2, <2>4, Slice, Zenon
<1> QED BY <1>1, <1>2

(* A field after a blank, and fields after blanks. *)
Blank(x) == [x EXCEPT !.blank = TRUE]
Blanks(s) == [i \in DOMAIN s |-> Blank(s[i])]

(* Fields after blanks are as many, each the field after its blank.        *)
LEMMA BlanksOf ==
    ASSUME NEW U, NEW s \in Seq(U)
    PROVE  /\ Blanks(s) \in Seq({Blank(x) : x \in U}) /\ Len(Blanks(s)) = Len(s)
           /\ \A i \in 1 .. Len(s) : Blanks(s)[i] = Blank(s[i])
<1> DEFINE V == {Blank(x) : x \in U}
<1>1. DOMAIN s = 1 .. Len(s) /\ Len(s) \in Nat /\ \A i \in 1 .. Len(s) : s[i] \in U
  OBVIOUS
<1>2. \A x \in U : Blank(x) \in V
  OBVIOUS
<1> HIDE DEF V
<1>3. Blanks(s) \in [1 .. Len(s) -> V] /\ \A i \in 1 .. Len(s) : Blanks(s)[i] = Blank(s[i])
  BY <1>1, <1>2 DEF Blanks
<1>4. Blanks(s) \in Seq(V) /\ Len(Blanks(s)) = Len(s)
  BY <1>1, <1>3
<1> QED BY <1>3, <1>4 DEF V

(* The blanks of joined fields are put before those of either.             *)
LEMMA BlanksJoined ==
    ASSUME NEW U, NEW s \in Seq(U), NEW t \in Seq(U)
    PROVE  Blanks(s \o t) = Blanks(s) \o Blanks(t)
<1> PICK V : V = {Blank(x) : x \in U}
  OBVIOUS
<1>1. /\ s \o t \in Seq(U) /\ Len(s \o t) = Len(s) + Len(t)
      /\ \A i \in 1 .. Len(s) + Len(t) : (s \o t)[i] = IF i <= Len(s) THEN s[i] ELSE t[i - Len(s)]
  BY ConcatProperties
<1>2. PICK st : st = s \o t
  OBVIOUS
<1>3. PICK a, b, c : a = Blanks(s) /\ b = Blanks(t) /\ c = Blanks(st)
  OBVIOUS
<1>4. /\ a \in Seq(V) /\ Len(a) = Len(s) /\ \A i \in 1 .. Len(s) : a[i] = Blank(s[i])
      /\ b \in Seq(V) /\ Len(b) = Len(t) /\ \A i \in 1 .. Len(t) : b[i] = Blank(t[i])
      /\ c \in Seq(V) /\ Len(c) = Len(s) + Len(t) /\ \A i \in 1 .. Len(s) + Len(t) : c[i] = Blank(st[i])
  <2>1. Len(st) = Len(s) + Len(t) /\ st \in Seq(U)
    BY <1>1, <1>2
  <2> QED BY <1>3, <2>1, BlanksOf
<1>5. /\ a \o b \in Seq(V) /\ Len(a \o b) = Len(s) + Len(t)
      /\ \A i \in 1 .. Len(s) + Len(t) : (a \o b)[i] = IF i <= Len(s) THEN a[i] ELSE b[i - Len(s)]
  <2>1. a \in Seq(V) /\ b \in Seq(V)
    BY <1>4
  <2>2. /\ a \o b \in Seq(V) /\ Len(a \o b) = Len(a) + Len(b)
        /\ \A i \in 1 .. Len(a) + Len(b) : (a \o b)[i] = IF i <= Len(a) THEN a[i] ELSE b[i - Len(a)]
    BY <2>1, ConcatProperties
  <2> QED BY <2>2, <1>4
<1>6. ASSUME NEW i \in 1 .. Len(s) + Len(t) PROVE (a \o b)[i] = c[i]
  <2>1. CASE i <= Len(s)
    <3>1. st[i] = s[i] /\ i \in 1 .. Len(s)
      BY <2>1, <1>1, <1>2
    <3> QED BY <2>1, <3>1, <1>4, <1>5
  <2>2. CASE i > Len(s)
    <3>1. st[i] = t[i - Len(s)] /\ i - Len(s) \in 1 .. Len(t) /\ ~(i <= Len(s))
      BY <2>2, <1>1, <1>2
    <3> QED BY <3>1, <1>4, <1>5
  <2>3. i <= Len(s) \/ i > Len(s)
    <3>1. Len(s) \in Nat /\ Len(t) \in Nat
      OBVIOUS
    <3> QED BY <3>1
  <2> QED BY <2>1, <2>2, <2>3, Zenon
<1>7. a \o b = c
  BY <1>4, <1>5, <1>6, SeqEqual
<1> QED BY <1>2, <1>3, <1>7

(* One field, none and two.                                                *)
LEMMA BlankOne ==
    ASSUME NEW x, NEW y
    PROVE  /\ Blanks(<<x>>) = <<Blank(x)>> /\ Blanks(<<>>) = <<>>
           /\ Blanks(<<x, y>>) = <<Blank(x), Blank(y)>>
<1>1. Blanks(<<x>>) = <<Blank(x)>>
  BY DEF Blanks
<1>2. Blanks(<<x, y>>) = <<Blank(x), Blank(y)>>
  BY DEF Blanks
<1>3. Blanks(<<>>) = <<>>
  BY DEF Blanks
<1> QED BY <1>1, <1>2, <1>3

(* What a switch prints apart from the fields of the flow. *)
OwnKeysOfLine == {"cookie", "table", "idle_timeout", "priority"}
At(fields, key) == FieldsAt(fields, {i \in DOMAIN fields : fields[i].key = key})
Others(fields) == FieldsAt(fields, {i \in DOMAIN fields : fields[i].key \notin OwnKeysOfLine})

(* Where the fields of a flow are in its text. *)
FieldPlaces(F, prio, mid, tbl, idl, ck) ==
    /\ Len(F) = Len(mid) + 3 + Len(ck)
    /\ F[1] = prio /\ F[Len(mid) + 2] = tbl /\ F[Len(mid) + 3] = idl
    /\ \A i \in 1 .. Len(mid) : F[i + 1] = mid[i]
    /\ \A i \in 1 .. Len(ck) : F[Len(mid) + 3 + i] = ck[i]

FieldNames(prio, mid, tbl, idl, ck) ==
    /\ prio.key = "priority" /\ tbl.key = "table" /\ idl.key = "idle_timeout"
    /\ \A i \in 1 .. Len(ck) : ck[i].key = "cookie"
    /\ \A i \in 1 .. Len(mid) : mid[i].key \notin OwnKeysOfLine

(* The priority, the middle, the table with the idle timeout and the       *)
(* cookie are found at these places.                                       *)
LEMMA TextPlaces ==
    ASSUME NEW U, NEW prio \in U, NEW tbl \in U, NEW idl \in U, NEW mid \in Seq(U), NEW ck \in Seq(U)
    PROVE  LET F == ((<<prio>> \o mid) \o <<tbl, idl>>) \o ck
           IN  F \in Seq(U) /\ FieldPlaces(F, prio, mid, tbl, idl, ck)
<1> PICK p, q, k, c : p = <<prio>> /\ q = <<tbl, idl>> /\ k = Len(mid) /\ c = Len(ck)
  OBVIOUS
<1> PICK a : a = p \o mid
  OBVIOUS
<1> PICK b : b = a \o q
  OBVIOUS
<1> PICK F : F = b \o ck
  OBVIOUS
<1>1. p \in Seq(U) /\ Len(p) = 1 /\ p[1] = prio /\ k \in Nat /\ c \in Nat
      /\ q \in Seq(U) /\ Len(q) = 2 /\ q[1] = tbl /\ q[2] = idl
  OBVIOUS
<1>2. /\ a \in Seq(U) /\ Len(a) = Len(p) + Len(mid)
      /\ \A i \in 1 .. Len(p) + Len(mid) : a[i] = IF i <= Len(p) THEN p[i] ELSE mid[i - Len(p)]
  BY <1>1, ConcatProperties
<1>3. Len(a) = k + 1 /\ a[1] = prio /\ \A i \in 1 .. k : a[i + 1] = mid[i]
  BY <1>1, <1>2
<1>4. /\ b \in Seq(U) /\ Len(b) = Len(a) + Len(q)
      /\ \A i \in 1 .. Len(a) + Len(q) : b[i] = IF i <= Len(a) THEN a[i] ELSE q[i - Len(a)]
  BY <1>1, <1>2, ConcatProperties
<1>5. /\ Len(b) = k + 3 /\ b[k + 2] = tbl /\ b[k + 3] = idl
      /\ \A i \in 1 .. k + 1 : b[i] = a[i]
  BY <1>1, <1>3, <1>4
<1>6. /\ F \in Seq(U) /\ Len(F) = Len(b) + Len(ck)
      /\ \A i \in 1 .. Len(b) + Len(ck) : F[i] = IF i <= Len(b) THEN b[i] ELSE ck[i - Len(b)]
  BY <1>1, <1>4, ConcatProperties
<1>7. Len(F) = k + 3 + c /\ \A i \in 1 .. k + 3 : F[i] = b[i]
  BY <1>1, <1>5, <1>6
<1>8. F[1] = prio /\ F[k + 2] = tbl /\ F[k + 3] = idl
  BY <1>1, <1>3, <1>5, <1>7
<1>9. \A i \in 1 .. k : F[i + 1] = mid[i]
  BY <1>1, <1>3, <1>5, <1>7
<1>10. \A i \in 1 .. c : F[k + 3 + i] = ck[i]
  BY <1>1, <1>5, <1>6
<1> QED BY <1>6, <1>7, <1>8, <1>9, <1>10 DEF FieldPlaces

(* The switch finds each of the fields of a flow at its place in the text  *)
(* of the flow.                                                            *)
LEMMA TextSplit ==
    ASSUME NEW U, NEW F \in Seq(U), NEW prio, NEW tbl, NEW idl, NEW V, NEW mid \in Seq(V), NEW W, NEW ck \in Seq(W),
           FieldPlaces(F, prio, mid, tbl, idl, ck),
           FieldNames(prio, mid, tbl, idl, ck)
    PROVE  /\ At(F, "priority") = <<prio>> /\ At(F, "table") = <<tbl>> /\ At(F, "idle_timeout") = <<idl>>
           /\ At(F, "cookie") = ck /\ Others(F) = mid
<1> DEFINE k == Len(mid)
           n == k + 3 + Len(ck)
<1>1. /\ Len(F) = n
      /\ F[1] = prio /\ F[k + 2] = tbl /\ F[k + 3] = idl
      /\ \A i \in 1 .. k : F[i + 1] = mid[i]
      /\ \A i \in 1 .. Len(ck) : F[k + 3 + i] = ck[i]
  BY DEF FieldPlaces
<1>n. n \in Nat /\ k \in Nat /\ Len(ck) \in Nat /\ n = k + 3 + Len(ck)
  <2>1. k \in Nat /\ Len(ck) \in Nat
    OBVIOUS
  <2> QED BY <2>1
<1> DEFINE key(i) == F[i].key
<1>a. /\ key(1) = "priority" /\ key(k + 2) = "table" /\ key(k + 3) = "idle_timeout"
      /\ \A i \in 1 .. k : key(i + 1) \notin OwnKeysOfLine
      /\ \A i \in 1 .. Len(ck) : key(k + 3 + i) = "cookie"
  BY <1>1 DEF FieldNames
<1> HIDE DEF key, n, k
<1>2. \A i \in 1 .. n :
         \/ i = 1 /\ key(i) = "priority"
         \/ i \in 2 .. k + 1 /\ key(i) \notin OwnKeysOfLine
         \/ i = k + 2 /\ key(i) = "table"
         \/ i = k + 3 /\ key(i) = "idle_timeout"
         \/ i \in k + 4 .. n /\ key(i) = "cookie"
  <2> SUFFICES ASSUME NEW i \in 1 .. n, i # 1, i # k + 2, i # k + 3
               PROVE  \/ i \in 2 .. k + 1 /\ key(i) \notin OwnKeysOfLine
                      \/ i \in k + 4 .. n /\ key(i) = "cookie"
    BY <1>a
  <2>1. CASE i \in 2 .. k + 1
    <3>1. i - 1 \in 1 .. k /\ (i - 1) + 1 = i
      BY <2>1, <1>n
    <3>2. key((i - 1) + 1) \notin OwnKeysOfLine
      BY <3>1, <1>a
    <3> QED BY <2>1, <3>1, <3>2
  <2>2. CASE i \in k + 4 .. n
    <3> PICK c : c = Len(ck)
      OBVIOUS
    <3>0. c \in Nat /\ n = k + 3 + c /\ k \in Nat
      BY <1>n
    <3>1. i - k - 3 \in 1 .. c /\ k + 3 + (i - k - 3) = i
      BY <2>2, <3>0
    <3>2. key(k + 3 + (i - k - 3)) = "cookie"
      BY <3>1, <1>a
    <3> QED BY <2>2, <3>1, <3>2
  <2>3. i \in 2 .. k + 1 \/ i \in k + 4 .. n
    BY <1>n
  <2> QED BY <2>1, <2>2, <2>3
<1> DEFINE Of(word) == {i \in DOMAIN F : F[i].key = word}
<1>d. DOMAIN F = 1 .. n
  BY <1>1
<1>3. /\ Of("priority") = 1 .. 1 /\ Of("table") = k + 2 .. k + 2
      /\ Of("idle_timeout") = k + 3 .. k + 3 /\ Of("cookie") = k + 4 .. n
      /\ {i \in DOMAIN F : F[i].key \notin OwnKeysOfLine} = 2 .. k + 1
  <2>1. \A i \in 1 .. n :
           /\ key(i) = "priority" <=> i = 1
           /\ key(i) = "table" <=> i = k + 2
           /\ key(i) = "idle_timeout" <=> i = k + 3
           /\ key(i) = "cookie" <=> i \in k + 4 .. n
           /\ key(i) \notin OwnKeysOfLine <=> i \in 2 .. k + 1
    BY <1>2, <1>n DEF OwnKeysOfLine
  <2>2. \A i \in 2 .. k + 1 : i \in 1 .. n
    BY <1>n
  <2>3. \A i \in k + 4 .. n : i \in 1 .. n
    BY <1>n
  <2>4. 1 \in 1 .. n /\ k + 2 \in 1 .. n /\ k + 3 \in 1 .. n /\ k + 2 \in Nat
    BY <1>n
  <2>o. \A a \in Int : a .. a = {a}
    OBVIOUS
  <2>5. Of("priority") = {1}
    BY <2>1, <2>4, <1>d DEF key
  <2>6. Of("table") = {k + 2}
    BY <2>1, <2>4, <1>d DEF key
  <2>7. Of("idle_timeout") = {k + 3}
    BY <2>1, <2>4, <1>d DEF key
  <2>t. 1 .. 1 = {1} /\ k + 2 .. k + 2 = {k + 2} /\ k + 3 .. k + 3 = {k + 3}
    BY <2>o, <1>n
  <2>8. Of("cookie") = k + 4 .. n
    BY <2>1, <2>3, <1>d DEF key
  <2>9. {i \in DOMAIN F : F[i].key \notin OwnKeysOfLine} = 2 .. k + 1
    BY <2>1, <2>2, <1>d DEF key
  <2> QED BY <2>5, <2>6, <2>7, <2>t, <2>8, <2>9
<1> HIDE DEF Of
<1>4. /\ At(F, "priority") = FieldsAt(F, 1 .. 1) /\ At(F, "table") = FieldsAt(F, k + 2 .. k + 2)
      /\ At(F, "idle_timeout") = FieldsAt(F, k + 3 .. k + 3) /\ At(F, "cookie") = FieldsAt(F, k + 4 .. n)
      /\ Others(F) = FieldsAt(F, 2 .. k + 1)
  BY <1>3, Zenon DEF At, Others, Of
<1>5. ASSUME NEW i \in 1 .. n PROVE FieldsAt(F, i .. i) = <<F[i]>>
  BY <1>1, SliceOne
<1>6. At(F, "priority") = <<prio>> /\ At(F, "table") = <<tbl>> /\ At(F, "idle_timeout") = <<idl>>
  <2>1. 1 \in 1 .. n /\ k + 2 \in 1 .. n /\ k + 3 \in 1 .. n
    BY <1>n
  <2> QED BY <2>1, <1>1, <1>4, <1>5
<1>7. FieldsAt(F, k + 4 .. n) = ck
  <2>1. k + 4 \in Nat \ {0} /\ Len(ck) \in Nat /\ n = (k + 4) + Len(ck) - 1 /\ n <= Len(F)
    BY <1>1, <1>n
  <2>2. \A j \in 1 .. Len(ck) : (k + 4) + j - 1 = k + 3 + j
    BY <1>n
  <2>3. SameFrom(F, k + 4, ck)
    BY <2>2, <1>1 DEF SameFrom
  <2> QED BY <2>1, <2>3, Slice, Zenon
<1>8. FieldsAt(F, 2 .. k + 1) = mid
  <2>1. k = Len(mid) /\ k + 1 <= Len(F)
    BY <1>1, <1>n DEF k
  <2>2. SameAfterOne(F, mid)
    BY <2>1, <1>1 DEF SameAfterOne
  <2> QED BY <2>1, <2>2, SliceOfMatches, Zenon
<1> QED BY <1>4, <1>6, <1>7, <1>8

(* The fields of a flow by name, as they are printed. *)
PriorityField(f) == Number("priority", f.Priority)
TableField(f) == Number("table", f.Table)
IdleField(f) == Number("idle_timeout", f.IdleTimeout)
ProtocolText(f) == When(f.Protocol # Empty, Bare(f.Protocol.t))
MiddleFields(f, matches) == (ProtocolText(f) \o InPortField(f.InPort)) \o matches

(* All of them. *)
FlowField(f) ==
    {PriorityField(f), TableField(f), IdleField(f), Bare(f.Protocol.t), Field("cookie", <<Hex(f.Cookie)>>),
     Field("in_port", <<IF f.InPort = PortLOCAL THEN Word("LOCAL") ELSE Dec(f.InPort)>>)}

(* The fields that FlowField names, one by one.                            *)
LEMMA FieldTypes ==
    ASSUME NEW f, NEW U, FlowField(f) \subseteq U
    PROVE  /\ PriorityField(f) \in U /\ TableField(f) \in U /\ IdleField(f) \in U
           /\ ProtocolText(f) \in Seq(U) /\ InPortField(f.InPort) \in Seq(U) /\ CookieField(f.Cookie) \in Seq(U)
<1>1. /\ PriorityField(f) \in U /\ TableField(f) \in U /\ IdleField(f) \in U
      /\ Bare(f.Protocol.t) \in U /\ Field("cookie", <<Hex(f.Cookie)>>) \in U
      /\ Field("in_port", <<IF f.InPort = PortLOCAL THEN Word("LOCAL") ELSE Dec(f.InPort)>>) \in U
  BY Zenon DEF FlowField
<1>2. ProtocolText(f) \in Seq(U)
  BY <1>1, RangeOfWhen, Zenon DEF ProtocolText
<1>3. InPortField(f.InPort) \in Seq(U)
  BY <1>1, RangeOfWhen, Zenon DEF InPortField
<1>4. CookieField(f.Cookie) \in Seq(U)
  BY <1>1, RangeOfWhen, Zenon DEF CookieField, paddedHexUint64
<1> QED BY <1>1, <1>2, <1>3, <1>4

(* The text of a flow as the switch splits it. *)
LEMMA FlowFieldsAre ==
    ASSUME NEW f, NEW U, FlowField(f) \subseteq U, NEW matches \in Seq(U)
    PROVE  /\ MiddleFields(f, matches) \in Seq(U)
           /\ FlowFields(f, matches) =
                ((<<PriorityField(f)>> \o MiddleFields(f, matches)) \o <<TableField(f), IdleField(f)>>)
                  \o CookieField(f.Cookie)
<1> PICK a, b, c, d, e : /\ a = <<PriorityField(f)>> /\ b = ProtocolText(f) /\ c = InPortField(f.InPort)
                         /\ d = <<TableField(f), IdleField(f)>> /\ e = CookieField(f.Cookie)
  OBVIOUS
<1>1. FlowFields(f, matches) = ((((a \o b) \o c) \o matches) \o d) \o e
  BY Zenon DEF FlowFields, PriorityField, TableField, IdleField, ProtocolText
<1>2. a \in Seq(U) /\ b \in Seq(U) /\ c \in Seq(U)
  BY FieldTypes
<1>3. b \o c \in Seq(U) /\ (b \o c) \o matches \in Seq(U)
  BY <1>2, RangeOfConcat
<1>4. ((a \o b) \o c) \o matches = a \o ((b \o c) \o matches)
  <2>1. (a \o b) \o c = a \o (b \o c)
    BY <1>2, ConcatAssociative
  <2>2. (a \o (b \o c)) \o matches = a \o ((b \o c) \o matches)
    BY <1>2, <1>3, ConcatAssociative
  <2> QED BY <2>1, <2>2, Zenon
<1>5. MiddleFields(f, matches) = (b \o c) \o matches
  BY Zenon DEF MiddleFields
<1> QED BY <1>1, <1>3, <1>4, <1>5, Zenon

(* What three joined sequences hold.                                       *)
LEMMA RangeOfThree ==
    ASSUME NEW U, NEW s \in Seq(U), NEW t \in Seq(U), NEW u \in Seq(U)
    PROVE  Range((s \o t) \o u) = (Range(s) \cup Range(t)) \cup Range(u)
<1> DEFINE st == s \o t
<1>1. st \in Seq(U) /\ Range(st) = Range(s) \cup Range(t)
  BY RangeOfConcat
<1> HIDE DEF st
<1>2. Range(st \o u) = Range(st) \cup Range(u)
  BY <1>1, RangeOfConcat
<1> QED BY <1>1, <1>2, Zenon DEF st

(* What the middle of a text holds: the protocol, the port, the matches.   *)
LEMMA RangeOfMiddle ==
    ASSUME NEW f, NEW U, FlowField(f) \subseteq U, NEW matches \in Seq(U)
    PROVE  Range(MiddleFields(f, matches)) =
             (Range(ProtocolText(f)) \cup Range(InPortField(f.InPort))) \cup Range(matches)
<1> DEFINE a == ProtocolText(f)
           b == InPortField(f.InPort)
<1>1. a \in Seq(U) /\ b \in Seq(U)
  BY FieldTypes
<1>2. MiddleFields(f, matches) = (a \o b) \o matches
  BY Zenon DEF MiddleFields
<1> HIDE DEF a, b
<1>3. Range((a \o b) \o matches) = (Range(a) \cup Range(b)) \cup Range(matches)
  BY <1>1, RangeOfThree
<1> QED BY <1>2, <1>3, Zenon DEF a, b

(* The line of a flow in a dump. *)
Duration == Field("duration", <<Word("1s")>>)
Counts == <<Number("n_packets", 1), Number("n_bytes", 2)>>
CookiePrinted(f) == IF CookieField(f.Cookie) = <<>> THEN <<Field("cookie", <<Hex(0)>>)>> ELSE CookieField(f.Cookie)
IdlePrinted(f) == IF IdleField(f).val = <<Dec(0)>> THEN <<>> ELSE <<IdleField(f)>>
HeadFields(f) == (((<<Duration>> \o <<TableField(f)>>) \o Counts) \o IdlePrinted(f)) \o <<PriorityField(f)>>
LineFields(f, matches) == (CookiePrinted(f) \o Blanks(HeadFields(f))) \o MiddleFields(f, matches)

LineOf(fields) ==
    LET cookie == IF At(fields, "cookie") = <<>> THEN <<Field("cookie", <<Hex(0)>>)>> ELSE At(fields, "cookie")
        idle == IF At(fields, "idle_timeout")[1].val = <<Dec(0)>> THEN <<>> ELSE At(fields, "idle_timeout")
        head == (((<<Duration>> \o At(fields, "table")) \o Counts) \o idle) \o At(fields, "priority")
    IN  (cookie \o Blanks(head)) \o Others(fields)

(* The line of dump-flows of a flow: if neither its protocol nor its       *)
(* matches have a key that the switch prints itself, each is where a       *)
(* switch prints it.                                                       *)
LEMMA LineIs ==
    ASSUME NEW f, NEW U, FlowField(f) \subseteq U, NEW matches \in Seq(U), NEW acts,
           \A i \in 1 .. Len(matches) : matches[i].key \notin OwnKeysOfLine,
           f.Protocol # Empty => f.Protocol.t \notin OwnKeysOfLine
    PROVE  DumpLine([fields |-> FlowFields(f, matches), actions |-> acts]).fields = LineFields(f, matches)
<1> PICK F : F = FlowFields(f, matches)
  OBVIOUS
<1> PICK mid, ck : mid = MiddleFields(f, matches) /\ ck = CookieField(f.Cookie)
  OBVIOUS
<1>1. /\ F \in Seq(U) /\ mid \in Seq(U) /\ ck \in Seq(U)
      /\ FieldPlaces(F, PriorityField(f), mid, TableField(f), IdleField(f), ck)
  <2>1. mid \in Seq(U) /\ F = ((<<PriorityField(f)>> \o mid) \o <<TableField(f), IdleField(f)>>) \o ck
    BY FlowFieldsAre
  <2>2. PriorityField(f) \in U /\ TableField(f) \in U /\ IdleField(f) \in U /\ ck \in Seq(U)
    BY FieldTypes
  <2> QED BY <2>1, <2>2, TextPlaces
<1>2. PriorityField(f).key = "priority" /\ TableField(f).key = "table" /\ IdleField(f).key = "idle_timeout"
  BY FieldFields DEF PriorityField, TableField, IdleField, Number
<1>3. \A i \in 1 .. Len(ck) : ck[i].key = "cookie"
  <2>1. ck = <<>> \/ ck = <<Field("cookie", <<Hex(f.Cookie)>>)>>
    BY Zenon DEF CookieField, When, paddedHexUint64
  <2>2. Field("cookie", <<Hex(f.Cookie)>>).key = "cookie"
    BY FieldFields
  <2> QED BY <2>1, <2>2
<1>4. \A i \in 1 .. Len(mid) : mid[i].key \notin OwnKeysOfLine
  <2>1. \A x \in Range(ProtocolText(f)) : x.key \notin OwnKeysOfLine
    <3>1. Bare(f.Protocol.t).key = f.Protocol.t
      BY FieldFields DEF Bare
    <3>2. Range(ProtocolText(f)) = IF f.Protocol # Empty THEN {Bare(f.Protocol.t)} ELSE {}
      BY RangeOfWhen DEF ProtocolText
    <3> QED BY <3>1, <3>2
  <2>2. \A x \in Range(InPortField(f.InPort)) : x.key \notin OwnKeysOfLine
    <3> DEFINE port == Field("in_port", <<IF f.InPort = PortLOCAL THEN Word("LOCAL") ELSE Dec(f.InPort)>>)
    <3>1. port.key = "in_port"
      BY FieldFields
    <3>2. Range(InPortField(f.InPort)) = IF f.InPort # 0 THEN {port} ELSE {}
      BY RangeOfWhen DEF InPortField
    <3> HIDE DEF port
    <3> QED BY <3>1, <3>2 DEF OwnKeysOfLine
  <2>3. \A x \in Range(matches) : x.key \notin OwnKeysOfLine
    BY DEF Range
  <2>4. Range(mid) = (Range(ProtocolText(f)) \cup Range(InPortField(f.InPort))) \cup Range(matches)
    BY RangeOfMiddle
  <2>5. \A i \in 1 .. Len(mid) : mid[i] \in Range(mid)
    BY <1>1 DEF Range
  <2> QED BY <2>1, <2>2, <2>3, <2>4, <2>5
<1>5. /\ At(F, "priority") = <<PriorityField(f)>> /\ At(F, "table") = <<TableField(f)>>
      /\ At(F, "idle_timeout") = <<IdleField(f)>> /\ At(F, "cookie") = ck /\ Others(F) = mid
  <2> PICK p, t, d : p = PriorityField(f) /\ t = TableField(f) /\ d = IdleField(f)
    OBVIOUS
  <2>1. /\ At(F, "priority") = <<p>> /\ At(F, "table") = <<t>>
        /\ At(F, "idle_timeout") = <<d>> /\ At(F, "cookie") = ck /\ Others(F) = mid
    <3>1. FieldNames(p, mid, t, d, ck)
      BY <1>2, <1>3, <1>4 DEF FieldNames
    <3>2. FieldPlaces(F, p, mid, t, d, ck) /\ F \in Seq(U) /\ mid \in Seq(U) /\ ck \in Seq(U)
      BY <1>1
    <3> QED BY <3>1, <3>2, TextSplit, Zenon
  <2> QED BY <2>1
<1> DEFINE text == [fields |-> F, actions |-> acts]
           cookie == IF At(F, "cookie") = <<>> THEN <<Field("cookie", <<Hex(0)>>)>> ELSE At(F, "cookie")
           idle == IF At(F, "idle_timeout")[1].val = <<Dec(0)>> THEN <<>> ELSE At(F, "idle_timeout")
           head == (((<<Duration>> \o At(F, "table")) \o Counts) \o idle) \o At(F, "priority")
<1>6. text.fields = F
  OBVIOUS
<1>7. \A x : DumpLine(x) = [x EXCEPT !.fields = LineOf(x.fields)]
  BY Zenon DEF DumpLine, LineOf, At, Others, OwnKeysOfLine, Duration, Counts, Blanks, Blank
<1>8. DumpLine(text).fields = (cookie \o Blanks(head)) \o Others(F)
  <2> PICK y : y = LineOf(F)
    OBVIOUS
  <2>1. DumpLine(text) = [text EXCEPT !.fields = y]
    BY <1>7, <1>6, Zenon
  <2>2. DumpLine(text).fields = y
    BY <2>1
  <2> QED BY <2>2, Zenon DEF LineOf
<1>9. cookie = CookiePrinted(f)
  BY <1>5, Zenon DEF CookiePrinted
<1>10. idle = IdlePrinted(f)
  <2>1. At(F, "idle_timeout")[1] = IdleField(f)
    BY <1>5
  <2> QED BY <2>1, <1>5, Zenon DEF IdlePrinted
<1>11. head = HeadFields(f)
  BY <1>5, <1>10, Zenon DEF HeadFields
<1> HIDE DEF cookie, head, idle
<1>12. (cookie \o Blanks(head)) \o Others(F) = LineFields(f, matches)
  BY <1>5, <1>9, <1>11, Zenon DEF LineFields
<1> QED BY <1>8, <1>12

(* The loop over the fields takes one flow to another. *)
FieldSteps(W, flow, fields, z) ==
    /\ W[0] = flow /\ W[Len(fields)] = z
    /\ \A i \in 1 .. Len(fields) : ParseField(W[i - 1], fields[i]).ok /\ W[i] = ParseField(W[i - 1], fields[i]).v
Reads(flow, fields, z) == \E W : FieldSteps(W, flow, fields, z)

(* parseFields reads one field after the other, if it is no error.         *)
LEMMA EachFieldRead ==
    ASSUME NEW U, NEW fields \in Seq(U), ParseFields(fields).ok
    PROVE  Reads(NewFlow, fields, ParseFields(fields).v)
<1> PICK n : n = Len(fields)
  OBVIOUS
<1>0. n \in Nat
  OBVIOUS
<1> PICK W : /\ ParseFields(fields) = W[n]
             /\ W[0] = Ok(NewFlow)
             /\ \A i \in 1 .. n : W[i] = IF W[i - 1].ok THEN ParseField(W[i - 1].v, fields[i]) ELSE Fail
  BY <1>0, FieldsParsed
<1>1. ~Fail.ok
  BY DEF Fail
<1> DEFINE good(i) == W[i].ok
           S == {m \in Nat : m <= n => good(n - m)}
<1>2. 0 \in S
  BY <1>0
<1>3. \A m \in Nat : m \in S => m + 1 \in S
  <2> SUFFICES ASSUME NEW m \in Nat, m \in S, m + 1 <= n PROVE good(n - (m + 1))
    OBVIOUS
  <2>1. n - m \in 1 .. n /\ (n - m) - 1 = n - (m + 1) /\ m <= n
    BY <1>0
  <2>2. W[n - m].ok
    BY <2>1
  <2>3. W[n - m] = IF W[(n - m) - 1].ok THEN ParseField(W[(n - m) - 1].v, fields[n - m]) ELSE Fail
    BY <2>1
  <2>4. W[(n - m) - 1].ok
    BY <2>2, <2>3, <1>1, Zenon
  <2> QED BY <2>1, <2>4
<1>4. Nat \subseteq S
  <2> HIDE DEF S
  <2> QED BY <1>2, <1>3, Induction
<1>5. ASSUME NEW i \in 0 .. n PROVE W[i].ok
  <2>1. n - i \in Nat /\ n - i <= n /\ n - (n - i) = i
    BY <1>0
  <2>2. n - i \in S
    BY <2>1, <1>4
  <2>3. good(n - (n - i))
    BY <2>1, <2>2
  <2> QED BY <2>1, <2>3
<1> PICK V : V = [i \in 0 .. n |-> W[i].v]
  OBVIOUS
<1>6. \A i \in 0 .. n : V[i] = W[i].v
  OBVIOUS
<1>7. ASSUME NEW i \in 1 .. n
      PROVE  ParseField(V[i - 1], fields[i]).ok /\ V[i] = ParseField(V[i - 1], fields[i]).v
  <2>1. i - 1 \in 0 .. n /\ i \in 0 .. n
    BY <1>0
  <2>2. V[i - 1] = W[i - 1].v /\ V[i] = W[i].v /\ W[i].ok /\ W[i - 1].ok
    BY <2>1, <1>5, <1>6
  <2>3. W[i] = ParseField(W[i - 1].v, fields[i])
    BY <2>2
  <2> QED BY <2>2, <2>3, Zenon
<1>8. V[0] = NewFlow /\ V[n] = ParseFields(fields).v
  <2>1. 0 \in 0 .. n /\ n \in 0 .. n
    BY <1>0
  <2>2. V[0] = W[0].v /\ V[n] = W[n].v
    BY <2>1, <1>6
  <2> QED BY <2>2, OkFields
<1>9. FieldSteps(V, NewFlow, fields, ParseFields(fields).v)
  BY <1>7, <1>8 DEF FieldSteps
<1> QED BY <1>9 DEF Reads

(* What reads joined fields reads the first ones and goes on with the      *)
(* others.                                                                 *)
LEMMA ReadsSplit ==
    ASSUME NEW U, NEW s \in Seq(U), NEW t \in Seq(U), NEW flow, NEW z, Reads(flow, s \o t, z)
    PROVE  \E y : Reads(flow, s, y) /\ Reads(y, t, z)
<1> PICK F : F = s \o t
  OBVIOUS
<1> PICK k, l : k = Len(s) /\ l = Len(t)
  OBVIOUS
<1>1. k \in Nat /\ l \in Nat
  OBVIOUS
<1>2. Len(F) = k + l /\ \A i \in 1 .. k + l : F[i] = IF i <= k THEN s[i] ELSE t[i - k]
  BY ConcatProperties
<1> PICK W : FieldSteps(W, flow, F, z)
  BY DEF Reads
<1>3. /\ W[0] = flow /\ W[k + l] = z
      /\ \A i \in 1 .. k + l : ParseField(W[i - 1], F[i]).ok /\ W[i] = ParseField(W[i - 1], F[i]).v
  BY <1>2 DEF FieldSteps
<1>4. FieldSteps(W, flow, s, W[k])
  <2>1. \A i \in 1 .. k : i \in 1 .. k + l /\ i <= k
    BY <1>1
  <2>2. \A i \in 1 .. k : F[i] = s[i]
    BY <2>1, <1>2
  <2>3. \A i \in 1 .. k : ParseField(W[i - 1], s[i]).ok /\ W[i] = ParseField(W[i - 1], s[i]).v
    BY <2>1, <2>2, <1>3
  <2> QED BY <2>3, <1>3 DEF FieldSteps
<1> PICK V : V = [i \in 0 .. l |-> W[k + i]]
  OBVIOUS
<1>5. V[0] = W[k] /\ V[l] = z
  BY <1>1, <1>3
<1>6. ASSUME NEW i \in 1 .. l PROVE ParseField(V[i - 1], t[i]).ok /\ V[i] = ParseField(V[i - 1], t[i]).v
  <2>1. /\ k + i \in 1 .. k + l /\ ~(k + i <= k) /\ (k + i) - k = i /\ (k + i) - 1 = k + (i - 1)
        /\ i - 1 \in 0 .. l /\ i \in 0 .. l
    BY <1>1
  <2>2. F[k + i] = t[i]
    BY <2>1, <1>2
  <2>3. V[i - 1] = W[k + (i - 1)] /\ V[i] = W[k + i]
    BY <2>1
  <2>4. ParseField(W[(k + i) - 1], F[k + i]).ok /\ W[k + i] = ParseField(W[(k + i) - 1], F[k + i]).v
    BY <2>1, <1>3
  <2> QED BY <2>1, <2>2, <2>3, <2>4
<1>7. FieldSteps(V, W[k], t, z)
  BY <1>5, <1>6 DEF FieldSteps
<1> QED BY <1>4, <1>7 DEF Reads

(* One field is read by ParseField.                                        *)
LEMMA ReadsOne ==
    ASSUME NEW flow, NEW x, NEW z, Reads(flow, <<x>>, z)
    PROVE  ParseField(flow, x).ok /\ z = ParseField(flow, x).v
<1> PICK s : s = <<x>>
  OBVIOUS
<1>1. Len(s) = 1 /\ s[1] = x /\ 1 - 1 = 0
  OBVIOUS
<1> PICK W : FieldSteps(W, flow, s, z)
  BY DEF Reads
<1>2. /\ W[0] = flow /\ W[1] = z
      /\ \A i \in 1 .. 1 : ParseField(W[i - 1], s[i]).ok /\ W[i] = ParseField(W[i - 1], s[i]).v
  BY <1>1 DEF FieldSteps
<1>3. ParseField(W[1 - 1], s[1]).ok /\ W[1] = ParseField(W[1 - 1], s[1]).v
  BY <1>2
<1> QED BY <1>1, <1>2, <1>3

(* No field changes nothing.                                               *)
LEMMA ReadsNone ==
    ASSUME NEW flow, NEW z, Reads(flow, <<>>, z)
    PROVE  z = flow
<1> PICK s : s = <<>>
  OBVIOUS
<1>1. Len(s) = 0
  OBVIOUS
<1> PICK W : FieldSteps(W, flow, s, z)
  BY DEF Reads
<1> QED BY <1>1 DEF FieldSteps

(* Fields that are matches are read one after the other. *)
FlowWith(prio, proto, port, mm, table, idle, cookie, packets, bytes) ==
    [Priority |-> prio, Protocol |-> proto, InPort |-> port, Matches |-> mm, Table |-> table,
     IdleTimeout |-> idle, Cookie |-> cookie, Actions |-> <<>>, PacketCount |-> packets, ByteCount |-> bytes]

AddsItsMatch(x) ==
    \A g : ParseField(g, x).ok => ParseField(g, x).v = [g EXCEPT !.Matches = Append(g.Matches, Parsed(x))]

FirstMatches(matches, n) == [j \in 1 .. n |-> Parsed(matches[j])]

(* The matches read so far, and one more.                                  *)
LEMMA NextMatch ==
    ASSUME NEW matches, NEW n \in Nat
    PROVE  Append(FirstMatches(matches, n), Parsed(matches[n + 1])) = FirstMatches(matches, n + 1)
<1> DEFINE e(j) == Parsed(matches[j])
           s == [j \in 1 .. n |-> e(j)]
           t == [j \in 1 .. n + 1 |-> e(j)]
           M == {e(j) : j \in 1 .. n + 1}
<1>1. \A j \in 1 .. n + 1 : e(j) \in M
  OBVIOUS
<1> HIDE DEF M, e
<1>2. s \in Seq(M) /\ Len(s) = n /\ e(n + 1) \in M /\ t \in Seq(M) /\ Len(t) = n + 1
  BY <1>1
<1>3. \A j \in 1 .. n : s[j] = t[j]
  OBVIOUS
<1>4. t[n + 1] = e(n + 1)
  OBVIOUS
<1> HIDE DEF s, t
<1>5. Append(s, e(n + 1)) = t
  <2> DEFINE u == Append(s, e(n + 1))
  <2>1. /\ u \in Seq(M) /\ Len(u) = n + 1 /\ u[n + 1] = e(n + 1)
        /\ \A j \in 1 .. n : u[j] = s[j]
    BY <1>2, AppendProperties
  <2> HIDE DEF u
  <2>2. \A j \in 1 .. n + 1 : j \in 1 .. n \/ j = n + 1
    OBVIOUS
  <2>3. \A j \in 1 .. n + 1 : u[j] = t[j]
    BY <2>1, <2>2, <1>3, <1>4
  <2> QED BY <2>1, <2>3, <1>2, SeqEqual DEF u
<1> QED BY <1>5 DEF s, t, e, FirstMatches

(* Fields that are all read as matches leave their matches, in their       *)
(* order, and change nothing else.                                         *)
LEMMA MatchesRead ==
    ASSUME NEW matches, NEW n \in Nat, Len(matches) = n, \A i \in 1 .. n : AddsItsMatch(matches[i]),
           NEW pr, NEW pt, NEW ip, NEW tb, NEW id, NEW ck, NEW pk, NEW by,
           NEW z, Reads(FlowWith(pr, pt, ip, <<>>, tb, id, ck, pk, by), matches, z)
    PROVE  z = FlowWith(pr, pt, ip, FirstMatches(matches, n), tb, id, ck, pk, by)
<1> DEFINE F(mm) == FlowWith(pr, pt, ip, mm, tb, id, ck, pk, by)
<1>1. \A mm, m : F(mm).Matches = mm /\ [F(mm) EXCEPT !.Matches = m] = F(m)
  <2> SUFFICES ASSUME NEW mm, NEW m PROVE F(mm).Matches = mm /\ [F(mm) EXCEPT !.Matches = m] = F(m)
    OBVIOUS
  <2> QED BY DEF FlowWith
<1> HIDE DEF F
<1> PICK W : FieldSteps(W, F(<<>>), matches, z)
  BY DEF Reads, F
<1>2. /\ W[0] = F(<<>>) /\ W[n] = z
      /\ \A i \in 1 .. n : ParseField(W[i - 1], matches[i]).ok /\ W[i] = ParseField(W[i - 1], matches[i]).v
  BY DEF FieldSteps
<1> DEFINE S == {m \in Nat : m <= n => W[m] = F(FirstMatches(matches, m))}
<1>3. 0 \in S
  <2>1. FirstMatches(matches, 0) = <<>>
    BY DEF FirstMatches
  <2> QED BY <2>1, <1>2
<1>4. \A m \in Nat : m \in S => m + 1 \in S
  <2> SUFFICES ASSUME NEW m \in Nat, m \in S, m + 1 <= n PROVE W[m + 1] = F(FirstMatches(matches, m + 1))
    OBVIOUS
  <2>1. m + 1 \in 1 .. n /\ (m + 1) - 1 = m /\ m <= n
    OBVIOUS
  <2> PICK mm, x : mm = FirstMatches(matches, m) /\ x = matches[m + 1]
    OBVIOUS
  <2>2. W[m] = F(mm)
    BY <2>1
  <2>3. ParseField(W[m], x).ok /\ W[m + 1] = ParseField(W[m], x).v
    BY <2>1, <1>2
  <2>4. AddsItsMatch(x)
    BY <2>1
  <2>5. W[m + 1] = [W[m] EXCEPT !.Matches = Append(W[m].Matches, Parsed(x))]
    BY <2>3, <2>4, Zenon DEF AddsItsMatch
  <2>6. W[m + 1] = F(Append(mm, Parsed(x)))
    <3>1. F(mm).Matches = mm
      BY <1>1
    <3>2. W[m + 1] = [F(mm) EXCEPT !.Matches = Append(mm, Parsed(x))]
      BY <2>2, <2>5, <3>1, Zenon
    <3>3. \A y : [F(mm) EXCEPT !.Matches = y] = F(y)
      BY <1>1, Zenon
    <3> QED BY <3>2, <3>3, Zenon
  <2>7. Append(mm, Parsed(x)) = FirstMatches(matches, m + 1)
    BY NextMatch
  <2> QED BY <2>6, <2>7, Zenon
<1>5. Nat \subseteq S
  <2> HIDE DEF S
  <2> QED BY <1>3, <1>4, Induction
<1>6. W[n] = F(FirstMatches(matches, n))
  BY <1>5
<1> QED BY <1>2, <1>6 DEF F

(* A number of the flow itself is read into its field. *)
NumberOf(key, tok) ==
    IF key = "in_port" /\ tok = Word("LOCAL") THEN Ok(PortLOCAL)
    ELSE IF key \in DOMAIN IntKeys THEN Atoi(tok) ELSE ParseUint(tok)

(* A field of the flow itself is set to the number that its text holds.    *)
LEMMA OwnNumber ==
    ASSUME NEW g, NEW x, NEW tok, x.val = <<tok>>, tok # Word("="),
           x.key \in DOMAIN IntKeys \cup DOMAIN UintKeys, ParseField(g, x).ok
    PROVE  /\ NumberOf(x.key, tok).ok
           /\ ParseField(g, x).v = [g EXCEPT ![Over(IntKeys, UintKeys)[x.key]] = NumberOf(x.key, tok).v]
<1> DEFINE skip == Contains(x.val, Word("=")) \/ x.key \in IgnoredKeys
           own == x.key \in DOMAIN IntKeys \cup DOMAIN UintKeys
           number == IF Len(x.val) # 1 THEN Fail
                     ELSE IF x.key = "in_port" /\ x.val[1] = Word("LOCAL") THEN Ok(PortLOCAL)
                     ELSE IF x.key \in DOMAIN IntKeys THEN Atoi(x.val[1])
                     ELSE ParseUint(x.val[1])
<1>1. x.val # <<>> /\ Len(x.val) = 1 /\ x.val[1] = tok
  OBVIOUS
<1>2. ~skip
  <2>1. ~Contains(x.val, Word("="))
    BY <1>1 DEF Contains
  <2>2. x.key \notin IgnoredKeys
    BY DEF IntKeys, UintKeys, IgnoredKeys
  <2> QED BY <2>1, <2>2
<1>3. ParseField(g, x) =
        IF number.ok THEN Ok([g EXCEPT ![Over(IntKeys, UintKeys)[x.key]] = number.v]) ELSE Fail
  BY <1>1, <1>2, Zenon DEF ParseField, Then
<1>4. number = NumberOf(x.key, tok)
  BY <1>1, Zenon DEF NumberOf
<1> HIDE DEF number
<1>5. number.ok
  <2>1. ParseField(g, x) # Fail
    BY DEF Fail
  <2> QED BY <1>3, <2>1, Zenon
<1>6. ParseField(g, x).v = [g EXCEPT ![Over(IntKeys, UintKeys)[x.key]] = number.v]
  BY <1>3, <1>5, OkFields, Zenon
<1> QED BY <1>4, <1>5, <1>6, Zenon

(* The tokens of numbers are no words.                                     *)
LEMMA TokensAre ==
    ASSUME NEW n
    PROVE  /\ Dec(n).t = "dec" /\ Dec(n).n = n /\ Hex(n).t = "hex" /\ Hex(n).n = n
           /\ Dec(n) # Word("=") /\ Hex(n) # Word("=") /\ Dec(n) # Word("LOCAL") /\ Word("LOCAL") # Word("=")
<1>1. \A w : Word(w).t = w
  BY DEF Word, Token
<1>2. Dec(n).t = "dec" /\ Dec(n).n = n /\ Hex(n).t = "hex" /\ Hex(n).n = n
  BY DEF Dec, Hex, Token
<1> QED BY <1>1, <1>2

(* A decimal number is read into its field ...                             *)
LEMMA IntRead ==
    ASSUME NEW g, NEW k \in DOMAIN IntKeys, NEW n, NEW x, x.key = k, x.val = <<Dec(n)>>, ParseField(g, x).ok
    PROVE  ParseField(g, x).v = [g EXCEPT ![IntKeys[k]] = n]
<1> DEFINE number == NumberOf(x.key, Dec(n))
<1>1. number.ok /\ ParseField(g, x).v = [g EXCEPT ![Over(IntKeys, UintKeys)[x.key]] = number.v]
  <2>1. Dec(n) # Word("=")
    BY TokensAre
  <2>2. x.key \in DOMAIN IntKeys \cup DOMAIN UintKeys
    OBVIOUS
  <2> QED BY <2>1, <2>2, OwnNumber
<1>2. number = Atoi(Dec(n))
  BY TokensAre DEF NumberOf
<1> HIDE DEF number
<1>3. number = Ok(n)
  <2>1. number = IF Dec(n).t = "dec" /\ -(U64 \div 2) <= Dec(n).n /\ Dec(n).n < U64 \div 2 THEN Ok(Dec(n).n) ELSE Fail
    BY <1>2, Zenon DEF Atoi
  <2>2. number # Fail
    BY <1>1 DEF Fail
  <2>3. number = Ok(Dec(n).n)
    BY <2>1, <2>2, Zenon
  <2> QED BY <2>3, TokensAre
<1>4. number.v = n
  BY <1>3, OkFields
<1>5. Over(IntKeys, UintKeys)[k] = IntKeys[k]
  BY DEF Over
<1> QED BY <1>1, <1>4, <1>5, Zenon

(* ... a cookie or a counter also in hexadecimal, ...                      *)
LEMMA UintRead ==
    ASSUME NEW g, NEW k \in DOMAIN UintKeys, NEW n, NEW tok \in {Dec(n), Hex(n)},
           NEW x, x.key = k, x.val = <<tok>>, ParseField(g, x).ok
    PROVE  ParseField(g, x).v = [g EXCEPT ![UintKeys[k]] = n]
<1>0. k \notin DOMAIN IntKeys /\ k # "in_port"
  BY DEF IntKeys, UintKeys
<1> DEFINE number == NumberOf(x.key, tok)
<1>1. number.ok /\ ParseField(g, x).v = [g EXCEPT ![Over(IntKeys, UintKeys)[x.key]] = number.v]
  <2>1. tok # Word("=")
    BY TokensAre
  <2>2. x.key \in DOMAIN IntKeys \cup DOMAIN UintKeys
    OBVIOUS
  <2> QED BY <2>1, <2>2, OwnNumber
<1>2. number = ParseUint(tok)
  BY <1>0, Zenon DEF NumberOf
<1> HIDE DEF number
<1>3. number = Ok(n)
  <2>1. number = IF tok.t \in {"dec", "hex"} /\ 0 <= tok.n /\ tok.n < U64 THEN Ok(tok.n) ELSE Fail
    BY <1>2, Zenon DEF ParseUint
  <2>2. number # Fail
    BY <1>1 DEF Fail
  <2>3. number = Ok(tok.n)
    BY <2>1, <2>2, Zenon
  <2>4. tok.n = n
    BY TokensAre
  <2> QED BY <2>3, <2>4
<1>4. number.v = n
  BY <1>3, OkFields
<1>5. Over(IntKeys, UintKeys)[k] = UintKeys[k]
  BY <1>0 DEF Over
<1> QED BY <1>1, <1>4, <1>5, Zenon

(* ... and LOCAL is read as its port.                                      *)
LEMMA LocalRead ==
    ASSUME NEW g, NEW x, x.key = "in_port", x.val = <<Word("LOCAL")>>, ParseField(g, x).ok
    PROVE  ParseField(g, x).v = [g EXCEPT !["InPort"] = PortLOCAL]
<1>0. "in_port" \in DOMAIN IntKeys /\ IntKeys["in_port"] = "InPort"
  BY DEF IntKeys
<1> DEFINE number == NumberOf(x.key, Word("LOCAL"))
<1>1. number.ok /\ ParseField(g, x).v = [g EXCEPT ![Over(IntKeys, UintKeys)[x.key]] = number.v]
  <2>1. Word("LOCAL") # Word("=")
    BY TokensAre
  <2>2. x.key \in DOMAIN IntKeys \cup DOMAIN UintKeys
    BY <1>0
  <2> QED BY <2>1, <2>2, OwnNumber
<1>2. number.v = PortLOCAL
  BY OkFields DEF NumberOf
<1> HIDE DEF number
<1>5. Over(IntKeys, UintKeys)["in_port"] = "InPort"
  BY <1>0 DEF Over
<1> QED BY <1>1, <1>2, <1>5

(* Others are passed over, or are the protocol. *)
LEMMA IgnoredRead ==
    ASSUME NEW g, NEW x, x.key \in IgnoredKeys, x.val # <<>>
    PROVE  ParseField(g, x).v = g
<1>1. ParseField(g, x) = Ok(g)
  BY DEF ParseField
<1> QED BY <1>1, OkFields

(* A field without a value is the protocol.                                *)
LEMMA ProtocolRead ==
    ASSUME NEW g, NEW w, w # NoWord
    PROVE  ParseField(g, Bare(w)).v = [g EXCEPT !.Protocol = Word(w)]
<1>1. Bare(w).key = w /\ Bare(w).val = <<>> /\ Bare(w).blank = FALSE
  BY DEF Bare, Field
<1>2. Word(w) = Token(w, 0, 0)
  BY DEF Word
<1>3. ParseField(g, Bare(w)) = Ok([g EXCEPT !.Protocol = Token(w, 0, 0)])
  BY <1>1 DEF ParseField
<1> QED BY <1>2, <1>3, OkFields

(* A match that is not skipped is added. *)
LEMMA MatchRead ==
    ASSUME NEW x, x.val # <<>>, x.blank = FALSE, ~Contains(x.val, Word("=")),
           x.key \notin IgnoredKeys \cup (DOMAIN IntKeys \cup DOMAIN UintKeys), Parsed(x) # NoMatch
    PROVE  AddsItsMatch(x)
<1> SUFFICES ASSUME NEW g, ParseField(g, x).ok
             PROVE  ParseField(g, x).v = [g EXCEPT !.Matches = Append(g.Matches, Parsed(x))]
  BY DEF AddsItsMatch
<1>1. ParseField(g, x) =
        IF parseMatch(x.key, x.val).ok
        THEN Ok(IF Parsed(x) = NoMatch THEN g ELSE [g EXCEPT !.Matches = Append(@, Parsed(x))]) ELSE Fail
  BY DEF ParseField, Then, Parsed
<1>2. ParseField(g, x) # Fail
  BY DEF Fail
<1>3. ParseField(g, x) = Ok([g EXCEPT !.Matches = Append(@, Parsed(x))])
  BY <1>1, <1>2, Zenon
<1> QED BY <1>3, OkFields

(* A blank changes neither key nor value. *)
LEMMA BlankFields ==
    ASSUME NEW k, NEW v
    PROVE  Blank(Field(k, v)).key = k /\ Blank(Field(k, v)).val = v
BY DEF Blank, Field

(* The parts of a line, in the order in which they are read. *)
LineParts(f, matches) ==
    (CookiePrinted(f)
       \o ((((Blanks(<<Duration>>) \o Blanks(<<TableField(f)>>)) \o Blanks(Counts))
              \o Blanks(IdlePrinted(f))) \o Blanks(<<PriorityField(f)>>)))
      \o ((ProtocolText(f) \o InPortField(f.InPort)) \o matches)

LineField(f) ==
    FlowField(f) \cup {Duration, Number("n_packets", 1), Number("n_bytes", 2), Field("cookie", <<Hex(0)>>)}

(* The fields of the parts of a line, one by one.                          *)
LEMMA PartTypes ==
    ASSUME NEW f, NEW U, LineField(f) \subseteq U
    PROVE  /\ CookiePrinted(f) \in Seq(U) /\ <<Duration>> \in Seq(U) /\ <<TableField(f)>> \in Seq(U)
           /\ Counts \in Seq(U) /\ IdlePrinted(f) \in Seq(U) /\ <<PriorityField(f)>> \in Seq(U)
           /\ ProtocolText(f) \in Seq(U) /\ InPortField(f.InPort) \in Seq(U)
<1>1. /\ PriorityField(f) \in U /\ TableField(f) \in U /\ IdleField(f) \in U
      /\ ProtocolText(f) \in Seq(U) /\ InPortField(f.InPort) \in Seq(U) /\ CookieField(f.Cookie) \in Seq(U)
  <2>1. FlowField(f) \subseteq U
    BY DEF LineField
  <2> QED BY <2>1, FieldTypes
<1>2. Duration \in U /\ Number("n_packets", 1) \in U /\ Number("n_bytes", 2) \in U /\ Field("cookie", <<Hex(0)>>) \in U
  BY DEF LineField
<1>3. Counts \in Seq(U)
  BY <1>2 DEF Counts
<1>4. IdlePrinted(f) \in Seq(U)
  <2>1. <<>> \in Seq(U) /\ <<IdleField(f)>> \in Seq(U)
    BY <1>1
  <2> QED BY <2>1, Zenon DEF IdlePrinted
<1>5. CookiePrinted(f) \in Seq(U)
  <2>1. <<Field("cookie", <<Hex(0)>>)>> \in Seq(U)
    BY <1>2
  <2> QED BY <2>1, <1>1, Zenon DEF CookiePrinted
<1>6. <<Duration>> \in Seq(U) /\ <<TableField(f)>> \in Seq(U) /\ <<PriorityField(f)>> \in Seq(U)
  BY <1>1, <1>2
<1> QED BY <1>1, <1>3, <1>4, <1>5, <1>6

(* A line is its parts, each after its blanks.                             *)
LEMMA PartsAre ==
    ASSUME NEW f, NEW matches
    PROVE  LineFields(f, matches) = LineParts(f, matches)
<1> DEFINE V == LineField(f)
<1>1. /\ <<Duration>> \in Seq(V) /\ <<TableField(f)>> \in Seq(V)
      /\ Counts \in Seq(V) /\ IdlePrinted(f) \in Seq(V) /\ <<PriorityField(f)>> \in Seq(V)
  BY PartTypes
<1> DEFINE a == <<Duration>>
           b == <<TableField(f)>>
           c == Counts
           d == IdlePrinted(f)
           e == <<PriorityField(f)>>
<1>2. HeadFields(f) = (((a \o b) \o c) \o d) \o e
  BY Zenon DEF HeadFields
<1>3. a \in Seq(V) /\ b \in Seq(V) /\ c \in Seq(V) /\ d \in Seq(V) /\ e \in Seq(V)
  BY <1>1
<1> HIDE DEF a, b, c, d, e, V
<1>4. Blanks((((a \o b) \o c) \o d) \o e) =
        (((Blanks(a) \o Blanks(b)) \o Blanks(c)) \o Blanks(d)) \o Blanks(e)
  <2> DEFINE ab == a \o b
             abc == ab \o c
             abcd == abc \o d
  <2>1. ab \in Seq(V) /\ Blanks(ab) = Blanks(a) \o Blanks(b)
    BY <1>3, ConcatProperties, BlanksJoined
  <2> HIDE DEF ab
  <2>2. abc \in Seq(V) /\ Blanks(abc) = Blanks(ab) \o Blanks(c)
    BY <1>3, <2>1, ConcatProperties, BlanksJoined
  <2> HIDE DEF abc
  <2>3. abcd \in Seq(V) /\ Blanks(abcd) = Blanks(abc) \o Blanks(d)
    BY <1>3, <2>2, ConcatProperties, BlanksJoined
  <2> HIDE DEF abcd
  <2>4. Blanks(abcd \o e) = Blanks(abcd) \o Blanks(e)
    BY <1>3, <2>3, BlanksJoined
  <2> QED BY <2>1, <2>2, <2>3, <2>4, Zenon DEF ab, abc, abcd
<1>5. Blanks(HeadFields(f)) =
        (((Blanks(<<Duration>>) \o Blanks(<<TableField(f)>>)) \o Blanks(Counts)) \o Blanks(IdlePrinted(f)))
          \o Blanks(<<PriorityField(f)>>)
  BY <1>2, <1>4, Zenon DEF a, b, c, d, e
<1> QED BY <1>5, Zenon DEF LineFields, LineParts, MiddleFields

(* Fields, with blanks or without, are fields.                             *)
LEMMA WithBlanks ==
    ASSUME NEW U, NEW V, V = U \cup {Blank(x) : x \in U}, NEW s \in Seq(U)
    PROVE  s \in Seq(V) /\ Blanks(s) \in Seq(V)
<1> DEFINE B == {Blank(x) : x \in U}
<1>1. Blanks(s) \in Seq(B)
  BY BlanksOf
<1>2. U \subseteq V /\ B \subseteq V
  BY DEF B
<1> HIDE DEF B
<1> QED BY <1>1, <1>2, SeqMonotonic

(* A line is a sequence of fields.                                         *)
LEMMA PartsType ==
    ASSUME NEW f, NEW R, NEW matches \in Seq(R)
    PROVE  \E B : LineParts(f, matches) \in Seq(B)
<1> DEFINE V == LineField(f)
<1> DEFINE Co == CookiePrinted(f)
           Du == Blanks(<<Duration>>)
           Ta == Blanks(<<TableField(f)>>)
           Cn == Blanks(Counts)
           Id == Blanks(IdlePrinted(f))
           Pr == Blanks(<<PriorityField(f)>>)
           Wo == ProtocolText(f)
           Po == InPortField(f.InPort)
           Typed(s) == \E B : s \in Seq(B)
<1>1. \A s : s \in Seq(V) => Typed(Blanks(s))
  BY BlanksOf
<1>2. /\ Co \in Seq(V) /\ <<Duration>> \in Seq(V) /\ <<TableField(f)>> \in Seq(V) /\ Counts \in Seq(V)
      /\ IdlePrinted(f) \in Seq(V) /\ <<PriorityField(f)>> \in Seq(V) /\ Wo \in Seq(V) /\ Po \in Seq(V)
  BY PartTypes
<1>3. Typed(Co) /\ Typed(Wo) /\ Typed(Po) /\ Typed(matches)
  BY <1>2
<1>4. Typed(Du) /\ Typed(Ta) /\ Typed(Cn) /\ Typed(Id) /\ Typed(Pr)
  <2> HIDE DEF Typed
  <2> QED BY <1>1, <1>2, Zenon
<1>5. \A s, t : Typed(s) /\ Typed(t) => Typed(s \o t)
  BY JoinedType
<1> HIDE DEF Typed, Co, Du, Ta, Cn, Id, Pr, Wo, Po
<1>6. Typed((((Du \o Ta) \o Cn) \o Id) \o Pr)
  <2>1. Typed((Du \o Ta) \o Cn)
    BY <1>4, <1>5, Zenon
  <2> QED BY <2>1, <1>4, <1>5, Zenon
<1>7. Typed((Wo \o Po) \o matches)
  BY <1>3, <1>5, Zenon
<1>8. Typed((Co \o ((((Du \o Ta) \o Cn) \o Id) \o Pr)) \o ((Wo \o Po) \o matches))
  BY <1>3, <1>5, <1>6, <1>7, Zenon
<1> QED BY <1>8, Zenon DEF LineParts, Typed, Co, Du, Ta, Cn, Id, Pr, Wo, Po

(* A line is read as the reading of its parts. *)
LEMMA PartsRead ==
    ASSUME NEW f, NEW R, NEW matches \in Seq(R), NEW flow, NEW z, Reads(flow, LineParts(f, matches), z)
    PROVE  \E c, d, t, n, i, p, w, q :
              /\ Reads(flow, CookiePrinted(f), c) /\ Reads(c, Blanks(<<Duration>>), d)
              /\ Reads(d, Blanks(<<TableField(f)>>), t) /\ Reads(t, Blanks(Counts), n)
              /\ Reads(n, Blanks(IdlePrinted(f)), i) /\ Reads(i, Blanks(<<PriorityField(f)>>), p)
              /\ Reads(p, ProtocolText(f), w) /\ Reads(w, InPortField(f.InPort), q) /\ Reads(q, matches, z)
<1> PICK U : U = LineField(f) \cup R
  OBVIOUS
<1> PICK V : V = U \cup {Blank(x) : x \in U}
  OBVIOUS
<1> DEFINE Co == CookiePrinted(f)
           Du == Blanks(<<Duration>>)
           Ta == Blanks(<<TableField(f)>>)
           Cn == Blanks(Counts)
           Id == Blanks(IdlePrinted(f))
           Pr == Blanks(<<PriorityField(f)>>)
           Wo == ProtocolText(f)
           Po == InPortField(f.InPort)
<1>1. /\ Co \in Seq(V) /\ Du \in Seq(V) /\ Ta \in Seq(V) /\ Cn \in Seq(V) /\ Id \in Seq(V) /\ Pr \in Seq(V)
      /\ Wo \in Seq(V) /\ Po \in Seq(V) /\ matches \in Seq(V)
  <2>1. /\ CookiePrinted(f) \in Seq(U) /\ <<Duration>> \in Seq(U) /\ <<TableField(f)>> \in Seq(U)
        /\ Counts \in Seq(U) /\ IdlePrinted(f) \in Seq(U) /\ <<PriorityField(f)>> \in Seq(U)
        /\ ProtocolText(f) \in Seq(U) /\ InPortField(f.InPort) \in Seq(U)
    <3>1. LineField(f) \subseteq U
      OBVIOUS
    <3> QED BY <3>1, PartTypes
  <2>2. matches \in Seq(U)
    <3>1. R \subseteq U
      OBVIOUS
    <3> QED BY <3>1, SeqMonotonic
  <2> QED BY <2>1, <2>2, WithBlanks
<1>2. Reads(flow, (Co \o ((((Du \o Ta) \o Cn) \o Id) \o Pr)) \o ((Wo \o Po) \o matches), z)
  BY Zenon DEF LineParts
<1> HIDE DEF Co, Du, Ta, Cn, Id, Pr, Wo, Po
<1> DEFINE DuTa == Du \o Ta
           Three == DuTa \o Cn
           Four == Three \o Id
           Upper == Four \o Pr
           Whole == Co \o Upper
           WoPo == Wo \o Po
           Lower == WoPo \o matches
<1>3. Reads(flow, Whole \o Lower, z)
  BY <1>2
<1>4. DuTa \in Seq(V)
  BY <1>1, ConcatProperties
<1>5. \A x, y : Reads(x, DuTa, y) => \E h : Reads(x, Du, h) /\ Reads(h, Ta, y)
  BY <1>1, ReadsSplit
<1> HIDE DEF DuTa
<1>6. Three \in Seq(V) /\ \A x, y : Reads(x, Three, y) => \E h : Reads(x, DuTa, h) /\ Reads(h, Cn, y)
  BY <1>1, <1>4, ConcatProperties, ReadsSplit
<1> HIDE DEF Three
<1>7. Four \in Seq(V) /\ \A x, y : Reads(x, Four, y) => \E h : Reads(x, Three, h) /\ Reads(h, Id, y)
  BY <1>1, <1>6, ConcatProperties, ReadsSplit
<1> HIDE DEF Four
<1>8. Upper \in Seq(V) /\ \A x, y : Reads(x, Upper, y) => \E h : Reads(x, Four, h) /\ Reads(h, Pr, y)
  BY <1>1, <1>7, ConcatProperties, ReadsSplit
<1> HIDE DEF Upper
<1>9. Whole \in Seq(V) /\ \A x, y : Reads(x, Whole, y) => \E h : Reads(x, Co, h) /\ Reads(h, Upper, y)
  BY <1>1, <1>8, ConcatProperties, ReadsSplit
<1> HIDE DEF Whole
<1>10. WoPo \in Seq(V) /\ \A x, y : Reads(x, WoPo, y) => \E h : Reads(x, Wo, h) /\ Reads(h, Po, y)
  BY <1>1, ConcatProperties, ReadsSplit
<1> HIDE DEF WoPo
<1>11. Lower \in Seq(V) /\ \A x, y : Reads(x, Lower, y) => \E h : Reads(x, WoPo, h) /\ Reads(h, matches, y)
  BY <1>1, <1>10, ConcatProperties, ReadsSplit
<1> HIDE DEF Lower
<1>12. \E h : Reads(flow, Whole, h) /\ Reads(h, Lower, z)
  BY <1>3, <1>9, <1>11, ReadsSplit
<1>13. \E c, d, t, n, i, p, w, q :
          /\ Reads(flow, Co, c) /\ Reads(c, Du, d) /\ Reads(d, Ta, t) /\ Reads(t, Cn, n) /\ Reads(n, Id, i)
          /\ Reads(i, Pr, p) /\ Reads(p, Wo, w) /\ Reads(w, Po, q) /\ Reads(q, matches, z)
  <2>1. PICK m : Reads(flow, Whole, m) /\ Reads(m, Lower, z)
    BY <1>12
  <2>2. PICK c : Reads(flow, Co, c) /\ Reads(c, Upper, m)
    BY <1>9, <2>1
  <2>3. PICK i : Reads(c, Four, i) /\ Reads(i, Pr, m)
    BY <1>8, <2>2
  <2>4. PICK n : Reads(c, Three, n) /\ Reads(n, Id, i)
    BY <1>7, <2>3
  <2>5. PICK t : Reads(c, DuTa, t) /\ Reads(t, Cn, n)
    BY <1>6, <2>4
  <2>6. PICK d : Reads(c, Du, d) /\ Reads(d, Ta, t)
    BY <1>5, <2>5
  <2>7. PICK q : Reads(m, WoPo, q) /\ Reads(q, matches, z)
    BY <1>11, <2>1
  <2>8. PICK w : Reads(m, Wo, w) /\ Reads(w, Po, q)
    BY <1>10, <2>7
  <2> QED BY <2>2, <2>3, <2>4, <2>5, <2>6, <2>7, <2>8
<1> QED BY <1>13, ZenonT(30) DEF Co, Du, Ta, Cn, Id, Pr, Wo, Po

ReadCookie(f) == IF f.Cookie > 0 THEN f.Cookie ELSE 0

(* Each part sets its field. *)
LEMMA CookieRead ==
    ASSUME NEW f, NEW g, NEW z, Reads(g, CookiePrinted(f), z)
    PROVE  z = [g EXCEPT !["Cookie"] = ReadCookie(f)]
<1> PICK c : c = ReadCookie(f)
  OBVIOUS
<1>1. CookiePrinted(f) = <<Field("cookie", <<Hex(c)>>)>>
  <2> DEFINE x == Field("cookie", <<Hex(f.Cookie)>>)
             x0 == Field("cookie", <<Hex(0)>>)
  <2>1. CookieField(f.Cookie) = IF f.Cookie > 0 THEN <<x>> ELSE <<>>
    BY Zenon DEF CookieField, When, paddedHexUint64
  <2>2. CASE f.Cookie > 0
    <3>1. CookieField(f.Cookie) = <<x>> /\ c = f.Cookie
      BY <2>1, <2>2, Zenon DEF ReadCookie
    <3>2. <<x>> # <<>>
      OBVIOUS
    <3> QED BY <3>1, <3>2, Zenon DEF CookiePrinted
  <2>3. CASE ~(f.Cookie > 0)
    <3>1. CookieField(f.Cookie) = <<>> /\ c = 0
      BY <2>1, <2>3, Zenon DEF ReadCookie
    <3> QED BY <3>1, Zenon DEF CookiePrinted
  <2> QED BY <2>2, <2>3, Zenon
<1> PICK x : x = Field("cookie", <<Hex(c)>>)
  OBVIOUS
<1>2. x.key = "cookie" /\ x.val = <<Hex(c)>>
  BY FieldFields
<1>3. Reads(g, <<x>>, z)
  BY <1>1, Zenon
<1>4. ParseField(g, x).ok /\ z = ParseField(g, x).v
  BY <1>3, ReadsOne
<1>5. "cookie" \in DOMAIN UintKeys /\ UintKeys["cookie"] = "Cookie"
  BY DEF UintKeys
<1>6. ParseField(g, x).v = [g EXCEPT ![UintKeys["cookie"]] = c]
  <2>1. Hex(c) \in {Dec(c), Hex(c)}
    OBVIOUS
  <2> QED BY <1>2, <1>4, <1>5, <2>1, UintRead
<1> QED BY <1>4, <1>5, <1>6, Zenon

(* The duration is skipped.                                                *)
LEMMA DurationRead ==
    ASSUME NEW g, NEW z, Reads(g, Blanks(<<Duration>>), z)
    PROVE  z = g
<1> PICK x : x = Blank(Duration)
  OBVIOUS
<1>1. x.key = "duration" /\ x.val = <<Word("1s")>>
  BY BlankFields DEF Duration
<1>2. Blanks(<<Duration>>) = <<x>>
  BY BlankOne
<1>3. Reads(g, <<x>>, z)
  BY <1>2, Zenon
<1>4. ParseField(g, x).ok /\ z = ParseField(g, x).v
  BY <1>3, ReadsOne
<1>5. x.key \in IgnoredKeys /\ x.val # <<>>
  BY <1>1 DEF IgnoredKeys
<1> QED BY <1>4, <1>5, IgnoredRead

(* A number of the flow after a blank. *)
LEMMA BlankNumberRead ==
    ASSUME NEW g, NEW z, NEW k \in DOMAIN IntKeys, NEW n, Reads(g, Blanks(<<Number(k, n)>>), z)
    PROVE  z = [g EXCEPT ![IntKeys[k]] = n]
<1> PICK x : x = Blank(Number(k, n))
  OBVIOUS
<1>1. x.key = k /\ x.val = <<Dec(n)>>
  BY BlankFields DEF Number
<1>2. Blanks(<<Number(k, n)>>) = <<x>>
  BY BlankOne
<1>3. Reads(g, <<x>>, z)
  BY <1>2, Zenon
<1>4. ParseField(g, x).ok /\ z = ParseField(g, x).v
  BY <1>3, ReadsOne
<1> QED BY <1>1, <1>4, IntRead

(* The table is read into its field,                                       *)
LEMMA TableRead ==
    ASSUME NEW f, NEW g, NEW z, Reads(g, Blanks(<<TableField(f)>>), z)
    PROVE  z = [g EXCEPT !["Table"] = f.Table]
<1>1. "table" \in DOMAIN IntKeys /\ IntKeys["table"] = "Table"
  BY DEF IntKeys
<1>2. Reads(g, Blanks(<<Number("table", f.Table)>>), z)
  BY Zenon DEF TableField
<1>3. z = [g EXCEPT ![IntKeys["table"]] = f.Table]
  BY <1>1, <1>2, BlankNumberRead
<1> QED BY <1>1, <1>3, Zenon

(* and so are the priority,                                                *)
LEMMA PriorityRead ==
    ASSUME NEW f, NEW g, NEW z, Reads(g, Blanks(<<PriorityField(f)>>), z)
    PROVE  z = [g EXCEPT !["Priority"] = f.Priority]
<1>1. "priority" \in DOMAIN IntKeys /\ IntKeys["priority"] = "Priority"
  BY DEF IntKeys
<1>2. Reads(g, Blanks(<<Number("priority", f.Priority)>>), z)
  BY Zenon DEF PriorityField
<1>3. z = [g EXCEPT ![IntKeys["priority"]] = f.Priority]
  BY <1>1, <1>2, BlankNumberRead
<1> QED BY <1>1, <1>3, Zenon

(* An idle timeout of zero is not printed, and is the one of a new flow. *)
LEMMA IdleRead ==
    ASSUME NEW f, NEW g, NEW z, Reads(g, Blanks(IdlePrinted(f)), z), "IdleTimeout" \in DOMAIN g, g.IdleTimeout = 0
    PROVE  z = IF f.IdleTimeout = 0 THEN g ELSE [g EXCEPT !["IdleTimeout"] = f.IdleTimeout]
<1>0. IdleField(f).val = <<Dec(f.IdleTimeout)>>
  BY FieldFields DEF IdleField, Number
<1>1. CASE f.IdleTimeout = 0
  <2>1. IdlePrinted(f) = <<>>
    BY <1>0, <1>1, Zenon DEF IdlePrinted
  <2>2. Reads(g, <<>>, z)
    BY <2>1, BlankOne, Zenon
  <2>3. z = g
    BY <2>2, ReadsNone
  <2> QED BY <2>3, <1>1, Zenon
<1>2. CASE f.IdleTimeout # 0
  <2>1. <<Dec(f.IdleTimeout)>> # <<Dec(0)>>
    <3>1. Dec(f.IdleTimeout) # Dec(0)
      BY <1>2, TokensAre
    <3> QED BY <3>1
  <2>2. IdlePrinted(f) = <<Number("idle_timeout", f.IdleTimeout)>>
    BY <1>0, <2>1, Zenon DEF IdlePrinted, IdleField
  <2>3. "idle_timeout" \in DOMAIN IntKeys /\ IntKeys["idle_timeout"] = "IdleTimeout"
    BY DEF IntKeys
  <2>4. Reads(g, Blanks(<<Number("idle_timeout", f.IdleTimeout)>>), z)
    BY <2>2, Zenon
  <2>5. z = [g EXCEPT ![IntKeys["idle_timeout"]] = f.IdleTimeout]
    BY <2>3, <2>4, BlankNumberRead
  <2> QED BY <2>3, <2>5, <1>2, Zenon
<1> QED BY <1>1, <1>2

(* The statistics. *)
LEMMA CountsRead ==
    ASSUME NEW g, NEW z, Reads(g, Blanks(Counts), z)
    PROVE  z = [[g EXCEPT !["PacketCount"] = 1] EXCEPT !["ByteCount"] = 2]
<1> PICK x, y : x = Blank(Number("n_packets", 1)) /\ y = Blank(Number("n_bytes", 2))
  OBVIOUS
<1>1. x.key = "n_packets" /\ x.val = <<Dec(1)>> /\ y.key = "n_bytes" /\ y.val = <<Dec(2)>>
  BY BlankFields DEF Number
<1>2. Blanks(Counts) = <<x, y>>
  BY BlankOne DEF Counts
<1>3. \E h : Reads(g, <<x>>, h) /\ Reads(h, <<y>>, z)
  <2> DEFINE a == <<x>>
             b == <<y>>
  <2>1. a \in Seq({x, y}) /\ b \in Seq({x, y}) /\ a \o b = <<x, y>>
    <3>1. a \in Seq({x, y}) /\ b \in Seq({x, y}) /\ Len(a) = 1 /\ Len(b) = 1 /\ a[1] = x /\ b[1] = y
      OBVIOUS
    <3>2. <<x, y>> \in Seq({x, y}) /\ Len(<<x, y>>) = 2 /\ <<x, y>>[1] = x /\ <<x, y>>[2] = y
      OBVIOUS
    <3> DEFINE c == <<x, y>>
               d == a \o b
    <3> HIDE DEF a, b
    <3>3. d \in Seq({x, y}) /\ Len(d) = 2 /\ d[1] = x /\ d[2] = y
      BY <3>1, ConcatProperties
    <3>4. c \in Seq({x, y}) /\ Len(c) = 2 /\ c[1] = x /\ c[2] = y
      BY <3>2
    <3> HIDE DEF c, d
    <3>5. \A i \in 1 .. Len(c) : c[i] = d[i]
      BY <3>3, <3>4
    <3>6. d = c
      BY <3>3, <3>4, <3>5, SeqEqual
    <3> QED BY <3>1, <3>6 DEF c, d
  <2> HIDE DEF a, b
  <2>2. Reads(g, a \o b, z)
    BY <1>2, <2>1, Zenon
  <2>3. \E h : Reads(g, a, h) /\ Reads(h, b, z)
    BY <2>1, <2>2, ReadsSplit
  <2> QED BY <2>3 DEF a, b
<1> PICK h : Reads(g, <<x>>, h) /\ Reads(h, <<y>>, z)
  BY <1>3
<1>4. ParseField(g, x).ok /\ h = ParseField(g, x).v /\ ParseField(h, y).ok /\ z = ParseField(h, y).v
  BY ReadsOne
<1>5. /\ "n_packets" \in DOMAIN UintKeys /\ UintKeys["n_packets"] = "PacketCount"
      /\ "n_bytes" \in DOMAIN UintKeys /\ UintKeys["n_bytes"] = "ByteCount"
  BY DEF UintKeys
<1>6. h = [g EXCEPT ![UintKeys["n_packets"]] = 1]
  <2>1. Dec(1) \in {Dec(1), Hex(1)}
    OBVIOUS
  <2>2. x.key = "n_packets" /\ x.val = <<Dec(1)>>
    BY <1>1
  <2>3. ParseField(g, x).ok /\ h = ParseField(g, x).v
    BY <1>4
  <2>4. "n_packets" \in DOMAIN UintKeys
    BY <1>5
  <2>5. ParseField(g, x).v = [g EXCEPT ![UintKeys["n_packets"]] = 1]
    BY <2>1, <2>2, <2>3, <2>4, UintRead
  <2> QED BY <2>3, <2>5
<1>7. z = [h EXCEPT ![UintKeys["n_bytes"]] = 2]
  <2>1. Dec(2) \in {Dec(2), Hex(2)}
    OBVIOUS
  <2>2. y.key = "n_bytes" /\ y.val = <<Dec(2)>>
    BY <1>1
  <2>3. ParseField(h, y).ok /\ z = ParseField(h, y).v
    BY <1>4
  <2>4. "n_bytes" \in DOMAIN UintKeys
    BY <1>5
  <2>5. ParseField(h, y).v = [h EXCEPT ![UintKeys["n_bytes"]] = 2]
    BY <2>1, <2>2, <2>3, <2>4, UintRead
  <2> QED BY <2>3, <2>5
<1> QED BY <1>5, <1>6, <1>7, Zenon

(* The protocol and the port. *)
LEMMA ProtocolTextRead ==
    ASSUME NEW f, f.Protocol = Word(f.Protocol.t), NEW g, NEW z, Reads(g, ProtocolText(f), z)
    PROVE  z = IF f.Protocol = Empty THEN g ELSE [g EXCEPT !.Protocol = f.Protocol]
<1>1. Reads(g, When(f.Protocol # Empty, Bare(f.Protocol.t)), z)
  BY Zenon DEF ProtocolText
<1>3. CASE f.Protocol # Empty
  <2>1. When(f.Protocol # Empty, Bare(f.Protocol.t)) = <<Bare(f.Protocol.t)>>
    BY <1>3, Zenon DEF When
  <2>2. z = ParseField(g, Bare(f.Protocol.t)).v
    BY <1>1, <2>1, ReadsOne
  <2>3. f.Protocol.t # NoWord
    BY <1>3, Zenon DEF Empty
  <2>4. ParseField(g, Bare(f.Protocol.t)).v = [g EXCEPT !.Protocol = f.Protocol]
    BY <2>3, ProtocolRead
  <2> QED BY <2>2, <1>3, <2>4, Zenon
<1>4. CASE f.Protocol = Empty
  <2>1. When(f.Protocol # Empty, Bare(f.Protocol.t)) = <<>>
    BY <1>4, Zenon DEF When
  <2>2. z = g
    BY <1>1, <2>1, ReadsNone
  <2> QED BY <2>2, <1>4, Zenon
<1> QED BY <1>3, <1>4

(* and the port, which is left out if it is zero.                          *)
LEMMA PortRead ==
    ASSUME NEW f, NEW g, NEW z, Reads(g, InPortField(f.InPort), z)
    PROVE  z = IF f.InPort = 0 THEN g ELSE [g EXCEPT !["InPort"] = f.InPort]
<1> PICK x : x = Field("in_port", <<IF f.InPort = PortLOCAL THEN Word("LOCAL") ELSE Dec(f.InPort)>>)
  OBVIOUS
<1>1. Reads(g, When(f.InPort # 0, x), z)
  BY Zenon DEF InPortField
<1>2. IF f.InPort # 0 THEN ParseField(g, x).ok /\ z = ParseField(g, x).v ELSE z = g
  <2>1. CASE f.InPort # 0
    <3>1. When(f.InPort # 0, x) = <<x>>
      BY <2>1, Zenon DEF When
    <3>2. ParseField(g, x).ok /\ z = ParseField(g, x).v
      BY <1>1, <3>1, ReadsOne
    <3> QED BY <2>1, <3>2, Zenon
  <2>2. CASE f.InPort = 0
    <3>1. When(f.InPort # 0, x) = <<>>
      BY <2>2, Zenon DEF When
    <3>2. z = g
      BY <1>1, <3>1, ReadsNone
    <3> QED BY <2>2, <3>2, Zenon
  <2> QED BY <2>1, <2>2
<1>3. x.key = "in_port" /\ x.val = <<IF f.InPort = PortLOCAL THEN Word("LOCAL") ELSE Dec(f.InPort)>>
  BY FieldFields
<1>4. "in_port" \in DOMAIN IntKeys /\ IntKeys["in_port"] = "InPort"
  BY DEF IntKeys
<1>5. CASE f.InPort # 0 /\ f.InPort = PortLOCAL
  <2>1. x.val = <<Word("LOCAL")>>
    BY <1>3, <1>5, Zenon
  <2>2. ParseField(g, x).v = [g EXCEPT !["InPort"] = PortLOCAL]
    BY <1>2, <1>3, <1>5, <2>1, LocalRead
  <2> QED BY <1>2, <1>5, <2>2, Zenon
<1>6. CASE f.InPort # 0 /\ f.InPort # PortLOCAL
  <2>1. x.val = <<Dec(f.InPort)>>
    BY <1>3, <1>6, Zenon
  <2>2. ParseField(g, x).v = [g EXCEPT ![IntKeys["in_port"]] = f.InPort]
    BY <1>2, <1>3, <1>4, <1>6, <2>1, IntRead
  <2> QED BY <1>2, <1>4, <1>6, <2>2, Zenon
<1>7. CASE f.InPort = 0
  BY <1>2, <1>7, Zenon
<1> QED BY <1>5, <1>6, <1>7

(* What is read from the line of a flow. *)
ReadFrom(f, matches) ==
    FlowWith(f.Priority, f.Protocol, f.InPort, FirstMatches(matches, Len(matches)), f.Table, f.IdleTimeout,
             ReadCookie(f), 1, 2)

(* All the parts together: what is read from a line is ReadFrom of its     *)
(* flow, field by field.                                                   *)
LEMMA LineReadAs ==
    ASSUME NEW f, f.Protocol = Word(f.Protocol.t), NEW R, NEW matches \in Seq(R),
           \A i \in 1 .. Len(matches) : AddsItsMatch(matches[i]),
           NEW z, Reads(NewFlow, LineParts(f, matches), z)
    PROVE  z = ReadFrom(f, matches)
<1> PICK c, d, t, n, i, p, w, q :
              /\ Reads(NewFlow, CookiePrinted(f), c) /\ Reads(c, Blanks(<<Duration>>), d)
              /\ Reads(d, Blanks(<<TableField(f)>>), t) /\ Reads(t, Blanks(Counts), n)
              /\ Reads(n, Blanks(IdlePrinted(f)), i) /\ Reads(i, Blanks(<<PriorityField(f)>>), p)
              /\ Reads(p, ProtocolText(f), w) /\ Reads(w, InPortField(f.InPort), q) /\ Reads(q, matches, z)
  BY PartsRead
<1> PICK k : k = ReadCookie(f)
  OBVIOUS
<1> PICK em : em = Empty
  OBVIOUS
<1>1. NewFlow = FlowWith(0, em, 0, <<>>, 0, 0, 0, 0, 0)
  BY DEF NewFlow, FlowWith
<1>2. c = FlowWith(0, em, 0, <<>>, 0, 0, k, 0, 0)
  <2>1. c = [NewFlow EXCEPT !["Cookie"] = k]
    BY CookieRead
  <2> QED BY <2>1, <1>1 DEF FlowWith
<1>3. d = c
  BY DurationRead
<1>4. t = FlowWith(0, em, 0, <<>>, f.Table, 0, k, 0, 0)
  <2>1. t = [d EXCEPT !["Table"] = f.Table]
    BY TableRead
  <2> QED BY <2>1, <1>2, <1>3 DEF FlowWith
<1>5. n = FlowWith(0, em, 0, <<>>, f.Table, 0, k, 1, 2)
  <2>1. n = [[t EXCEPT !["PacketCount"] = 1] EXCEPT !["ByteCount"] = 2]
    BY CountsRead
  <2> QED BY <2>1, <1>4 DEF FlowWith
<1>6. i = FlowWith(0, em, 0, <<>>, f.Table, f.IdleTimeout, k, 1, 2)
  <2>1. "IdleTimeout" \in DOMAIN n /\ n.IdleTimeout = 0
    BY <1>5 DEF FlowWith
  <2>2. i = IF f.IdleTimeout = 0 THEN n ELSE [n EXCEPT !["IdleTimeout"] = f.IdleTimeout]
    BY <2>1, IdleRead
  <2>3. [n EXCEPT !["IdleTimeout"] = f.IdleTimeout] = FlowWith(0, em, 0, <<>>, f.Table, f.IdleTimeout, k, 1, 2)
    BY <1>5 DEF FlowWith
  <2> QED BY <2>2, <2>3, <1>5, Zenon
<1>7. p = FlowWith(f.Priority, em, 0, <<>>, f.Table, f.IdleTimeout, k, 1, 2)
  <2>1. p = [i EXCEPT !["Priority"] = f.Priority]
    BY PriorityRead
  <2> QED BY <2>1, <1>6 DEF FlowWith
<1>8. w = FlowWith(f.Priority, f.Protocol, 0, <<>>, f.Table, f.IdleTimeout, k, 1, 2)
  <2>1. w = IF f.Protocol = em THEN p ELSE [p EXCEPT !.Protocol = f.Protocol]
    BY ProtocolTextRead
  <2>2. [p EXCEPT !.Protocol = f.Protocol] = FlowWith(f.Priority, f.Protocol, 0, <<>>, f.Table, f.IdleTimeout, k, 1, 2)
    BY <1>7 DEF FlowWith
  <2> QED BY <2>1, <2>2, <1>7, Zenon
<1>9. q = FlowWith(f.Priority, f.Protocol, f.InPort, <<>>, f.Table, f.IdleTimeout, k, 1, 2)
  <2>1. q = IF f.InPort = 0 THEN w ELSE [w EXCEPT !["InPort"] = f.InPort]
    BY PortRead
  <2>2. [w EXCEPT !["InPort"] = f.InPort] = FlowWith(f.Priority, f.Protocol, f.InPort, <<>>, f.Table, f.IdleTimeout, k, 1, 2)
    BY <1>8 DEF FlowWith
  <2> QED BY <2>1, <2>2, <1>8, Zenon
<1> PICK l : l = Len(matches)
  OBVIOUS
<1>10. z = FlowWith(f.Priority, f.Protocol, f.InPort, FirstMatches(matches, l), f.Table, f.IdleTimeout, k, 1, 2)
  <2>1. l \in Nat
    OBVIOUS
  <2>2. Reads(FlowWith(f.Priority, f.Protocol, f.InPort, <<>>, f.Table, f.IdleTimeout, k, 1, 2), matches, z)
    BY <1>9
  <2> QED BY <2>1, <2>2, MatchesRead
<1> QED BY <1>10 DEF ReadFrom

(* marshalFunctions of functions that all succeed. *)
LEMMA FunctionsSucceed ==
    ASSUME NEW results, NEW S, NEW s \in Seq(S), DOMAIN results = 1 .. Len(s),
           \A i \in 1 .. Len(s) : results[i] = Ok(s[i])
    PROVE  marshalFunctions(results) = Ok(s)
<1>1. \A i \in DOMAIN results : results[i].ok /\ results[i].v = s[i]
  BY OkFields
<1>2. marshalFunctions(results) = Ok([i \in DOMAIN results |-> results[i].v])
  BY <1>1, Zenon DEF marshalFunctions
<1>3. [i \in DOMAIN results |-> results[i].v] = s
  <2>1. s = [i \in 1 .. Len(s) |-> s[i]]
    OBVIOUS
  <2>2. [i \in DOMAIN results |-> results[i].v] = [i \in 1 .. Len(s) |-> s[i]]
    BY <1>1
  <2> QED BY <2>1, <2>2, Zenon
<1> QED BY <1>2, <1>3, Zenon

(* The field of a match that is read back: parseField does not take it for *)
(* a field of the flow, and what it makes of it prints the field again.    *)
TextReadable(x) ==
    /\ x.val # <<>> /\ x.blank = FALSE /\ ~Contains(x.val, Word("="))
    /\ x.key \notin IgnoredKeys \cup (DOMAIN IntKeys \cup DOMAIN UintKeys)
    /\ PrintedAgain(x.key, x.val) = Ok(x)

(* An action that is read back, or is an error. *)
ActionReadable(x) == parseAction(x).ok => MarshalAction(parseAction(x).v) = Ok(x)

(* A flow of such matches and actions; its protocol is a word, and none of *)
(* the keys with which a switch prints the flow itself.                    *)
FlowReadable(f) ==
    /\ f.Protocol = Word(f.Protocol.t) /\ f.Protocol.t \notin OwnKeysOfLine
    /\ \A i \in DOMAIN f.Matches : MarshalMatch(f.Matches[i]).ok => TextReadable(MarshalMatch(f.Matches[i]).v)
    /\ \A i \in DOMAIN f.Actions : MarshalAction(f.Actions[i]).ok => ActionReadable(MarshalAction(f.Actions[i]).v)

(* parseField makes of such a field a match that prints it again.          *)
LEMMA TextIsRead ==
    ASSUME NEW x, TextReadable(x)
    PROVE  AddsItsMatch(x) /\ MarshalMatch(Parsed(x)) = Ok(x) /\ x.key \notin OwnKeysOfLine
<1>1. parseMatch(x.key, x.val).ok /\ Parsed(x) # NoMatch /\ MarshalMatch(Parsed(x)) = Ok(x)
  <2>1. PrintedAgain(x.key, x.val) =
          IF parseMatch(x.key, x.val).ok THEN IF Parsed(x) = NoMatch THEN Fail ELSE MarshalMatch(Parsed(x)) ELSE Fail
    BY Zenon DEF PrintedAgain, Then, Parsed
  <2>2. PrintedAgain(x.key, x.val) # Fail
    BY DEF TextReadable, Ok, Fail
  <2>3. PrintedAgain(x.key, x.val) = Ok(x)
    BY DEF TextReadable
  <2> QED BY <2>1, <2>2, <2>3, Zenon
<1>2. AddsItsMatch(x)
  BY <1>1, MatchRead DEF TextReadable
<1>3. x.key \notin OwnKeysOfLine
  BY DEF TextReadable, OwnKeysOfLine, IntKeys, UintKeys
<1> QED BY <1>1, <1>2, <1>3

(* The matches of a flow that prints, by their places. *)
LEMMA MatchTexts ==
    ASSUME NEW R, NEW mm \in Seq(R), marshalMatches(mm).ok
    PROVE  \E S : /\ marshalMatches(mm).v \in Seq(S) /\ Len(marshalMatches(mm).v) = Len(mm)
                  /\ \A i \in 1 .. Len(mm) : MarshalMatch(mm[i]).ok /\ marshalMatches(mm).v[i] = MarshalMatch(mm[i]).v
<1> DEFINE results == [i \in DOMAIN mm |-> MarshalMatch(mm[i])]
<1>0. DOMAIN mm = 1 .. Len(mm) /\ Len(mm) \in Nat /\ DOMAIN results = DOMAIN mm
      /\ \A i \in 1 .. Len(mm) : results[i] = MarshalMatch(mm[i])
  OBVIOUS
<1>1. marshalMatches(mm) = marshalFunctions(results)
  BY Zenon DEF marshalMatches
<1> HIDE DEF results
<1>2. /\ marshalMatches(mm).v = [i \in DOMAIN results |-> results[i].v]
      /\ \A i \in DOMAIN results : results[i].ok
  BY <1>1, FunctionsMarshalled
<1> DEFINE S == {results[i].v : i \in 1 .. Len(mm)}
<1>3. \A i \in 1 .. Len(mm) : results[i].v \in S
  OBVIOUS
<1> HIDE DEF S
<1>4. marshalMatches(mm).v = [i \in 1 .. Len(mm) |-> results[i].v]
  BY <1>0, <1>2
<1>5. marshalMatches(mm).v \in Seq(S) /\ Len(marshalMatches(mm).v) = Len(mm)
  BY <1>0, <1>3, <1>4
<1>6. \A i \in 1 .. Len(mm) : marshalMatches(mm).v[i] = results[i].v /\ results[i].ok
  BY <1>0, <1>2, <1>4
<1> QED BY <1>0, <1>5, <1>6

(* The same of its actions. *)
LEMMA ActionTexts ==
    ASSUME NEW R, NEW aa \in Seq(R), marshalActions(aa).ok
    PROVE  \E S : /\ marshalActions(aa).v \in Seq(S) /\ Len(marshalActions(aa).v) = Len(aa)
                  /\ \A i \in 1 .. Len(aa) : MarshalAction(aa[i]).ok /\ marshalActions(aa).v[i] = MarshalAction(aa[i]).v
<1> DEFINE results == [i \in DOMAIN aa |-> MarshalAction(aa[i])]
<1>0. DOMAIN aa = 1 .. Len(aa) /\ Len(aa) \in Nat /\ DOMAIN results = DOMAIN aa
      /\ \A i \in 1 .. Len(aa) : results[i] = MarshalAction(aa[i])
  OBVIOUS
<1>1. marshalActions(aa) = marshalFunctions(results)
  BY Zenon DEF marshalActions
<1> HIDE DEF results
<1>2. /\ marshalActions(aa).v = [i \in DOMAIN results |-> results[i].v]
      /\ \A i \in DOMAIN results : results[i].ok
  BY <1>1, FunctionsMarshalled
<1> DEFINE S == {results[i].v : i \in 1 .. Len(aa)}
<1>3. \A i \in 1 .. Len(aa) : results[i].v \in S
  OBVIOUS
<1> HIDE DEF S
<1>4. marshalActions(aa).v = [i \in 1 .. Len(aa) |-> results[i].v]
  BY <1>0, <1>2
<1>5. marshalActions(aa).v \in Seq(S) /\ Len(marshalActions(aa).v) = Len(aa)
  BY <1>0, <1>3, <1>4
<1>6. \A i \in 1 .. Len(aa) : marshalActions(aa).v[i] = results[i].v /\ results[i].ok
  BY <1>0, <1>2, <1>4
<1> QED BY <1>0, <1>5, <1>6

(* UnmarshalFlow of a line, if it is no error. *)
LEMMA UnmarshalledIs ==
    ASSUME NEW line, UnmarshalFlow(line).ok
    PROVE  LET acts == marshalFunctions([i \in DOMAIN line.actions |-> parseAction(line.actions[i])])
           IN  /\ line.actions # <<>> /\ ~WithDrop(line.actions) /\ ParseFields(line.fields).ok /\ acts.ok
               /\ UnmarshalFlow(line).v = [ParseFields(line.fields).v EXCEPT !.Actions = acts.v]
<1> DEFINE parsed == ParseFields(line.fields)
           acts == marshalFunctions([i \in DOMAIN line.actions |-> parseAction(line.actions[i])])
<1>1. UnmarshalFlow(line) = IF line.actions = <<>> \/ WithDrop(line.actions) THEN Fail
                  ELSE IF parsed.ok THEN IF acts.ok THEN Ok([parsed.v EXCEPT !.Actions = acts.v]) ELSE Fail
                  ELSE Fail
  BY Zenon DEF UnmarshalFlow, Then
<1>2. UnmarshalFlow(line) # Fail
  BY DEF Fail
<1> HIDE DEF parsed, acts
<1>3. /\ line.actions # <<>> /\ ~WithDrop(line.actions) /\ parsed.ok /\ acts.ok
      /\ UnmarshalFlow(line) = Ok([parsed.v EXCEPT !.Actions = acts.v])
  BY <1>1, <1>2, Zenon
<1>4. UnmarshalFlow(line).v = [parsed.v EXCEPT !.Actions = acts.v]
  BY <1>3, OkFields
<1> QED BY <1>3, <1>4 DEF parsed, acts

(* The printing of a flow that is made of what was read. *)
LEMMA PrintedFrom ==
    ASSUME NEW g, g.Actions # <<>>, NEW aa, NEW mm, marshalActions(g.Actions) = Ok(aa), marshalMatches(g.Matches) = Ok(mm),
           ~WithDrop(aa)
    PROVE  MarshalFlow(g) = Ok([fields |-> FlowFields(g, mm), actions |-> aa])
<1>1. MarshalFlow(g) =
        IF marshalActions(g.Actions).ok
        THEN IF marshalMatches(g.Matches).ok
             THEN IF WithDrop(marshalActions(g.Actions).v) THEN Fail
                  ELSE Ok([fields |-> FlowFields(g, marshalMatches(g.Matches).v), actions |-> marshalActions(g.Actions).v])
             ELSE Fail
        ELSE Fail
  BY Zenon DEF MarshalFlow, Then
<1>2. marshalActions(g.Actions).ok /\ marshalActions(g.Actions).v = aa
  BY OkFields
<1>3. marshalMatches(g.Matches).ok /\ marshalMatches(g.Matches).v = mm
  BY OkFields
<1> QED BY <1>1, <1>2, <1>3, Zenon

(* FlowReadBack of every flow with such a protocol, matches and actions:   *)
(* what DumpFlows makes of its line prints the text it was added with, or  *)
(* is an error (ovs/flow.go).                                              *)
LEMMA FlowIsReadBack ==
    ASSUME NEW f, f.Actions \in Seq(Range(f.Actions)), f.Matches \in Seq(Range(f.Matches)), FlowReadable(f)
    PROVE  FlowReadBack(f)
<1> DEFINE text == MarshalFlow(f)
           line == DumpLine(text.v)
<1> SUFFICES ASSUME text.ok, UnmarshalFlow(line).ok PROVE MarshalFlow(UnmarshalFlow(line).v) = text
  BY DEF FlowReadBack
<1> DEFINE mm == marshalMatches(f.Matches).v
           aa == marshalActions(f.Actions).v
           g == UnmarshalFlow(line).v
<1>1. /\ marshalMatches(f.Matches).ok /\ marshalActions(f.Actions).ok /\ f.Actions # <<>>
      /\ text = Ok([fields |-> FlowFields(f, mm), actions |-> aa]) /\ text.v = [fields |-> FlowFields(f, mm), actions |-> aa]
  BY MarshalledIs
<1>2. PICK S : /\ mm \in Seq(S) /\ Len(mm) = Len(f.Matches)
               /\ \A i \in 1 .. Len(f.Matches) : MarshalMatch(f.Matches[i]).ok /\ mm[i] = MarshalMatch(f.Matches[i]).v
  BY <1>1, MatchTexts
<1>3. PICK T : /\ aa \in Seq(T) /\ Len(aa) = Len(f.Actions)
               /\ \A i \in 1 .. Len(f.Actions) : MarshalAction(f.Actions[i]).ok /\ aa[i] = MarshalAction(f.Actions[i]).v
  BY <1>1, ActionTexts
<1> HIDE DEF mm, aa
<1>4. \A i \in 1 .. Len(mm) : TextReadable(mm[i])
  <2>1. DOMAIN f.Matches = 1 .. Len(f.Matches)
    OBVIOUS
  <2> QED BY <2>1, <1>2 DEF FlowReadable
<1>5. \A i \in 1 .. Len(aa) : ActionReadable(aa[i])
  <2>1. DOMAIN f.Actions = 1 .. Len(f.Actions)
    OBVIOUS
  <2> QED BY <2>1, <1>3 DEF FlowReadable
<1>6. aa # <<>>
  BY <1>1, <1>3
<1>7. line.actions = aa /\ line.fields = LineParts(f, mm)
  <2>1. line.actions = aa
    BY <1>1, <1>6, LineIsNoBanner
  <2> DEFINE U == FlowField(f) \cup S
  <2>2. FlowField(f) \subseteq U /\ mm \in Seq(U)
    <3>1. S \subseteq U
      OBVIOUS
    <3> QED BY <3>1, <1>2, SeqMonotonic
  <2>3. \A i \in 1 .. Len(mm) : mm[i].key \notin OwnKeysOfLine
    BY <1>4, TextIsRead
  <2>4. f.Protocol # Empty => f.Protocol.t \notin OwnKeysOfLine
    BY DEF FlowReadable
  <2> HIDE DEF U
  <2>5. DumpLine([fields |-> FlowFields(f, mm), actions |-> aa]).fields = LineFields(f, mm)
    BY <2>2, <2>3, <2>4, LineIs
  <2> QED BY <2>1, <2>5, <1>1, PartsAre
<1> DEFINE parsed == ParseFields(line.fields).v
           acts == marshalFunctions([i \in DOMAIN aa |-> parseAction(aa[i])])
<1>8. ~WithDrop(aa) /\ ParseFields(line.fields).ok /\ acts.ok /\ g = [parsed EXCEPT !.Actions = acts.v]
  <2> DEFINE actsRead == marshalFunctions([i \in DOMAIN line.actions |-> parseAction(line.actions[i])])
  <2> HIDE DEF line
  <2>1. /\ ~WithDrop(line.actions) /\ ParseFields(line.fields).ok /\ actsRead.ok
        /\ UnmarshalFlow(line).v = [ParseFields(line.fields).v EXCEPT !.Actions = actsRead.v]
    BY UnmarshalledIs
  <2>2. line.actions = aa
    BY <1>7
  <2>3. actsRead = acts
    BY <2>2, Zenon
  <2> HIDE DEF actsRead, acts
  <2> QED BY <2>1, <2>2, <2>3
<1>9. parsed = ReadFrom(f, mm)
  <2>1. \E B : LineParts(f, mm) \in Seq(B)
    BY <1>2, PartsType
  <2>2. Reads(NewFlow, LineParts(f, mm), parsed)
    BY <2>1, <1>7, <1>8, EachFieldRead
  <2>3. \A i \in 1 .. Len(mm) : AddsItsMatch(mm[i])
    BY <1>4, TextIsRead
  <2>4. f.Protocol = Word(f.Protocol.t)
    BY DEF FlowReadable
  <2> HIDE DEF parsed
  <2> QED BY <2>2, <2>3, <2>4, <1>2, LineReadAs
<1> HIDE DEF parsed, line, g, text
<1>10. /\ g.Priority = f.Priority /\ g.Protocol = f.Protocol /\ g.InPort = f.InPort /\ g.Table = f.Table
       /\ g.IdleTimeout = f.IdleTimeout /\ g.Cookie = ReadCookie(f)
       /\ g.Matches = FirstMatches(mm, Len(mm)) /\ g.Actions = acts.v
  <2> HIDE DEF acts
  <2> QED BY <1>8, <1>9 DEF ReadFrom, FlowWith
<1>11. marshalMatches(g.Matches) = Ok(mm)
  <2> DEFINE results == [i \in DOMAIN g.Matches |-> MarshalMatch(g.Matches[i])]
  <2>1. Len(mm) \in Nat
    BY <1>2
  <2>2. DOMAIN g.Matches = 1 .. Len(mm) /\ \A i \in 1 .. Len(mm) : g.Matches[i] = Parsed(mm[i])
    BY <1>10 DEF FirstMatches
  <2>3. DOMAIN results = 1 .. Len(mm) /\ \A i \in 1 .. Len(mm) : results[i] = Ok(mm[i])
    BY <2>2, <1>4, TextIsRead
  <2>4. marshalMatches(g.Matches) = marshalFunctions(results)
    BY Zenon DEF marshalMatches
  <2> HIDE DEF results
  <2> QED BY <2>3, <2>4, <1>2, FunctionsSucceed
<1>12. g.Actions # <<>> /\ marshalActions(g.Actions) = Ok(aa)
  <2> DEFINE parse == [i \in DOMAIN aa |-> parseAction(aa[i])]
             results == [i \in DOMAIN g.Actions |-> MarshalAction(g.Actions[i])]
  <2>1. DOMAIN aa = 1 .. Len(aa) /\ Len(aa) \in Nat /\ Len(aa) # 0
    BY <1>3, <1>6
  <2>2. acts.v = [i \in DOMAIN parse |-> parse[i].v] /\ \A i \in DOMAIN parse : parse[i].ok
    BY <1>8, FunctionsMarshalled
  <2>3. /\ DOMAIN g.Actions = 1 .. Len(aa)
        /\ \A i \in 1 .. Len(aa) : parseAction(aa[i]).ok /\ g.Actions[i] = parseAction(aa[i]).v
    <3>1. DOMAIN parse = 1 .. Len(aa) /\ \A i \in 1 .. Len(aa) : parse[i] = parseAction(aa[i])
      BY <2>1
    <3>2. g.Actions = acts.v
      BY <1>10
    <3> HIDE DEF parse, acts
    <3>3. g.Actions = [i \in DOMAIN parse |-> parse[i].v]
      BY <3>2, <2>2, Zenon
    <3> QED BY <3>1, <3>3, <2>2
  <2>4. g.Actions # <<>>
    BY <2>1, <2>3
  <2>5. DOMAIN results = 1 .. Len(aa) /\ \A i \in 1 .. Len(aa) : results[i] = Ok(aa[i])
    BY <2>3, <1>5 DEF ActionReadable
  <2>6. marshalActions(g.Actions) = marshalFunctions(results)
    BY Zenon DEF marshalActions
  <2> HIDE DEF results
  <2> QED BY <2>4, <2>5, <2>6, <1>3, FunctionsSucceed
<1>13. MarshalFlow(g) = Ok([fields |-> FlowFields(g, mm), actions |-> aa])
  BY <1>8, <1>11, <1>12, PrintedFrom
<1>14. FlowFields(g, mm) = FlowFields(f, mm)
  <2>1. CookieField(g.Cookie) = CookieField(f.Cookie)
    <3>1. CASE f.Cookie > 0
      BY <3>1, <1>10, Zenon DEF ReadCookie
    <3>2. CASE ~(f.Cookie > 0)
      <4>1. g.Cookie = 0
        BY <3>2, <1>10, Zenon DEF ReadCookie
      <4>2. ~(g.Cookie > 0)
        BY <4>1
      <4>3. CookieField(g.Cookie) = <<>> /\ CookieField(f.Cookie) = <<>>
        BY <4>2, <3>2, Zenon DEF CookieField, When
      <4> QED BY <4>3
    <3> QED BY <3>1, <3>2, Zenon
  <2> QED BY <2>1, <1>10, Zenon DEF FlowFields
<1> QED BY <1>1, <1>13, <1>14, Zenon DEF g, text
=============================================================================
