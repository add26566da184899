------------------------------ MODULE CtLimits ------------------------------
(***************************************************************************)
(* The limits of connection tracking (GetCTLimits and SetCTLimits of       *)
(* ovs/datapath.go).  A reply is the sequence of its lines; a line is a    *)
(* sequence of fields key=number, and tells whether it holds the word      *)
(* "default".                                                              *)
(***************************************************************************)
EXTENDS Integers, Sequences, SequencesExt, FiniteSets

CtField(key, n) == [key |-> key, n |-> n, eq |-> TRUE, num |-> TRUE]
CtWord(key) == [key |-> key, n |-> 0, eq |-> TRUE, num |-> FALSE]   \* key= and no number
NoField == [key |-> "none", n |-> 0, eq |-> FALSE, num |-> FALSE]   \* of an empty line
CtFields ==
    [key : {"default", "zone", "limit", "count", "none"}, n : Int, eq : BOOLEAN, num : BOOLEAN]

CtLine(default, fields) == [default |-> default, fields |-> fields]
CtLines == [default : BOOLEAN, fields : Seq(CtFields)]

(* External: ovs-dpctl ct-get-limits. *)
DefaultLine(n) == CtLine(TRUE, <<CtField("default", n)>>)
ZoneLine(zone, limit) ==
    CtLine(FALSE, <<CtField("zone", zone), CtField("limit", limit), CtField("count", 0)>>)
EmptyLine == CtLine(FALSE, <<NoField>>)

-----------------------------------------------------------------------------
(* The loop that takes the default limit out of the lines ranges over the  *)
(* slice as it was, whose elements the removal moves down: array is the    *)
(* memory, len the length of the slice entries.                            *)
CtStart(reply) == [array |-> reply, len |-> Len(reply), limit |-> <<>>, end |-> "ok"]

(* strconv.Atoi(strings.Split(entry, "=")[1]) of a default line: what      *)
(* follows the first = up to the next one, which is a number only when the *)
(* last field is the one with a =.                                         *)
DefaultEnd(fields) ==
    LET eqs == {j \in DOMAIN fields : fields[j].eq}
    IN  IF eqs = {} THEN "panic"
        ELSE IF eqs = {Len(fields)} /\ fields[Len(fields)].num THEN "ok"
        ELSE "error"
DefaultValue(fields) == fields[Len(fields)].n

(* Mutant of CtStep: one element too many is moved away. *)
CtStepTwo(s, i) ==
    IF s.array[i].default /\ s.end = "ok"
    THEN [s EXCEPT !.limit = <<DefaultValue(s.array[i].fields)>>, !.end = DefaultEnd(s.array[i].fields),
                   !.len = IF @ > i THEN @ - 2 ELSE @ - 1,
                   !.array = [j \in DOMAIN @ |-> IF i <= j /\ j + 2 <= s.len THEN @[j + 2] ELSE @[j]]]
    ELSE s

CtStep(s, i) ==
    LET entry == s.array[i]
    IN  IF s.end # "ok" \/ ~entry.default THEN s
        ELSE IF DefaultEnd(entry.fields) # "ok" THEN [s EXCEPT !.end = DefaultEnd(entry.fields)]
        ELSE IF i > s.len THEN [s EXCEPT !.end = "panic"]
        ELSE [s EXCEPT !.limit = <<DefaultValue(entry.fields)>>,
                       !.array = [j \in DOMAIN @ |-> IF i <= j /\ j < s.len THEN @[j + 1] ELSE @[j]],
                       !.len = @ - 1]

(* The loop goes over as many lines as there were at first. *)
CtLoop(reply) ==
    LET loop[i \in 0 .. Len(reply)] ==
            IF i = 0 THEN CtStart(reply) ELSE CtStep(loop[i - 1], i)
    IN  loop[Len(reply)]

(* The zones: a map of each line; a field without = has no buf[1], and one *)
(* without a number is read as 0.                                          *)
GetCTLimits(reply) ==
    LET s     == CtLoop(reply)
        zones == SubSeq(s.array, 1, s.len)
        bad   == \E i \in DOMAIN zones : \E j \in DOMAIN zones[i].fields : ~zones[i].fields[j].eq
    IN  [end |-> IF s.end = "ok" /\ bad THEN "panic" ELSE s.end,
         limit |-> s.limit, zones |-> [i \in DOMAIN zones |-> zones[i].fields]]

(* ctSetLimitsArgsToString: other keys are left out; the order of the      *)
(* arguments is that of the map, which is any.                             *)
ctSetLimitsArgs(keys) ==
    LET args == keys \cap {"default", "zone", "limit"}
        n    == Cardinality(args)
    IN  [ok |-> /\ n \in {1, 2}
                /\ "default" \in args => n = 1
                /\ "default" \notin args => n = 2,
         args |-> args]

-----------------------------------------------------------------------------
(* Properties                                                              *)

(* Every line has a field, every field its =, and a default line is one    *)
(* number.                                                                 *)
Readable(reply) ==
    \A i \in DOMAIN reply :
        /\ reply[i].fields # <<>>
        /\ \A j \in DOMAIN reply[i].fields : reply[i].fields[j].eq
        /\ reply[i].default => DefaultEnd(reply[i].fields) = "ok"

(* A reply with at most one default line, in any place, and any zones is   *)
(* read exactly: the default limit, and the other lines in their order, no *)
(* line lost or read twice by the removal from the slice in the loop; a    *)
(* default line that is no number is an error, never a limit.              *)
LimitsExact(reply) ==
    LET defaults      == {i \in DOMAIN reply : reply[i].default}
        zonesOf(rest) == [i \in DOMAIN rest |-> rest[i].fields]
        exactly(limit, rest) ==
            GetCTLimits(reply) = [end |-> "ok", limit |-> limit, zones |-> zonesOf(rest)]
    IN  /\ Readable(reply) =>
              /\ defaults = {} => exactly(<<>>, reply)
              /\ \A k \in defaults :
                    defaults = {k} => exactly(<<DefaultValue(reply[k].fields)>>, RemoveAt(reply, k))
        /\ \A k \in defaults :
              (defaults = {k} /\ DefaultEnd(reply[k].fields) = "error")
                  => GetCTLimits(reply).end = "error"
=============================================================================
