------------------------------- MODULE Dumps -------------------------------
(***************************************************************************)
(* The statistics that ovs-ofctl prints over several lines: parseEach      *)
(* (ovs/openflow.go) with the port statistics (ovs/portstats.go) and the   *)
(* tables (ovs/table.go), and dump-aggregate (ovs/flowstats.go).           *)
(*                                                                         *)
(* A line is told apart by its shape: what the numbers of a line are       *)
(* called and how they are written is left out, a counter is a number, or  *)
(* Unknown where the command prints a question mark.  The banners are      *)
(* "PORT" and "TABLE" (OFPST_PORT reply, OFPST_TABLE reply), and           *)
(* "PORT_OF13" with the version of OpenFlow behind it.  The line of a      *)
(* table has its name before a colon, or a blank between, or no colon.     *)
(***************************************************************************)
EXTENDS Integers, Sequences, SequencesExt, FiniteSetsExt, TLC

Panic == [end |-> "panic", v |-> <<>>]
Done(v) == [end |-> "ok", v |-> v]
Error(v) == [end |-> "error", v |-> v]    \* the values before the error are returned, too

Unknown == -2
PortLocal == -1                           \* what LOCAL is read as

Line(shape, id, n) == [shape |-> shape, id |-> id, n |-> n]

(* The lines of one port (rx, tx, then possibly its duration and the two   *)
(* lines of its custom statistics), and of one table.                      *)
RxLine(port) == Line("rx", port.id, port.rx)
TxLine(port) == Line("tx", 0, port.tx)
DurationLine == Line("duration", 0, 0)
CustomLine == Line("CUSTOM", 0, 0)
CustomValues == Line("values", 0, 0)

(* External: ovs-ofctl dump-ports and dump-tables, as the comments of      *)
(* parseEach describe them.                                                *)
PrintPort(port, of13) ==
    <<RxLine(port), TxLine(port)>>
      \o (IF ~of13 THEN <<>> ELSE IF ~port.custom THEN <<DurationLine>>
          ELSE <<DurationLine, CustomLine, CustomValues>>)
PrintTable(table) ==
    <<Line(table.shape, table.id, table.active), Line("lookup", table.lookup, table.matched)>>

(* The output under a banner: the lines of each part, one after another. *)
Output(banner, parts) ==
    LET out[i \in 0 .. Len(parts)] ==
            IF i = 0 THEN <<Line(banner, 0, 0)>> ELSE out[i - 1] \o parts[i]
    IN  out[Len(parts)]
PrintPorts(ports, of13) ==
    Output(IF of13 THEN "PORT_OF13" ELSE "PORT", [i \in DOMAIN ports |-> PrintPort(ports[i], of13)])
PrintTables(tables) == Output("TABLE", [i \in DOMAIN tables |-> PrintTable(tables[i])])

-----------------------------------------------------------------------------
(* Parsing                                                                 *)

Counter(n) == IF n = Unknown THEN 0 ELSE n

(* The two lines together must have 16 words, with port, rx and tx in      *)
(* their places.                                                           *)
UnmarshalPortStats(b) ==
    IF b[1].shape = "rx" /\ b[2].shape = "tx"
    THEN Done([id |-> b[1].id, rx |-> Counter(b[1].n), tx |-> Counter(b[2].n)])
    ELSE Error(<<>>)

(* A table of seven or eight words; without the colon after its name its   *)
(* numbers are looked for one word later, and one of the seven is missing. *)
UnmarshalTable(b) ==
    IF b[1].shape \notin {"name:", "name_:", "name"} \/ b[2].shape # "lookup" THEN Error(<<>>)
    ELSE IF b[1].shape = "name" THEN Panic
    ELSE Done([id |-> b[1].id, active |-> b[1].n, lookup |-> b[2].id, matched |-> b[2].n])

(* Mutant of linesEach: the lines of custom statistics are not skipped. *)
linesEachNoCustom(in) == IF in[1].shape = "PORT_OF13" THEN 3 ELSE 2

(* How many lines parseEach reads for one value: two, one more under a     *)
(* banner of OpenFlow 1.x, and two more if CUSTOM stands anywhere.         *)
linesEach(in) ==
    IF in[1].shape # "PORT_OF13" THEN 2
    ELSE IF \E i \in DOMAIN in : in[i].shape = "CUSTOM" THEN 5 ELSE 3

(* The value of the i-th group of k lines, of which the first two are read. *)
GroupValue(in, k, i, type) ==
    LET b == SubSeq(in, k * (i - 1) + 2, k * (i - 1) + 3)
    IN  IF type = "PortStats" THEN UnmarshalPortStats(b) ELSE UnmarshalTable(b)

(* parseEach: the values of the groups of lines, up to the first error; a  *)
(* last group that is too short is one.                                    *)
parseEach(in, banners, type) ==
    LET k      == linesEach(in)
        groups == (Len(in) - 1) \div k
        value  == [i \in 1 .. groups |-> GroupValue(in, k, i, type)]
        bad    == {i \in 1 .. groups : value[i].end # "ok"}
        upto(n) == [i \in 1 .. n |-> value[i].v]
    IN  IF in = <<>> THEN Error(<<>>)
        ELSE IF in[1].shape \notin banners THEN Error(<<>>)
        ELSE IF bad # {} THEN [end |-> value[Min(bad)].end, v |-> upto(Min(bad) - 1)]
        ELSE IF groups * k # Len(in) - 1 THEN Error(upto(groups))
        ELSE Done(upto(groups))

DumpPorts(in) ==
    parseEach(in, {"PORT", "PORT_OF13"}, "PortStats")

(* DumpPort: exactly one port, otherwise errMultipleValues. *)
DumpPort(in) ==
    LET r == DumpPorts(in)
    IN  IF r.end = "ok" /\ Len(r.v) = 1 THEN Done(r.v) ELSE [r EXCEPT !.end = IF @ = "ok" THEN "error" ELSE @]

(* DumpTables leaves out the tables that were never used. *)
KeepUsed(kept, t) ==
    IF t.active = 0 /\ t.lookup = 0 /\ t.matched = 0 THEN kept ELSE Append(kept, t)
UsedTables(v) ==
    LET kept[i \in 0 .. Len(v)] == IF i = 0 THEN <<>> ELSE KeepUsed(kept[i - 1], v[i])
    IN  kept[Len(v)]
DumpTables(in) ==
    LET r == parseEach(in, {"TABLE"}, "Table") IN [r EXCEPT !.v = UsedTables(@)]

(* dump-aggregate: packet_count, byte_count and flow_count, in this order  *)
(* and at the end of the output.                                           *)
UnmarshalFlowStats(words) ==
    LET from == {i \in DOMAIN words : words[i].key = "packet_count"}
        last == SubSeq(words, Min(from), Len(words))
    IN  IF from = {} THEN Error(<<>>)
        ELSE IF [i \in DOMAIN last |-> last[i].key] # <<"packet_count", "byte_count", "flow_count">>
             THEN Error(<<>>)
        ELSE Done(<<last[1].n, last[2].n>>)

-----------------------------------------------------------------------------
(* Properties                                                              *)

(* The result of DumpPorts is what was printed: with no error, every port  *)
(* in its order with its own counters, a question mark read as zero.  This *)
(* holds though the number of lines of a port is guessed once for the      *)
(* whole output; a guess that is wrong for one port ends in an error, and  *)
(* the ports returned along with it are right, too.                        *)
PortsExact(ports, of13) ==
    LET r == DumpPorts(PrintPorts(ports, of13))
        stats(p) == [id |-> p.id, rx |-> Counter(p.rx), tx |-> Counter(p.tx)]
        same == \A i, j \in DOMAIN ports : ports[i].custom = ports[j].custom
        want == [i \in DOMAIN ports |-> stats(ports[i])]
    IN  /\ r.end # "panic"
        /\ r.end = "ok" <=> (same \/ ~of13)
        /\ IsPrefix(r.v, want)
        /\ r.end = "ok" => r.v = want

(* Tables with any of the two spellings of a name are read exactly and in  *)
(* their order, but for those without any use, which are left out.         *)
TablesExact(tables) ==
    LET r        == DumpTables(PrintTables(tables))
        used     == {i \in DOMAIN tables : tables[i].active + tables[i].lookup + tables[i].matched # 0}
        stats(t) == [id |-> t.id, active |-> t.active, lookup |-> t.lookup, matched |-> t.matched]
    IN  /\ r.end = "ok"
        /\ \E place \in [DOMAIN r.v -> used] :
              /\ \A i \in used : \E k \in DOMAIN r.v : place[k] = i
              /\ \A k, l \in DOMAIN r.v : k < l => place[k] < place[l]
              /\ \A k \in DOMAIN r.v : r.v[k] = stats(tables[place[k]])

(* The totals of dump-aggregate are the numbers of the last words, which   *)
(* are its three counters.                                                 *)
AggregateExact(words) ==
    LET r == UnmarshalFlowStats(words)
        n == Len(words)
    IN  r.end = "ok" =>
            /\ words[n - 2].key = "packet_count" /\ r.v[1] = words[n - 2].n
            /\ words[n - 1].key = "byte_count" /\ r.v[2] = words[n - 1].n
=============================================================================
