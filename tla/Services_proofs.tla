---------------------------- MODULE Services_proofs ----------------------------
(***************************************************************************)
(* Proofs about the services that keep their state in another process:     *)
(* VSwitchService over a shared database (VSwitch), for any set of         *)
(* bridges, ports and options, and DataPathService (DataPath) with the     *)
(* reading of its replies (CtLimits), for any number of lines, zones and   *)
(* limits.                                                                 *)
(*                                                                         *)
(* The invariant CallsInv says that the database is well formed, that a    *)
(* call which was carried out may be made again, and that what was read is *)
(* there.  Its step is proved once for all the calls that change the       *)
(* database (ExecStep) and once for those that read (QueryStep).  Database *)
(* asks for more than VSwitchTypeOK does: finitely many bridges and ports, *)
(* without which the sequences that ovs-vsctl lists would not exist.       *)
(*                                                                         *)
(* The loop of GetCTLimits is solved by a guess at its states after each   *)
(* line, which the recursion determines (LoopIs): nothing is removed       *)
(* before the default line, and one line from there on.  That a reply with *)
(* one default line is read exactly (LimitsAreExact) is then used for what *)
(* the kernel answers.                                                     *)
(***************************************************************************)
EXTENDS VSwitch, DataPath, FiniteSetTheorems, WellFoundedInduction, TLAPS

-----------------------------------------------------------------------------
(* VSwitchService *)

(* The databases that the calls can make. *)
Database(d) ==
    /\ DOMAIN d.bridges \subseteq Bridges /\ DOMAIN d.ports \subseteq PortNames
    /\ d \in [bridges : [DOMAIN d.bridges -> [BridgeColumns -> Nat]],
              ports : [DOMAIN d.ports -> [bridge : DOMAIN d.bridges, set : [OptionNames -> Nat]]]]
    /\ IsFiniteSet(DOMAIN d.bridges) /\ IsFiniteSet(DOMAIN d.ports)

(* The sequence of a finite set lists each of its elements once.           *)
LEMMA SetToSeqExact ==
  ASSUME NEW S, IsFiniteSet(S)
  PROVE  /\ DOMAIN SetToSeq(S) = 1 .. Cardinality(S)
         /\ SetToSeq(S) \in Seq(S) /\ Len(SetToSeq(S)) = Cardinality(S)
         /\ ToSet(SetToSeq(S)) = S
<1> DEFINE n == Cardinality(S)
<1>1. n \in Nat /\ ExistsBijection(1 .. n, S)
  BY FS_CardinalityType
<1>2. PICK f \in [1 .. n -> S] : IsInjective(f)
  BY <1>1 DEF ExistsBijection, Bijection, Injection, IsInjective
<1>3. SetToSeq(S) \in [1 .. n -> S] /\ IsInjective(SetToSeq(S))
  BY <1>2 DEF SetToSeq
<1>4. IsFiniteSet(1 .. n) /\ Cardinality(1 .. n) = n
  BY <1>1, FS_Interval
<1>5. SetToSeq(S) \in Surjection(1 .. n, S)
  BY <1>3, <1>4, FS_Injection DEF Injection, IsInjective
<1>6. ToSet(SetToSeq(S)) = S
  BY <1>3, <1>5 DEF Surjection, ToSet
<1>7. SetToSeq(S) \in Seq(S) /\ Len(SetToSeq(S)) = n
  BY <1>1, <1>3
<1> QED BY <1>3, <1>6, <1>7

(* Values for some of the columns or options. *)
Assigns(set, names) == DOMAIN set \subseteq names /\ \A c \in DOMAIN set : set[c] \in Nat

(* Which command each call that changes the database runs. *)
Change(cmd, o) ==
    \/ cmd.name \in {"add-br", "del-br"} /\ cmd.opt # "none" /\ cmd.args[1] \in Bridges
    \/ /\ cmd.name \in {"add-port", "del-port"} /\ cmd.opt # "none"
       /\ cmd.args[1] \in Bridges /\ cmd.args[2] \in PortNames
    \/ cmd.name = "set bridge" /\ Assigns(cmd.set, BridgeColumns)
    \/ /\ cmd.name = "set interface" /\ o \in InterfaceCalls /\ cmd.set = slice(o)

Reading(cmd) == cmd.name \in {"list-br", "list-ports", "port-to-br", "get bridge"}

(* The options that slice gives to the command have values, and the call   *)
(* named them.                                                             *)
LEMMA SliceType ==
    ASSUME NEW o \in InterfaceCalls
    PROVE  /\ Assigns(slice(o), OptionNames)
           /\ \A c \in DOMAIN slice(o) : o[c] # 0
BY CallsAssumption DEF slice, Assigns

(* The types of the columns of a bridge and of a port. *)
Columns == [BridgeColumns -> Nat]
Port(B) == [bridge : B, set : [OptionNames -> Nat]]

(* The parts of a database.                                                *)
LEMMA DatabaseFields ==
    ASSUME NEW d, Database(d)
    PROVE  /\ d = [bridges |-> d.bridges, ports |-> d.ports]
           /\ d.bridges \in [DOMAIN d.bridges -> Columns]
           /\ d.ports \in [DOMAIN d.ports -> Port(DOMAIN d.bridges)]
           /\ IsFiniteSet(DOMAIN d.bridges) /\ DOMAIN d.bridges \subseteq Bridges
           /\ IsFiniteSet(DOMAIN d.ports) /\ DOMAIN d.ports \subseteq PortNames
BY DEF Database, Columns, Port

(* A database made of bridges, and of ports on these bridges.              *)
LEMMA DatabaseMade ==
    ASSUME NEW B \in SUBSET Bridges, IsFiniteSet(B), NEW b \in [B -> Columns],
           NEW P \in SUBSET PortNames, IsFiniteSet(P), NEW p \in [P -> Port(B)]
    PROVE  Database([bridges |-> b, ports |-> p])
BY DEF Database, Columns, Port

(* Writing a field of a record again changes nothing.                      *)
LEMMA SameField ==
    ASSUME NEW e, NEW b, NEW p, e = [bridges |-> b, ports |-> p]
    PROVE  [e EXCEPT !.bridges = b] = e /\ [e EXCEPT !.ports = p] = e
OBVIOUS

(* The change of a database that adds or deletes bridge x or port y ... *)
LEMMA AddBridgeMakes ==
    ASSUME NEW d, Database(d), NEW x \in Bridges, x \notin DOMAIN d.bridges,
           NEW e, e = WithBridge(d, x)
    PROVE  Database(e) /\ x \in DOMAIN e.bridges /\ e.ports = d.ports
<1> DEFINE B == DOMAIN d.bridges
           b == Over(Single(x, NewBridge), d.bridges)
<1>0. /\ d = [bridges |-> d.bridges, ports |-> d.ports]
      /\ d.bridges \in [B -> Columns]
      /\ d.ports \in [DOMAIN d.ports -> Port(B)]
      /\ IsFiniteSet(B) /\ B \subseteq Bridges
      /\ IsFiniteSet(DOMAIN d.ports) /\ DOMAIN d.ports \subseteq PortNames
  BY DatabaseFields
<1>1. e = [bridges |-> b, ports |-> d.ports]
  BY <1>0 DEF WithBridge
<1>2. IsFiniteSet(B \cup {x}) /\ B \cup {x} \subseteq Bridges
  BY <1>0, FS_AddElement
<1>3. b \in [B \cup {x} -> Columns]
  BY <1>0 DEF Over, Single, NewBridge, Columns
<1>4. d.ports \in [DOMAIN d.ports -> Port(B \cup {x})]
  BY <1>0 DEF Port
<1> HIDE DEF b, B
<1>5. Database([bridges |-> b, ports |-> d.ports])
  BY <1>0, <1>2, <1>3, <1>4, DatabaseMade
<1>6. e.bridges = b /\ e.ports = d.ports
  BY <1>1
<1>7. x \in DOMAIN b
  BY <1>3
<1> QED BY <1>1, <1>5, <1>6, <1>7

(* ... without a bridge and its ports: no port loses its bridge.           *)
LEMMA DeleteBridgeMakes ==
    ASSUME NEW d, Database(d), NEW x,
           NEW e, e = WithoutBridge(d, x)
    PROVE  /\ Database(e) /\ x \notin DOMAIN e.bridges
           /\ \A p \in DOMAIN e.ports : e.ports[p] = d.ports[p]
<1> DEFINE B == DOMAIN d.bridges \ {x}
           P == DOMAIN d.ports \ PortsOf(d, x)
<1>0. /\ d.bridges \in [DOMAIN d.bridges -> Columns]
      /\ d.ports \in [DOMAIN d.ports -> Port(DOMAIN d.bridges)]
      /\ IsFiniteSet(DOMAIN d.bridges) /\ DOMAIN d.bridges \subseteq Bridges
      /\ IsFiniteSet(DOMAIN d.ports) /\ DOMAIN d.ports \subseteq PortNames
  BY DatabaseFields
<1>1. IsFiniteSet(B) /\ B \subseteq Bridges /\ IsFiniteSet(P) /\ P \subseteq PortNames
  BY <1>0, FS_Subset
<1>2. Without(d.bridges, {x}) \in [B -> Columns]
  BY <1>0 DEF Without
<1>3. Without(d.ports, PortsOf(d, x)) \in [P -> Port(B)]
  BY <1>0 DEF Without, PortsOf, Port
<1> HIDE DEF B, P
<1>4. e = [bridges |-> Without(d.bridges, {x}), ports |-> Without(d.ports, PortsOf(d, x))]
  BY DEF WithoutBridge
<1>5. Database(e)
  BY <1>1, <1>2, <1>3, <1>4, DatabaseMade
<1> QED BY <1>2, <1>4, <1>5 DEF Without, B

(* ... with a new port on a bridge.                                        *)
LEMMA AddPortMakes ==
    ASSUME NEW d, Database(d), NEW x \in DOMAIN d.bridges, NEW y \in PortNames,
           y \notin DOMAIN d.ports,
           NEW e, e = WithPort(d, x, y)
    PROVE  /\ Database(e) /\ e.bridges = d.bridges
           /\ y \in DOMAIN e.ports /\ e.ports[y].bridge = x
           /\ \A p \in DOMAIN d.ports : e.ports[p] = d.ports[p]
<1> DEFINE P == DOMAIN d.ports
           f == Over(Single(y, NewPort(x)), d.ports)
<1>0. /\ d = [bridges |-> d.bridges, ports |-> d.ports]
      /\ d.bridges \in [DOMAIN d.bridges -> Columns]
      /\ d.ports \in [P -> Port(DOMAIN d.bridges)]
      /\ IsFiniteSet(DOMAIN d.bridges) /\ DOMAIN d.bridges \subseteq Bridges
      /\ IsFiniteSet(P) /\ P \subseteq PortNames
  BY DatabaseFields
<1>1. e = [bridges |-> d.bridges, ports |-> f]
  BY <1>0 DEF WithPort
<1>2. IsFiniteSet(P \cup {y}) /\ P \cup {y} \subseteq PortNames
  BY <1>0, FS_AddElement
<1>3. NewPort(x) \in Port(DOMAIN d.bridges) /\ NewPort(x).bridge = x
  BY DEF NewPort, NoOptions, Port
<1>4. f \in [P \cup {y} -> Port(DOMAIN d.bridges)] /\ f[y] = NewPort(x)
      /\ \A p \in P : f[p] = d.ports[p]
  BY <1>0, <1>3 DEF Over, Single
<1> HIDE DEF f, P
<1>5. Database(e)
  BY <1>0, <1>1, <1>2, <1>4, DatabaseMade
<1>6. e.bridges = d.bridges /\ e.ports = f
  BY <1>1
<1>7. y \in DOMAIN f
  BY <1>4
<1> QED BY <1>3, <1>4, <1>5, <1>6, <1>7 DEF P

(* ... without a port.                                                     *)
LEMMA DeletePortMakes ==
    ASSUME NEW d, Database(d), NEW y,
           NEW e, e = WithoutPort(d, y)
    PROVE  /\ Database(e) /\ e.bridges = d.bridges /\ y \notin DOMAIN e.ports
           /\ \A p \in DOMAIN e.ports : e.ports[p] = d.ports[p]
<1> DEFINE P == DOMAIN d.ports \ {y}
           f == Without(d.ports, {y})
<1>0. /\ d = [bridges |-> d.bridges, ports |-> d.ports]
      /\ d.bridges \in [DOMAIN d.bridges -> Columns]
      /\ d.ports \in [DOMAIN d.ports -> Port(DOMAIN d.bridges)]
      /\ IsFiniteSet(DOMAIN d.bridges) /\ DOMAIN d.bridges \subseteq Bridges
      /\ IsFiniteSet(DOMAIN d.ports) /\ DOMAIN d.ports \subseteq PortNames
  BY DatabaseFields
<1>1. e = [bridges |-> d.bridges, ports |-> f]
  BY <1>0 DEF WithoutPort
<1>2. IsFiniteSet(P) /\ P \subseteq PortNames
  BY <1>0, FS_Subset
<1>3. f \in [P -> Port(DOMAIN d.bridges)] /\ \A p \in P : f[p] = d.ports[p]
  BY <1>0 DEF Without
<1> HIDE DEF f, P
<1>4. Database(e)
  BY <1>0, <1>1, <1>2, <1>3, DatabaseMade
<1>5. e.bridges = d.bridges /\ e.ports = f
  BY <1>1
<1>6. DOMAIN f = P
  BY <1>3
<1> QED BY <1>3, <1>4, <1>5, <1>6 DEF P

(* ... or sets columns of a bridge or options of an interface. *)
LEMMA SetBridgeMakes ==
    ASSUME NEW d, Database(d), NEW x \in DOMAIN d.bridges,
           NEW set, Assigns(set, BridgeColumns),
           NEW e, e = WithColumns(d, x, set)
    PROVE  /\ Database(e) /\ e.ports = d.ports /\ x \in DOMAIN e.bridges
           /\ WithColumns(e, x, set) = e
<1> DEFINE B == DOMAIN d.bridges
           b == [d.bridges EXCEPT ![x] = Over(set, @)]
<1>0. /\ d = [bridges |-> d.bridges, ports |-> d.ports]
      /\ d.bridges \in [B -> Columns]
      /\ d.ports \in [DOMAIN d.ports -> Port(B)]
      /\ IsFiniteSet(B) /\ B \subseteq Bridges
      /\ IsFiniteSet(DOMAIN d.ports) /\ DOMAIN d.ports \subseteq PortNames
  BY DatabaseFields
<1>1. e = [bridges |-> b, ports |-> d.ports]
  BY <1>0 DEF WithColumns
<1>2. /\ Over(set, d.bridges[x]) \in Columns
      /\ Over(set, Over(set, d.bridges[x])) = Over(set, d.bridges[x])
  <2>1. d.bridges[x] \in [BridgeColumns -> Nat]
    BY <1>0 DEF Columns
  <2>2. DOMAIN set \subseteq BridgeColumns /\ \A c \in DOMAIN set : set[c] \in Nat
    BY DEF Assigns
  <2> QED BY <2>1, <2>2 DEF Columns, Over
<1>3. b \in [B -> Columns] /\ b = [b EXCEPT ![x] = Over(set, @)]
  BY <1>0, <1>2
<1> HIDE DEF b, B
<1>4. Database(e)
  BY <1>0, <1>1, <1>3, DatabaseMade
<1>5. e.bridges = b /\ e.ports = d.ports
  BY <1>1
<1>6. [e EXCEPT !.bridges = b] = e
  BY <1>1, SameField
<1>7. [e EXCEPT !.bridges[x] = Over(set, @)] = e
  BY <1>3, <1>5, <1>6
<1> QED BY <1>3, <1>4, <1>5, <1>7 DEF B, WithColumns

(* ... with options of an interface set: the others are left alone.        *)
LEMMA SetInterfaceMakes ==
    ASSUME NEW d, Database(d), NEW x \in DOMAIN d.ports,
           NEW set, Assigns(set, OptionNames),
           NEW e, e = WithOptions(d, x, set)
    PROVE  /\ Database(e) /\ DOMAIN e.ports = DOMAIN d.ports
           /\ WithOptions(e, x, set) = e
           /\ \A p \in DOMAIN d.ports : \A c \in OptionNames :
                 \/ e.ports[p].set[c] = d.ports[p].set[c]
                 \/ p = x /\ c \in DOMAIN set
<1> DEFINE P == DOMAIN d.ports
           r == d.ports[x]
           s == Over(set, r.set)
           f == [d.ports EXCEPT ![x] = [bridge |-> r.bridge, set |-> s]]
<1>0. /\ d = [bridges |-> d.bridges, ports |-> d.ports]
      /\ d.bridges \in [DOMAIN d.bridges -> Columns]
      /\ d.ports \in [P -> Port(DOMAIN d.bridges)]
      /\ IsFiniteSet(DOMAIN d.bridges) /\ DOMAIN d.bridges \subseteq Bridges
      /\ IsFiniteSet(P) /\ P \subseteq PortNames
  BY DatabaseFields
<1>1. r = [bridge |-> r.bridge, set |-> r.set] /\ r.bridge \in DOMAIN d.bridges
      /\ r.set \in [OptionNames -> Nat]
  BY <1>0 DEF Port
<1>2. /\ s \in [OptionNames -> Nat] /\ Over(set, s) = s
      /\ \A c \in OptionNames \ DOMAIN set : s[c] = r.set[c]
  <2>1. r.set \in [OptionNames -> Nat]
    BY <1>1
  <2> HIDE DEF r
  <2> QED BY <2>1 DEF s, Over, Assigns
<1>3. [d.ports EXCEPT ![x].set = Over(set, @)] = f
  BY <1>0, <1>1
<1>4. e = [bridges |-> d.bridges, ports |-> f]
  BY <1>0, <1>3 DEF WithOptions
<1>5. f \in [P -> Port(DOMAIN d.bridges)]
  BY <1>0, <1>1, <1>2 DEF Port
<1>6. f[x] = [bridge |-> r.bridge, set |-> s] /\ \A p \in P \ {x} : f[p] = d.ports[p]
  BY <1>0
<1> HIDE DEF f, P, s
<1>7. [f EXCEPT ![x].set = Over(set, @)] = f
  BY <1>2, <1>5, <1>6 DEF P
<1>8. Database(e)
  BY <1>0, <1>4, <1>5, DatabaseMade
<1>9. e.ports = f
  BY <1>4
<1>12. [e EXCEPT !.ports = f] = e
  <2> HIDE DEF r
  <2>1. \E b, p : e = [bridges |-> b, ports |-> p] /\ f = p
    BY <1>4
  <2> QED BY <2>1, SameField
<1>11. [e EXCEPT !.ports[x].set = Over(set, @)] = e
  BY <1>7, <1>9, <1>12
<1>10. ASSUME NEW p \in P, NEW c \in OptionNames
       PROVE  e.ports[p].set[c] = d.ports[p].set[c] \/ (p = x /\ c \in DOMAIN set)
  BY <1>2, <1>4, <1>6 DEF P
<1> QED BY <1>5, <1>8, <1>9, <1>10, <1>11 DEF P, WithOptions

(* What ovs-vsctl answers to each command. *)
LEMMA VsctlAddBridge ==
    ASSUME NEW cmd, NEW d, cmd.name = "add-br", cmd.opt # "none"
    PROVE  Vsctl(cmd, d) =
              IF cmd.args[1] \in DOMAIN d.bridges THEN Accepted(d, <<>>)
              ELSE Accepted(WithBridge(d, cmd.args[1]), <<>>)
BY DEF Vsctl

(* ... to del-br --if-exists.                                              *)
LEMMA VsctlDeleteBridge ==
    ASSUME NEW cmd, NEW d, cmd.name = "del-br", cmd.opt # "none"
    PROVE  Vsctl(cmd, d) =
              IF cmd.args[1] \notin DOMAIN d.bridges THEN Accepted(d, <<>>)
              ELSE Accepted(WithoutBridge(d, cmd.args[1]), <<>>)
BY DEF Vsctl

(* ... to add-port --may-exist.                                            *)
LEMMA VsctlAddPort ==
    ASSUME NEW cmd, NEW d, cmd.name = "add-port", cmd.opt # "none"
    PROVE  Vsctl(cmd, d) =
              IF cmd.args[1] \notin DOMAIN d.bridges THEN Refused
              ELSE IF cmd.args[2] \in DOMAIN d.ports
                   THEN IF d.ports[cmd.args[2]].bridge = cmd.args[1] THEN Accepted(d, <<>>)
                        ELSE Refused
              ELSE Accepted(WithPort(d, cmd.args[1], cmd.args[2]), <<>>)
BY DEF Vsctl

(* ... to del-port --if-exists.                                            *)
LEMMA VsctlDeletePort ==
    ASSUME NEW cmd, NEW d, cmd.name = "del-port", cmd.opt # "none"
    PROVE  Vsctl(cmd, d) =
              IF cmd.args[2] \notin DOMAIN d.ports THEN Accepted(d, <<>>)
              ELSE IF d.ports[cmd.args[2]].bridge # cmd.args[1] THEN Refused
              ELSE Accepted(WithoutPort(d, cmd.args[2]), <<>>)
BY DEF Vsctl

(* ... to set bridge.                                                      *)
LEMMA VsctlSetBridge ==
    ASSUME NEW cmd, NEW d, cmd.name = "set bridge"
    PROVE  Vsctl(cmd, d) =
              IF cmd.args[1] \notin DOMAIN d.bridges \/ DOMAIN cmd.set = {} THEN Refused
              ELSE Accepted(WithColumns(d, cmd.args[1], cmd.set), <<>>)
BY DEF Vsctl

(* ... to set interface.                                                   *)
LEMMA VsctlSetInterface ==
    ASSUME NEW cmd, NEW d, cmd.name = "set interface"
    PROVE  Vsctl(cmd, d) =
              IF cmd.args[1] \notin DOMAIN d.ports \/ DOMAIN cmd.set = {} THEN Refused
              ELSE Accepted(WithOptions(d, cmd.args[1], cmd.set), <<>>)
BY DEF Vsctl

(* ... and to the commands that read.                                      *)
LEMMA VsctlReads ==
    ASSUME NEW cmd, NEW d
    PROVE  /\ cmd.name = "list-br" => Vsctl(cmd, d) = Accepted(d, SetToSeq(DOMAIN d.bridges))
           /\ cmd.name = "list-ports" => Vsctl(cmd, d) =
                IF cmd.args[1] \in DOMAIN d.bridges
                THEN Accepted(d, SetToSeq(PortsOf(d, cmd.args[1]))) ELSE Refused
           /\ cmd.name = "port-to-br" => Vsctl(cmd, d) =
                IF cmd.args[1] \in DOMAIN d.ports
                THEN Accepted(d, <<d.ports[cmd.args[1]].bridge>>) ELSE Refused
           /\ cmd.name = "get bridge" => Vsctl(cmd, d) =
                IF cmd.args[1] \in DOMAIN d.bridges
                THEN Accepted(d, <<d.bridges[cmd.args[1]][cmd.args[2]]>>) ELSE Refused
BY DEF Vsctl

(* No option of an interface is changed but those that the call names. *)
OthersKept(cmd, o, d, e) ==
    \A p \in DOMAIN d.ports \cap DOMAIN e.ports : \A c \in OptionNames :
       \/ e.ports[p].set[c] = d.ports[p].set[c]
       \/ cmd.name = "set interface" /\ cmd.args[1] = p /\ o[c] # 0

(* Each command, when it is carried out, makes a database of a database,   *)
(* in which the same command is accepted and changes nothing.              *)
Repeatable(cmd, o, d, e) ==
    /\ Database(e)
    /\ Vsctl(cmd, e) = Accepted(e, <<>>)
    /\ OthersKept(cmd, o, d, e)

(* AddBridge can be made again (--may-exist).                              *)
LEMMA AddBridgeRepeatable ==
    ASSUME NEW cmd, NEW o, NEW d, Database(d), cmd.name = "add-br", cmd.opt # "none",
           cmd.args[1] \in Bridges
    PROVE  \E e : Vsctl(cmd, d) = Accepted(e, <<>>) /\ Repeatable(cmd, o, d, e)
<1>1. CASE cmd.args[1] \in DOMAIN d.bridges
  <2>1. Vsctl(cmd, d) = Accepted(d, <<>>)
    BY <1>1, VsctlAddBridge
  <2> QED BY <2>1 DEF Repeatable, OthersKept
<1>2. CASE cmd.args[1] \notin DOMAIN d.bridges
  <2>e. PICK e : e = WithBridge(d, cmd.args[1])
    OBVIOUS
  <2>1. Vsctl(cmd, d) = Accepted(e, <<>>)
    BY <2>e, <1>2, VsctlAddBridge
  <2>2. Database(e) /\ cmd.args[1] \in DOMAIN e.bridges /\ e.ports = d.ports
    BY <2>e, <1>2, AddBridgeMakes
  <2>3. Vsctl(cmd, e) = Accepted(e, <<>>)
    BY <2>2, VsctlAddBridge
  <2> QED BY <2>1, <2>2, <2>3 DEF Repeatable, OthersKept
<1> QED BY <1>1, <1>2

(* DeleteBridge can be made again (--if-exists).                           *)
LEMMA DeleteBridgeRepeatable ==
    ASSUME NEW cmd, NEW o, NEW d, Database(d), cmd.name = "del-br", cmd.opt # "none"
    PROVE  \E e : Vsctl(cmd, d) = Accepted(e, <<>>) /\ Repeatable(cmd, o, d, e)
<1>1. CASE cmd.args[1] \notin DOMAIN d.bridges
  <2>1. Vsctl(cmd, d) = Accepted(d, <<>>)
    BY <1>1, VsctlDeleteBridge
  <2> QED BY <2>1 DEF Repeatable, OthersKept
<1>2. CASE cmd.args[1] \in DOMAIN d.bridges
  <2>e. PICK e : e = WithoutBridge(d, cmd.args[1])
    OBVIOUS
  <2>1. Vsctl(cmd, d) = Accepted(e, <<>>)
    BY <2>e, <1>2, VsctlDeleteBridge
  <2>2. /\ Database(e) /\ cmd.args[1] \notin DOMAIN e.bridges
        /\ \A p \in DOMAIN e.ports : e.ports[p] = d.ports[p]
    BY <2>e, DeleteBridgeMakes
  <2>3. Vsctl(cmd, e) = Accepted(e, <<>>)
    BY <2>2, VsctlDeleteBridge
  <2> QED BY <2>1, <2>2, <2>3 DEF Repeatable, OthersKept
<1> QED BY <1>1, <1>2

(* AddPort can be made again (--may-exist).                                *)
LEMMA AddPortRepeatable ==
    ASSUME NEW cmd, NEW o, NEW d, Database(d), cmd.name = "add-port", cmd.opt # "none",
           cmd.args[2] \in PortNames, Vsctl(cmd, d) # Refused
    PROVE  \E e : Vsctl(cmd, d) = Accepted(e, <<>>) /\ Repeatable(cmd, o, d, e)
<1>0. cmd.args[1] \in DOMAIN d.bridges
  BY VsctlAddPort
<1>1. CASE cmd.args[2] \in DOMAIN d.ports
  <2>1. Vsctl(cmd, d) = Accepted(d, <<>>)
    BY <1>0, <1>1, VsctlAddPort
  <2> QED BY <2>1 DEF Repeatable, OthersKept
<1>2. CASE cmd.args[2] \notin DOMAIN d.ports
  <2>e. PICK e : e = WithPort(d, cmd.args[1], cmd.args[2])
    OBVIOUS
  <2>1. Vsctl(cmd, d) = Accepted(e, <<>>)
    BY <2>e, <1>0, <1>2, VsctlAddPort
  <2>2. /\ Database(e) /\ e.bridges = d.bridges
        /\ cmd.args[2] \in DOMAIN e.ports /\ e.ports[cmd.args[2]].bridge = cmd.args[1]
        /\ \A p \in DOMAIN d.ports : e.ports[p] = d.ports[p]
    BY <2>e, <1>0, <1>2, AddPortMakes
  <2>3. Vsctl(cmd, e) = Accepted(e, <<>>)
    BY <1>0, <2>2, VsctlAddPort
  <2> QED BY <2>1, <2>2, <2>3 DEF Repeatable, OthersKept
<1> QED BY <1>1, <1>2

(* DeletePort can be made again (--if-exists).                             *)
LEMMA DeletePortRepeatable ==
    ASSUME NEW cmd, NEW o, NEW d, Database(d), cmd.name = "del-port", cmd.opt # "none",
           Vsctl(cmd, d) # Refused
    PROVE  \E e : Vsctl(cmd, d) = Accepted(e, <<>>) /\ Repeatable(cmd, o, d, e)
<1>1. CASE cmd.args[2] \notin DOMAIN d.ports
  <2>1. Vsctl(cmd, d) = Accepted(d, <<>>)
    BY <1>1, VsctlDeletePort
  <2> QED BY <2>1 DEF Repeatable, OthersKept
<1>2. CASE cmd.args[2] \in DOMAIN d.ports
  <2>e. PICK e : e = WithoutPort(d, cmd.args[2])
    OBVIOUS
  <2>1. Vsctl(cmd, d) = Accepted(e, <<>>)
    BY <2>e, <1>2, VsctlDeletePort
  <2>2. /\ Database(e) /\ cmd.args[2] \notin DOMAIN e.ports
        /\ \A p \in DOMAIN e.ports : e.ports[p] = d.ports[p]
    BY <2>e, DeletePortMakes
  <2>3. Vsctl(cmd, e) = Accepted(e, <<>>)
    BY <2>2, VsctlDeletePort
  <2> QED BY <2>1, <2>2, <2>3 DEF Repeatable, OthersKept
<1> QED BY <1>1, <1>2

(* SetFailMode, SetController and Set.Bridge can be made again.            *)
LEMMA SetBridgeRepeatable ==
    ASSUME NEW cmd, NEW o, NEW d, Database(d), cmd.name = "set bridge",
           Assigns(cmd.set, BridgeColumns), Vsctl(cmd, d) # Refused
    PROVE  \E e : Vsctl(cmd, d) = Accepted(e, <<>>) /\ Repeatable(cmd, o, d, e)
<1>e. PICK e : e = WithColumns(d, cmd.args[1], cmd.set)
  OBVIOUS
<1>1. cmd.args[1] \in DOMAIN d.bridges /\ DOMAIN cmd.set # {}
  BY VsctlSetBridge
<1>a. PICK x, set : x = cmd.args[1] /\ set = cmd.set
  OBVIOUS
<1>b. x \in DOMAIN d.bridges /\ Assigns(set, BridgeColumns) /\ e = WithColumns(d, x, set)
  BY <1>a, <1>e, <1>1
<1>2. Vsctl(cmd, d) = Accepted(e, <<>>)
  BY <1>e, <1>1, VsctlSetBridge
<1>3. /\ Database(e) /\ e.ports = d.ports /\ cmd.args[1] \in DOMAIN e.bridges
      /\ WithColumns(e, cmd.args[1], cmd.set) = e
  <2>1. /\ Database(e) /\ e.ports = d.ports /\ x \in DOMAIN e.bridges
        /\ WithColumns(e, x, set) = e
    BY ONLY Database(d), <1>b, SetBridgeMakes
  <2> QED BY <1>a, <2>1
<1>4. Vsctl(cmd, e) = Accepted(e, <<>>)
  BY <1>1, <1>3, VsctlSetBridge
<1> QED BY <1>2, <1>3, <1>4 DEF Repeatable, OthersKept

(* Set.Interface can be made again, and it keeps the options it leaves     *)
(* out.                                                                    *)
LEMMA SetInterfaceRepeatable ==
    ASSUME NEW cmd, NEW o \in InterfaceCalls, NEW d, Database(d), cmd.name = "set interface",
           cmd.set = slice(o), Vsctl(cmd, d) # Refused
    PROVE  \E e : Vsctl(cmd, d) = Accepted(e, <<>>) /\ Repeatable(cmd, o, d, e)
<1>e. PICK e : e = WithOptions(d, cmd.args[1], cmd.set)
  OBVIOUS
<1>0. Assigns(cmd.set, OptionNames) /\ \A c \in DOMAIN cmd.set : o[c] # 0
  BY SliceType
<1>1. cmd.args[1] \in DOMAIN d.ports /\ DOMAIN cmd.set # {}
  BY VsctlSetInterface
<1>a. PICK x, set : x = cmd.args[1] /\ set = cmd.set
  OBVIOUS
<1>b. x \in DOMAIN d.ports /\ Assigns(set, OptionNames) /\ e = WithOptions(d, x, set)
  BY <1>a, <1>e, <1>0, <1>1
<1>2. Vsctl(cmd, d) = Accepted(e, <<>>)
  BY <1>e, <1>1, VsctlSetInterface
<1>3. /\ Database(e) /\ DOMAIN e.ports = DOMAIN d.ports
      /\ WithOptions(e, cmd.args[1], cmd.set) = e
      /\ \A p \in DOMAIN d.ports : \A c \in OptionNames :
            \/ e.ports[p].set[c] = d.ports[p].set[c]
            \/ p = cmd.args[1] /\ c \in DOMAIN cmd.set
  <2>1. /\ Database(e) /\ DOMAIN e.ports = DOMAIN d.ports
        /\ WithOptions(e, x, set) = e
        /\ \A p \in DOMAIN d.ports : \A c \in OptionNames :
              \/ e.ports[p].set[c] = d.ports[p].set[c]
              \/ p = x /\ c \in DOMAIN set
    BY ONLY Database(d), <1>b, SetInterfaceMakes
  <2> QED BY <1>a, <2>1
<1>4. Vsctl(cmd, e) = Accepted(e, <<>>)
  BY <1>1, <1>3, VsctlSetInterface
<1>5. OthersKept(cmd, o, d, e)
  BY <1>0, <1>3 DEF OthersKept
<1> QED BY <1>2, <1>3, <1>4, <1>5 DEF Repeatable

(* So every command that was not refused can be run again.                 *)
LEMMA CarriedOut ==
    ASSUME NEW cmd, NEW o, NEW d, Database(d), Change(cmd, o), Vsctl(cmd, d) # Refused
    PROVE  \E e : Vsctl(cmd, d) = Accepted(e, <<>>) /\ Repeatable(cmd, o, d, e)
<1>1. CASE cmd.name \in {"add-br", "del-br"} /\ cmd.opt # "none" /\ cmd.args[1] \in Bridges
  BY <1>1, AddBridgeRepeatable, DeleteBridgeRepeatable
<1>2. CASE /\ cmd.name \in {"add-port", "del-port"} /\ cmd.opt # "none"
           /\ cmd.args[1] \in Bridges /\ cmd.args[2] \in PortNames
  BY <1>2, AddPortRepeatable, DeletePortRepeatable
<1>3. CASE cmd.name = "set bridge" /\ Assigns(cmd.set, BridgeColumns)
  BY <1>3, SetBridgeRepeatable
<1>4. CASE cmd.name = "set interface" /\ o \in InterfaceCalls /\ cmd.set = slice(o)
  BY <1>4, SetInterfaceRepeatable
<1> QED BY <1>1, <1>2, <1>3, <1>4 DEF Change

(* What holds after each call: the database is one, a call that was        *)
(* carried out can be carried out again, and what was read is in it.       *)
Again == call.applied => Vsctl(call.cmd, db) = Accepted(db, <<>>)
CallsInv == Database(db) /\ Again /\ ReadsExact

(* exec, with or without a timeout, keeps the invariant.                   *)
LEMMA ExecStep ==
    ASSUME NEW cmd, NEW o, Database(db), Change(cmd, o), exec(cmd, o)
    PROVE  CallsInv' /\ OptionsStay
<1>1. /\ call'.cmd = cmd /\ call'.options = o
      /\ \/ /\ Vsctl(cmd, db).ok /\ db' = Vsctl(cmd, db).d
         \/ db' = db /\ call'.applied = FALSE
  BY DEF exec
<1>2. ~Reading(cmd)
  BY DEF Change, Reading
<1>3. ReadsExact'
  BY <1>1, <1>2 DEF ReadsExact, Reading
<1>4. CASE Vsctl(cmd, db).ok /\ db' = Vsctl(cmd, db).d
  <2>1. Vsctl(cmd, db) # Refused
    BY <1>4 DEF Refused
  <2>2. PICK e : Vsctl(cmd, db) = Accepted(e, <<>>) /\ Repeatable(cmd, o, db, e)
    BY <2>1, CarriedOut
  <2>3. db' = e
    BY <1>4, <2>2 DEF Accepted
  <2>4. CallsInv'
    BY <1>1, <1>3, <2>2, <2>3 DEF Repeatable, CallsInv, Again
  <2>5. OthersKept(cmd, o, db, e)
    BY <2>2 DEF Repeatable
  <2>6. OthersKept(call'.cmd, call'.options, db, db')
    BY <1>1, <2>3, <2>5
  <2>7. OptionsStay
    BY <2>6, Zenon DEF OthersKept, OptionsStay
  <2> QED BY <2>4, <2>7
<1>5. CASE db' = db /\ call'.applied = FALSE
  BY <1>3, <1>5 DEF CallsInv, Again, OptionsStay
<1> QED BY <1>1, <1>4, <1>5

(* The output of a command that reads is exactly what the database holds.  *)
LEMMA ReadsInDatabase ==
    ASSUME NEW cmd, NEW d, Database(d), Reading(cmd), Vsctl(cmd, d) # Refused
    PROVE  LET out == Vsctl(cmd, d).out
           IN  /\ cmd.name = "list-br" =>
                     ToSet(out) = DOMAIN d.bridges /\ Len(out) = Cardinality(DOMAIN d.bridges)
               /\ cmd.name = "list-ports" =>
                     /\ ToSet(out) = PortsOf(d, cmd.args[1])
                     /\ Len(out) = Cardinality(PortsOf(d, cmd.args[1]))
               /\ cmd.name = "port-to-br" => cmd.args[1] \in PortsOf(d, out[1])
               /\ cmd.name = "get bridge" => out = <<d.bridges[cmd.args[1]][cmd.args[2]]>>
<1>0. IsFiniteSet(DOMAIN d.bridges) /\ IsFiniteSet(DOMAIN d.ports)
  BY DatabaseFields
<1>1. IsFiniteSet(PortsOf(d, cmd.args[1]))
  BY <1>0, FS_Subset DEF PortsOf
<1>2. CASE cmd.name = "list-br"
  <2>0. Vsctl(cmd, d) = Accepted(d, SetToSeq(DOMAIN d.bridges))
    BY <1>2, VsctlReads
  <2>1. Vsctl(cmd, d).out = SetToSeq(DOMAIN d.bridges)
    BY <2>0 DEF Accepted
  <2> QED BY <1>0, <1>2, <2>1, SetToSeqExact
<1>3. CASE cmd.name = "list-ports"
  <2>0. Vsctl(cmd, d) = Accepted(d, SetToSeq(PortsOf(d, cmd.args[1])))
    BY <1>3, VsctlReads
  <2>1. Vsctl(cmd, d).out = SetToSeq(PortsOf(d, cmd.args[1]))
    BY <2>0 DEF Accepted
  <2> QED BY <1>1, <1>3, <2>1, SetToSeqExact
<1>4. CASE cmd.name = "port-to-br"
  <2>1. cmd.args[1] \in DOMAIN d.ports /\ Vsctl(cmd, d) = Accepted(d, <<d.ports[cmd.args[1]].bridge>>)
    BY <1>4, VsctlReads
  <2>2. Vsctl(cmd, d).out[1] = d.ports[cmd.args[1]].bridge
    BY <2>1 DEF Accepted
  <2> QED BY <1>4, <2>1, <2>2 DEF PortsOf
<1>5. CASE cmd.name = "get bridge"
  <2>0. Vsctl(cmd, d) = Accepted(d, <<d.bridges[cmd.args[1]][cmd.args[2]]>>)
    BY <1>5, VsctlReads
  <2>1. Vsctl(cmd, d).out = <<d.bridges[cmd.args[1]][cmd.args[2]]>>
    BY <2>0 DEF Accepted
  <2> QED BY <1>5, <2>1
<1> QED BY <1>2, <1>3, <1>4, <1>5 DEF Reading

(* A call that reads keeps the invariant: listLines and exec lose nothing. *)
LEMMA QueryStep ==
    ASSUME NEW cmd, Database(db), Reading(cmd), Query(cmd)
    PROVE  CallsInv' /\ OptionsStay
<1>1. db' = db /\ call'.cmd = cmd /\ call'.applied = FALSE
  BY DEF Query
<1>2. CASE call'.result = "ok"
  <2>1. /\ Vsctl(cmd, db).ok
        /\ read' = IF cmd.name \in {"list-br", "list-ports"}
                   THEN listLines(Vsctl(cmd, db).out) ELSE Vsctl(cmd, db).out
    BY <1>2 DEF Query
  <2>2. read' = Vsctl(cmd, db).out
    BY <2>1 DEF listLines, SplitLines
  <2>3. Vsctl(cmd, db) # Refused
    BY <2>1 DEF Refused
  <2> QED BY <1>1, <2>2, <2>3, ReadsInDatabase DEF CallsInv, Again, ReadsExact, OptionsStay
<1>3. CASE call'.result # "ok"
  BY <1>1, <1>3 DEF CallsInv, Again, ReadsExact, OptionsStay
<1> QED BY <1>2, <1>3

(* A call that sets columns of a bridge keeps the invariant.               *)
LEMMA SetColumnsStep ==
    ASSUME NEW b, NEW set, Database(db), Assigns(set, BridgeColumns), SetColumns(b, set)
    PROVE  CallsInv' /\ OptionsStay
<1> DEFINE cmd == Command("set bridge", "none", <<b, b>>, set)
<1>1. Change(cmd, NoOptions)
  BY DEF Change, Command
<1> QED BY <1>1, ExecStep DEF SetColumns

(* Every call of VSwitchService keeps the invariant and the options it     *)
(* does not name.                                                          *)
LEMMA CallStep ==
    ASSUME Database(db), VSwitchNext
    PROVE  CallsInv' /\ OptionsStay
<1>1. ASSUME NEW b \in Bridges, AddBridge(b) \/ DeleteBridge(b)
      PROVE  CallsInv' /\ OptionsStay
  <2>1. PICK name \in {"add-br", "del-br"}, opt \in {"--may-exist", "--if-exists"} :
           exec(Command(name, opt, <<b, b>>, <<>>), NoOptions)
    BY <1>1 DEF AddBridge, DeleteBridge
  <2>2. Change(Command(name, opt, <<b, b>>, <<>>), NoOptions)
    BY DEF Change, Command
  <2> QED BY <2>1, <2>2, ExecStep
<1>2. ASSUME NEW b \in Bridges, NEW p \in PortNames, AddPort(b, p) \/ DeletePort(b, p)
      PROVE  CallsInv' /\ OptionsStay
  <2>1. PICK name \in {"add-port", "del-port"}, opt \in {"--may-exist", "--if-exists"} :
           exec(Command(name, opt, <<b, p>>, <<>>), NoOptions)
    BY <1>2 DEF AddPort, DeletePort
  <2>2. Change(Command(name, opt, <<b, p>>, <<>>), NoOptions)
    BY DEF Change, Command
  <2> QED BY <2>1, <2>2, ExecStep
<1>3. ASSUME NEW b \in Bridges, NEW v \in Nat,
             SetFailMode(b, v) \/ SetController(b, v) \/ SetBridge(b, v)
      PROVE  CallsInv' /\ OptionsStay
  <2>1. PICK set \in {Single("FailMode", v), Single("Controller", v), Single("Protocols", v), <<>>} :
           SetColumns(b, set)
    BY <1>3 DEF SetFailMode, SetController, SetBridge
  <2>2. Assigns(set, BridgeColumns)
    BY DEF Assigns, Single, BridgeColumns
  <2> QED BY <2>1, <2>2, SetColumnsStep
<1>4. ASSUME NEW p \in PortNames, NEW o \in InterfaceCalls, SetInterface(p, o)
      PROVE  CallsInv' /\ OptionsStay
  <2>1. Change(Command("set interface", "none", <<p, p>>, slice(o)), o)
    BY DEF Change, Command
  <2> QED BY <1>4, <2>1, ExecStep DEF SetInterface
<1>5. ASSUME NEW cmd, Reading(cmd), Query(cmd)
      PROVE  CallsInv' /\ OptionsStay
  BY <1>5, QueryStep
<1>6. ASSUME NEW b \in Bridges,
             ListPorts(b) \/ GetFailMode(b) \/ GetController(b) \/ GetBridge(b)
      PROVE  CallsInv' /\ OptionsStay
  <2>1. PICK args : \/ Query(Command("list-ports", "none", args, <<>>))
                    \/ Query(Command("get bridge", "none", args, <<>>))
    BY <1>6 DEF ListPorts, GetFailMode, GetController, GetBridge
  <2>2. /\ Reading(Command("list-ports", "none", args, <<>>))
        /\ Reading(Command("get bridge", "none", args, <<>>))
    BY DEF Reading, Command
  <2> QED BY <2>1, <2>2, <1>5
<1>7. ASSUME NEW p \in PortNames, PortToBridge(p)
      PROVE  CallsInv' /\ OptionsStay
  <2>1. Reading(Command("port-to-br", "none", <<p, p>>, <<>>))
    BY DEF Reading, Command
  <2> QED BY <1>7, <2>1, <1>5 DEF PortToBridge
<1>8. ASSUME ListBridges
      PROVE  CallsInv' /\ OptionsStay
  <2>1. Reading(Command("list-br", "none", <<EmptyName, EmptyName>>, <<>>))
    BY DEF Reading, Command
  <2> QED BY <1>8, <2>1, <1>5 DEF ListBridges
<1> QED BY <1>1, <1>2, <1>3, <1>4, <1>6, <1>7, <1>8, CallsAssumption DEF VSwitchNext

(* The invariant holds of the empty database.                              *)
LEMMA CallsInit == VSwitchInit => CallsInv
<1> SUFFICES ASSUME VSwitchInit PROVE CallsInv
  OBVIOUS
<1>1. db = [bridges |-> <<>>, ports |-> <<>>] /\ call.applied = FALSE
  BY DEF VSwitchInit
<1>2. Database(db)
  <2>1. <<>> \in [{} -> Columns] /\ <<>> \in [{} -> Port({})]
    OBVIOUS
  <2> QED BY <1>1, <2>1, DatabaseMade, FS_EmptySet
<1>3. ReadsExact
  BY DEF VSwitchInit, NoCommand, ReadsExact
<1> QED BY <1>1, <1>2, <1>3 DEF CallsInv, Again

(* The invariant is inductive.                                             *)
LEMMA CallsInductive == CallsInv /\ [VSwitchNext]_vswitchVars => CallsInv'
<1> SUFFICES ASSUME CallsInv, [VSwitchNext]_vswitchVars PROVE CallsInv'
  OBVIOUS
<1>1. CASE VSwitchNext
  BY <1>1, CallStep DEF CallsInv
<1>2. CASE UNCHANGED vswitchVars
  BY <1>2 DEF CallsInv, Again, ReadsExact, vswitchVars
<1> QED BY <1>1, <1>2

(* The invariant holds whatever programs call.                             *)
LEMMA CallsInvariant == VSwitchSpec => []CallsInv
BY CallsInit, CallsInductive, PTL DEF VSwitchSpec

(* The database stays well formed: no port without its bridge, and every   *)
(* column has a value.                                                     *)
THEOREM VSwitchType == VSwitchSpec => []VSwitchTypeOK
<1>1. CallsInv => VSwitchTypeOK
  BY DEF CallsInv, Database, VSwitchTypeOK
<1> QED BY <1>1, CallsInvariant, PTL

(* A call of VSwitchService that was carried out but timed out can be made *)
(* again: it succeeds and changes nothing (--may-exist and --if-exists).   *)
THEOREM RetryIsSafe == VSwitchSpec => []RetrySafe
<1>1. CallsInv => RetrySafe
  BY DEF CallsInv, Again, RetrySafe, Accepted
<1> QED BY <1>1, CallsInvariant, PTL

(* What ListBridges, ListPorts, PortToBridge and Get.* return without an   *)
(* error is what the database holds.                                       *)
THEOREM ReadsAreExact == VSwitchSpec => []ReadsExact
<1>1. CallsInv => ReadsExact
  BY DEF CallsInv
<1> QED BY <1>1, CallsInvariant, PTL

(* An option of an interface changes only by a call of Set.Interface that  *)
(* names it.                                                               *)
THEOREM OptionsAreKept == VSwitchSpec => OptionsKept
<1>1. CallsInv /\ [VSwitchNext]_vswitchVars => [OptionsStay]_vswitchVars
  BY CallStep DEF CallsInv
<1> QED BY <1>1, CallsInvariant, PTL DEF VSwitchSpec, OptionsKept

-----------------------------------------------------------------------------
(* DataPathService *)

(* Pairs of numbers in their order.                                        *)
Less == {ss \in Nat \X Nat : ss[1] < ss[2]}

(* The order of the natural numbers is well-founded ...                    *)
LEMMA LessWF == IsWellFoundedOn(Less, Nat)
BY NatLessThanWellFounded DEF OpToRel, Less

(* ... so that a set with 0 and the successors of its members holds every  *)
(* natural number.                                                         *)
LEMMA Induction ==
    ASSUME NEW S, 0 \in S, \A n \in Nat : n \in S => n + 1 \in S
    PROVE  Nat \subseteq S
<1> DEFINE T == Nat \ S
<1>1. SUFFICES ASSUME T # {} PROVE FALSE
  OBVIOUS
<1>2. PICK x \in T : \A y \in T : ~(<<y, x>> \in Less)
  <2>1. T \subseteq Nat
    OBVIOUS
  <2> HIDE DEF T
  <2> QED BY <2>1, <1>1, WFMin, LessWF
<1>3. x \in Nat /\ x # 0 /\ x - 1 \in Nat
  OBVIOUS
<1>4. x - 1 \in T
  <2>1. x - 1 \notin S
    BY <1>3
  <2> QED BY <2>1, <1>3
<1>5. <<x - 1, x>> \in Less
  BY <1>3 DEF Less
<1> QED BY <1>2, <1>4, <1>5

(* The loop of GetCTLimits ends where any sequence of states ends that     *)
(* begins with its start and follows its steps.                            *)
LEMMA LoopIs ==
    ASSUME NEW reply, Len(reply) \in Nat, NEW W,
           W = [i \in 0 .. Len(reply) |-> IF i = 0 THEN CtStart(reply) ELSE CtStep(W[i - 1], i)]
    PROVE  CtLoop(reply) = W[Len(reply)]
<1> DEFINE n == Len(reply)
           F(f) == [i \in 0 .. n |-> IF i = 0 THEN CtStart(reply) ELSE CtStep(f[i - 1], i)]
           loop == CHOOSE f : f = F(f)
<1>1. loop = F(loop)
  <2>1. W = F(W)
    OBVIOUS
  <2> HIDE DEF F
  <2> QED BY <2>1, Zenon
<1>2. \A i \in 0 .. n : loop[i] = IF i = 0 THEN CtStart(reply) ELSE CtStep(loop[i - 1], i)
  <2> HIDE DEF loop
  <2> QED BY <1>1, Zenon
<1>3. \A i \in 0 .. n : W[i] = IF i = 0 THEN CtStart(reply) ELSE CtStep(W[i - 1], i)
  BY Zenon
<1> DEFINE S == {i \in Nat : i <= n => loop[i] = W[i]}
<1>a. CtLoop(reply) = loop[n]
  BY Zenon DEF CtLoop
<1> HIDE DEF loop, F
<1>4. 0 \in S
  BY <1>2, <1>3
<1>5. \A i \in Nat : i \in S => i + 1 \in S
  <2> SUFFICES ASSUME NEW i \in Nat, i \in S PROVE i + 1 \in S
    OBVIOUS
  <2>1. SUFFICES ASSUME i + 1 <= n PROVE loop[i + 1] = W[i + 1]
    OBVIOUS
  <2>2. i + 1 \in 0 .. n /\ i + 1 # 0 /\ (i + 1) - 1 = i /\ loop[i] = W[i]
    BY <2>1
  <2>3. loop[i + 1] = CtStep(loop[i], i + 1)
    BY <1>2, <2>2
  <2>4. W[i + 1] = CtStep(W[i], i + 1)
    BY <1>3, <2>2
  <2> QED BY <2>2, <2>3, <2>4
<1>6. Nat \subseteq S
  <2> HIDE DEF S
  <2> QED BY <1>4, <1>5, Induction
<1> QED BY <1>6, <1>a

(* Without a default line the loop changes nothing.                        *)
LEMMA NoDefaultLoop ==
    ASSUME NEW reply \in Seq(CtLines), \A i \in DOMAIN reply : ~reply[i].default
    PROVE  CtLoop(reply) = CtStart(reply)
<1> DEFINE n == Len(reply)
           s == CtStart(reply)
           W == [i \in 0 .. n |-> s]
<1>1. \A i \in 1 .. n : CtStep(s, i) = s
  BY DEF CtStep, CtStart
<1> HIDE DEF s
<1>2. \A i \in 0 .. n : i # 0 => W[i - 1] = s /\ CtStep(W[i - 1], i) = s
  BY <1>1
<1>3. W = [i \in 0 .. n |-> IF i = 0 THEN s ELSE CtStep(W[i - 1], i)]
  BY <1>2
<1> HIDE DEF W
<1>4. CtLoop(reply) = W[n]
  BY <1>3, LoopIs, SMTT(20) DEF s
<1> QED BY <1>4 DEF W, s

(* The slice and the array after the default line k has been removed.      *)
Moved(reply, k) ==
    [array |-> [j \in DOMAIN reply |-> IF k <= j /\ j < Len(reply) THEN reply[j + 1] ELSE reply[j]],
     len |-> Len(reply) - 1, limit |-> <<DefaultValue(reply[k].fields)>>, end |-> "ok"]

(* With one default line, at k, the loop ends with that line removed.      *)
LEMMA OneDefaultLoop ==
    ASSUME NEW reply \in Seq(CtLines), NEW k \in DOMAIN reply, reply[k].default,
           DefaultEnd(reply[k].fields) = "ok",
           \A i \in DOMAIN reply : i # k => ~reply[i].default
    PROVE  CtLoop(reply) = Moved(reply, k)
<1> DEFINE n == Len(reply)
           s == CtStart(reply)
           m == Moved(reply, k)
           W == [i \in 0 .. n |-> IF i < k THEN s ELSE m]
<1>0. n \in Nat /\ k \in 1 .. n
  OBVIOUS
<1>1. \A i \in 1 .. n : i < k => CtStep(s, i) = s
  BY DEF CtStep, CtStart
<1>2. CtStep(s, k) = m
  <2>1. s.array = reply /\ s.len = n /\ s.end = "ok"
    BY DEF CtStart
  <2>2. CtStep(s, k) = [s EXCEPT !.limit = <<DefaultValue(reply[k].fields)>>, !.array = m.array, !.len = m.len]
    <3> HIDE DEF s
    <3> QED BY <1>0, <2>1 DEF CtStep, Moved
  <2> QED BY <2>2 DEF CtStart, Moved
<1>3. \A i \in 1 .. n : i > k => CtStep(m, i) = m
  <2>1. SUFFICES ASSUME NEW i \in 1 .. n, i > k PROVE CtStep(m, i) = m
    OBVIOUS
  <2>2. m.array[i] = IF i < n THEN reply[i + 1] ELSE reply[i]
    BY <2>1 DEF Moved
  <2>3. ~m.array[i].default
    <3>1. i < n => i + 1 \in DOMAIN reply /\ i + 1 # k
      BY <2>1, <1>0
    <3> QED BY <2>1, <2>2, <3>1
  <2> QED BY <2>3 DEF CtStep
<1> HIDE DEF s, m
<1>4. \A i \in 0 .. n : i # 0 => CtStep(W[i - 1], i) = W[i]
  <2> SUFFICES ASSUME NEW i \in 0 .. n, i # 0 PROVE CtStep(W[i - 1], i) = W[i]
    OBVIOUS
  <2>1. i \in 1 .. n /\ i - 1 \in 0 .. n
    BY <1>0
  <2>2. CASE i < k
    BY <1>0, <1>1, <2>1, <2>2
  <2>3. CASE i = k
    BY <1>0, <1>2, <2>1, <2>3
  <2>4. CASE i > k
    BY <1>0, <1>3, <2>1, <2>4
  <2> QED BY <1>0, <2>2, <2>3, <2>4
<1>5. W = [i \in 0 .. n |-> IF i = 0 THEN s ELSE CtStep(W[i - 1], i)]
  BY <1>0, <1>4
<1>7. W[n] = m
  BY <1>0
<1> HIDE DEF W
<1>9. W = [i \in 0 .. Len(reply) |-> IF i = 0 THEN CtStart(reply) ELSE CtStep(W[i - 1], i)]
  BY <1>5, Zenon DEF s
<1>6. CtLoop(reply) = W[n]
  <2>1. CtLoop(reply) = W[Len(reply)]
    BY ONLY <1>0, <1>9, LoopIs
  <2> QED BY <2>1
<1> QED BY <1>6, <1>7 DEF m

(* With one default line, at k, that is no number the loop ends there.     *)
LEMMA BadDefaultLoop ==
    ASSUME NEW reply \in Seq(CtLines), NEW k \in DOMAIN reply, reply[k].default,
           DefaultEnd(reply[k].fields) = "error",
           \A i \in DOMAIN reply : i # k => ~reply[i].default
    PROVE  CtLoop(reply).end = "error"
<1> DEFINE n == Len(reply)
           s == CtStart(reply)
           m == [s EXCEPT !.end = "error"]
           W == [i \in 0 .. n |-> IF i < k THEN s ELSE m]
<1>0. n \in Nat /\ k \in 1 .. n
  OBVIOUS
<1>1. \A i \in 1 .. n : i < k => CtStep(s, i) = s
  BY DEF CtStep, CtStart
<1>2. CtStep(s, k) = m
  <2>1. s.array = reply /\ s.end = "ok"
    BY DEF CtStart
  <2> HIDE DEF s
  <2> QED BY <2>1 DEF CtStep
<1>8. m.end = "error"
  BY DEF CtStart
<1>3. \A i \in 1 .. n : CtStep(m, i) = m
  <2> HIDE DEF m
  <2> QED BY <1>8 DEF CtStep
<1> HIDE DEF s, m
<1>4. \A i \in 0 .. n : i # 0 => CtStep(W[i - 1], i) = W[i]
  <2> SUFFICES ASSUME NEW i \in 0 .. n, i # 0 PROVE CtStep(W[i - 1], i) = W[i]
    OBVIOUS
  <2>1. i \in 1 .. n /\ i - 1 \in 0 .. n
    BY <1>0
  <2>2. CASE i < k
    BY <1>0, <1>1, <2>1, <2>2
  <2>3. CASE i = k
    BY <1>0, <1>2, <2>1, <2>3
  <2>4. CASE i > k
    BY <1>0, <1>3, <2>1, <2>4
  <2> QED BY <1>0, <2>2, <2>3, <2>4
<1>5. W = [i \in 0 .. n |-> IF i = 0 THEN s ELSE CtStep(W[i - 1], i)]
  BY <1>0, <1>4
<1>7. W[n] = m
  BY <1>0
<1> HIDE DEF W
<1>9. W = [i \in 0 .. Len(reply) |-> IF i = 0 THEN CtStart(reply) ELSE CtStep(W[i - 1], i)]
  BY <1>5, Zenon DEF s
<1>6. CtLoop(reply) = W[n]
  <2>1. CtLoop(reply) = W[Len(reply)]
    BY ONLY <1>0, <1>9, LoopIs
  <2> QED BY <2>1
<1> QED BY <1>6, <1>7, <1>8

(* A sequence is a function of its positions.                              *)
LEMMA SeqIsFunction ==
    ASSUME NEW T, NEW s \in Seq(T)
    PROVE  s = [i \in 1 .. Len(s) |-> s[i]]
OBVIOUS

(* The lines that are left are those of the reply without line k.          *)
LEMMA RemovedLine ==
    ASSUME NEW reply \in Seq(CtLines), NEW k \in DOMAIN reply
    PROVE  SubSeq(Moved(reply, k).array, 1, Moved(reply, k).len) = RemoveAt(reply, k)
           /\ RemoveAt(reply, k) = [i \in 1 .. Len(reply) - 1 |-> IF i < k THEN reply[i] ELSE reply[i + 1]]
<1>1. RemoveAt(reply, k) = [i \in 1 .. Len(reply) - 1 |-> IF i < k THEN reply[i] ELSE reply[i + 1]]
  <2>0. k \in 1 .. Len(reply) /\ Len(reply) \in Nat
    OBVIOUS
  <2> DEFINE a == SubSeq(reply, 1, k - 1)
             b == SubSeq(reply, k + 1, Len(reply))
  <2>3. a \in Seq(CtLines) /\ b \in Seq(CtLines) /\ Len(a) = k - 1 /\ Len(b) = Len(reply) - k
    BY <2>0
  <2>1. \A i \in 1 .. k - 1 : a[i] = reply[i]
    BY <2>0
  <2>2. \A i \in 1 .. Len(reply) - k : b[i] = reply[i + k]
    BY <2>0
  <2>6. RemoveAt(reply, k) = a \o b
    BY DEF RemoveAt
  <2> HIDE DEF a, b
  <2>4. \A i \in 1 .. Len(reply) - 1 : (a \o b)[i] = IF i < k THEN reply[i] ELSE reply[i + 1]
    <3> SUFFICES ASSUME NEW i \in 1 .. Len(reply) - 1
                 PROVE  (a \o b)[i] = IF i < k THEN reply[i] ELSE reply[i + 1]
      OBVIOUS
    <3>1. CASE i < k
      BY <2>0, <2>1, <2>3, <3>1
    <3>2. CASE i >= k
      <4>1. (a \o b)[i] = b[i - Len(a)]
        BY <2>0, <2>3, <3>2
      <4>2. i - Len(a) \in 1 .. Len(reply) - k /\ (i - Len(a)) + k = i + 1
        BY <2>0, <2>3, <3>2
      <4> QED BY <2>0, <2>2, <3>2, <4>1, <4>2
    <3>3. i < k \/ i >= k
      BY <2>0
    <3> QED BY <3>1, <3>2, <3>3
  <2>5. a \o b \in Seq(CtLines) /\ Len(a \o b) = Len(reply) - 1
    BY <2>0, <2>3
  <2>7. a \o b = [i \in 1 .. Len(reply) - 1 |-> (a \o b)[i]]
    <3>1. a \o b = [i \in 1 .. Len(a \o b) |-> (a \o b)[i]]
      BY <2>5, SeqIsFunction
    <3> QED BY <2>5, <3>1
  <2> QED BY <2>4, <2>5, <2>6, <2>7
<1>2. SubSeq(Moved(reply, k).array, 1, Moved(reply, k).len)
        = [i \in 1 .. Len(reply) - 1 |-> IF i < k THEN reply[i] ELSE reply[i + 1]]
  BY DEF Moved
<1> QED BY <1>1, <1>2

(* A reply of any length with at most one default line is read exactly:    *)
(* the loop of GetCTLimits that removes a line from the slice it ranges    *)
(* over loses no other line and reads none twice.                          *)
THEOREM LimitsAreExact ==
    ASSUME NEW reply \in Seq(CtLines)
    PROVE  LimitsExact(reply)
<1> DEFINE zonesOf(rest) == [i \in DOMAIN rest |-> rest[i].fields]
<1>1. ASSUME Readable(reply), \A i \in DOMAIN reply : ~reply[i].default
      PROVE  GetCTLimits(reply) = [end |-> "ok", limit |-> <<>>, zones |-> zonesOf(reply)]
  <2>1. CtLoop(reply) = CtStart(reply)
    BY <1>1, NoDefaultLoop
  <2>2. SubSeq(reply, 1, Len(reply)) = reply
    OBVIOUS
  <2>3. /\ CtStart(reply).array = reply /\ CtStart(reply).len = Len(reply)
        /\ CtStart(reply).end = "ok" /\ CtStart(reply).limit = <<>>
    BY DEF CtStart
  <2>4. \A i \in DOMAIN reply : \A j \in DOMAIN reply[i].fields : reply[i].fields[j].eq
    BY <1>1 DEF Readable
  <2> QED BY <2>1, <2>2, <2>3, <2>4 DEF GetCTLimits
<1>2. ASSUME Readable(reply), NEW k \in DOMAIN reply, reply[k].default,
             \A i \in DOMAIN reply : i # k => ~reply[i].default
      PROVE  GetCTLimits(reply) = [end |-> "ok", limit |-> <<DefaultValue(reply[k].fields)>>,
                                   zones |-> zonesOf(RemoveAt(reply, k))]
  <2>0. DefaultEnd(reply[k].fields) = "ok"
    BY <1>2 DEF Readable
  <2>1. CtLoop(reply) = Moved(reply, k)
    BY <1>2, <2>0, OneDefaultLoop
  <2> DEFINE zones == RemoveAt(reply, k)
  <2>2. SubSeq(Moved(reply, k).array, 1, Moved(reply, k).len) = zones
    BY RemovedLine
  <2>3. zones = [i \in 1 .. Len(reply) - 1 |-> IF i < k THEN reply[i] ELSE reply[i + 1]]
    BY RemovedLine
  <2>4. \A i \in DOMAIN zones : \A j \in DOMAIN zones[i].fields : zones[i].fields[j].eq
    BY <1>2, <2>3 DEF Readable
  <2>5. Moved(reply, k).end = "ok" /\ Moved(reply, k).limit = <<DefaultValue(reply[k].fields)>>
    BY DEF Moved
  <2> HIDE DEF zones
  <2>6. GetCTLimits(reply) = [end |-> "ok", limit |-> <<DefaultValue(reply[k].fields)>>, zones |-> zonesOf(zones)]
    BY <2>1, <2>2, <2>4, <2>5 DEF GetCTLimits
  <2> QED BY <2>6 DEF zones
<1>3. ASSUME NEW k \in DOMAIN reply, reply[k].default, DefaultEnd(reply[k].fields) = "error",
             \A i \in DOMAIN reply : i # k => ~reply[i].default
      PROVE  GetCTLimits(reply).end = "error"
  <2>1. CtLoop(reply).end = "error"
    BY <1>3, BadDefaultLoop
  <2> QED BY <2>1 DEF GetCTLimits
<1> QED BY <1>1, <1>2, <1>3 DEF LimitsExact

(* The zones that a reply shows, and their lines.                          *)
Shown(d, zones) == IF zones = <<>> THEN SetToSeq(DOMAIN d.zones) ELSE zones
ZoneLines(d, shown) == [i \in DOMAIN shown |-> ZoneLine(shown[i], LimitOf(d, shown[i]))]

(* A well-formed datapath, with finitely many limits.                      *)
Kernel(d) ==
    /\ DOMAIN d.zones \subseteq Nat /\ IsFiniteSet(DOMAIN d.zones)
    /\ d \in [exists : BOOLEAN, default : Nat, zones : [DOMAIN d.zones -> Nat]]
    /\ ~d.exists => d = NoDatapath

(* The lines that ovs-dpctl prints.                                        *)
LEMMA LinesType ==
    ASSUME NEW n \in Nat, NEW m \in Nat
    PROVE  /\ DefaultLine(n) \in CtLines /\ ZoneLine(n, m) \in CtLines
           /\ DefaultLine(n).default /\ ~ZoneLine(n, m).default
           /\ DefaultLine(n).fields = <<CtField("default", n)>>
           /\ ZoneLine(n, m).fields = <<CtField("zone", n), CtField("limit", m), CtField("count", 0)>>
<1>1. \A key \in {"default", "zone", "limit", "count"}, v \in Int : CtField(key, v) \in CtFields
  BY DEF CtField, CtFields
<1>2. \A b \in BOOLEAN : \A fs \in Seq(CtFields) :
         CtLine(b, fs) \in CtLines /\ CtLine(b, fs).default = b /\ CtLine(b, fs).fields = fs
  BY DEF CtLine, CtLines
<1>3. /\ <<CtField("default", n)>> \in Seq(CtFields)
      /\ <<CtField("zone", n), CtField("limit", m), CtField("count", 0)>> \in Seq(CtFields)
  <2>1. /\ CtField("default", n) \in CtFields /\ CtField("zone", n) \in CtFields
        /\ CtField("limit", m) \in CtFields /\ CtField("count", 0) \in CtFields
    BY <1>1
  <2> QED BY <2>1
<1> QED BY <1>2, <1>3 DEF DefaultLine, ZoneLine

(* The number of a default line.                                           *)
LEMMA OneNumber ==
    ASSUME NEW n
    PROVE  /\ DefaultEnd(<<CtField("default", n)>>) = "ok"
           /\ DefaultValue(<<CtField("default", n)>>) = n
<1>1. PICK x : x = CtField("default", n)
  OBVIOUS
<1>2. x.eq = TRUE /\ x.num = TRUE /\ x.n = n
  BY <1>1 DEF CtField
<1>3. Len(<<x>>) = 1 /\ DOMAIN <<x>> = {1} /\ <<x>>[1] = x
  OBVIOUS
<1>4. {j \in DOMAIN <<x>> : <<x>>[j].eq} = {1}
  BY <1>2, <1>3
<1>5. DefaultEnd(<<x>>) = "ok"
  BY <1>2, <1>3, <1>4 DEF DefaultEnd
<1>6. DefaultValue(<<x>>) = n
  BY <1>2, <1>3 DEF DefaultValue
<1> QED BY <1>1, <1>5, <1>6

(* A sequence with a line put before it, and that line removed again.      *)
LEMMA FirstRemoved ==
    ASSUME NEW x \in CtLines, NEW s \in Seq(CtLines)
    PROVE  /\ <<x>> \o s \in Seq(CtLines) /\ RemoveAt(<<x>> \o s, 1) = s
           /\ DOMAIN (<<x>> \o s) = 1 .. Len(s) + 1
           /\ (<<x>> \o s)[1] = x
           /\ \A i \in 2 .. Len(s) + 1 : (<<x>> \o s)[i] = s[i - 1] /\ i - 1 \in DOMAIN s
<1>1. PICK r : r = <<x>> \o s
  OBVIOUS
<1>2. /\ r \in Seq(CtLines) /\ Len(r) = Len(s) + 1 /\ DOMAIN r = 1 .. Len(s) + 1
      /\ r[1] = x /\ \A i \in 1 .. Len(s) : r[i + 1] = s[i]
  BY <1>1
<1>3. \A i \in 2 .. Len(s) + 1 : r[i] = s[i - 1] /\ i - 1 \in DOMAIN s
  <2> SUFFICES ASSUME NEW i \in 2 .. Len(s) + 1 PROVE r[i] = s[i - 1] /\ i - 1 \in DOMAIN s
    OBVIOUS
  <2>1. i - 1 \in 1 .. Len(s) /\ (i - 1) + 1 = i
    OBVIOUS
  <2> QED BY <1>2, <2>1
<1>4. RemoveAt(r, 1) = [i \in 1 .. Len(r) - 1 |-> IF i < 1 THEN r[i] ELSE r[i + 1]]
  BY <1>2, RemovedLine
<1>5. RemoveAt(r, 1) = [i \in 1 .. Len(s) |-> s[i]]
  BY <1>2, <1>4
<1>6. RemoveAt(r, 1) = s
  BY <1>5, SeqIsFunction
<1> QED BY <1>1, <1>2, <1>3, <1>6

(* What ovs-dpctl prints is read as the default limit and one entry for    *)
(* each zone shown.                                                        *)
LEMMA ReplyRead ==
    ASSUME NEW d, Kernel(d), NEW zones \in Seq(Nat)
    PROVE  /\ Shown(d, zones) \in Seq(Nat)
           /\ GetCTLimits(PrintLimits(d, zones)) =
                [end |-> "ok", limit |-> <<d.default>>,
                 zones |-> [i \in DOMAIN Shown(d, zones) |->
                              ZoneLine(Shown(d, zones)[i], LimitOf(d, Shown(d, zones)[i])).fields]]
<1> DEFINE shown == Shown(d, zones)
           rest  == ZoneLines(d, shown)
           reply == <<DefaultLine(d.default)>> \o rest
<1>1. shown \in Seq(Nat)
  <2>1. SetToSeq(DOMAIN d.zones) \in Seq(DOMAIN d.zones)
    BY SetToSeqExact DEF Kernel
  <2>2. SetToSeq(DOMAIN d.zones) \in Seq(Nat)
    BY <2>1 DEF Kernel
  <2> QED BY <2>2 DEF Shown
<1>2. d.default \in Nat /\ \A z \in Nat : LimitOf(d, z) \in Nat
  BY DEF Kernel, LimitOf
<1> HIDE DEF shown
<1>3. /\ rest \in Seq(CtLines) /\ DOMAIN rest = DOMAIN shown
      /\ \A i \in DOMAIN rest : /\ ~rest[i].default
                                /\ rest[i].fields = ZoneLine(shown[i], LimitOf(d, shown[i])).fields
                                /\ shown[i] \in Nat /\ LimitOf(d, shown[i]) \in Nat
  <2>0. \A i \in DOMAIN shown : shown[i] \in Nat
    BY <1>1
  <2>1. \A i \in DOMAIN shown : shown[i] \in Nat /\ LimitOf(d, shown[i]) \in Nat
    BY <2>0, <1>2
  <2>2. \A i \in DOMAIN shown : /\ ZoneLine(shown[i], LimitOf(d, shown[i])) \in CtLines
                                /\ ~ZoneLine(shown[i], LimitOf(d, shown[i])).default
    BY <2>1, LinesType
  <2>3. DOMAIN shown = 1 .. Len(shown) /\ Len(shown) \in Nat
    BY <1>1
  <2>4. rest = [i \in 1 .. Len(shown) |-> ZoneLine(shown[i], LimitOf(d, shown[i]))]
    BY <2>3 DEF ZoneLines
  <2> HIDE DEF rest
  <2> QED BY <2>1, <2>2, <2>3, <2>4
<1> HIDE DEF rest
<1>4. /\ reply \in Seq(CtLines) /\ RemoveAt(reply, 1) = rest
      /\ DOMAIN reply = 1 .. Len(rest) + 1 /\ reply[1] = DefaultLine(d.default)
      /\ \A i \in 2 .. Len(rest) + 1 : reply[i] = rest[i - 1] /\ i - 1 \in DOMAIN rest
  <2>1. DefaultLine(d.default) \in CtLines
    BY <1>2, LinesType
  <2> QED BY <1>3, <2>1, FirstRemoved
<1> HIDE DEF reply
<1>5. reply[1].default /\ reply[1].fields = <<CtField("default", d.default)>>
  BY <1>2, <1>4, LinesType
<1>6. Len(rest) \in Nat /\ 1 \in DOMAIN reply
  BY <1>3, <1>4
<1>7. {i \in DOMAIN reply : reply[i].default} = {1}
  <2>1. \A i \in DOMAIN reply : i # 1 => ~reply[i].default
    BY <1>3, <1>4, <1>6
  <2> QED BY <1>5, <1>6, <2>1
<1>8. Readable(reply)
  <2>1. \A i \in DOMAIN rest : rest[i].fields = <<CtField("zone", shown[i]), CtField("limit", LimitOf(d, shown[i])), CtField("count", 0)>>
    BY <1>3, LinesType
  <2>2. \A key, n : CtField(key, n).eq
    BY DEF CtField
  <2> DEFINE Good(fs) == fs # <<>> /\ \A j \in DOMAIN fs : fs[j].eq
  <2>5. \A x, y, z : x.eq /\ y.eq /\ z.eq => Good(<<x, y, z>>) /\ Good(<<x>>)
    OBVIOUS
  <2> HIDE DEF Good
  <2>3. \A i \in DOMAIN rest : Good(rest[i].fields)
    BY <2>1, <2>2, <2>5
  <2>4. Good(reply[1].fields)
    BY <1>5, <2>2, <2>5
  <2>6. DefaultEnd(reply[1].fields) = "ok"
    BY <1>5, OneNumber
  <2>7. \A i \in DOMAIN reply : reply[i].default => i = 1
    BY <1>7
  <2> USE DEF Good
  <2>8. \A i \in DOMAIN reply : Good(reply[i].fields)
    BY <1>4, <1>6, <2>3, <2>4
  <2> QED BY <2>6, <2>7, <2>8 DEF Readable
<1>9. GetCTLimits(reply) = [end |-> "ok", limit |-> <<DefaultValue(reply[1].fields)>>,
                            zones |-> [i \in DOMAIN rest |-> rest[i].fields]]
  <2>1. LimitsExact(reply)
    BY <1>4, LimitsAreExact
  <2> QED BY <1>4, <1>6, <1>7, <1>8, <2>1 DEF LimitsExact
<1>10. DefaultValue(reply[1].fields) = d.default
  BY <1>5, OneNumber
<1>11. PrintLimits(d, zones) = reply
  BY DEF PrintLimits, reply, rest, shown, Shown, ZoneLines
<1>12. [i \in DOMAIN rest |-> rest[i].fields]
         = [i \in DOMAIN shown |-> ZoneLine(shown[i], LimitOf(d, shown[i])).fields]
  BY <1>3
<1> QED BY <1>1, <1>9, <1>10, <1>11, <1>12 DEF shown

(* The reply r of GetCTLimits for these zones is what the datapath d has.  *)
ReadBack(r, d, zones) ==
    /\ r.end = "ok" /\ r.limit = <<d.default>>
    /\ \A i \in DOMAIN r.zones : r.zones[i][2].n = LimitOf(d, r.zones[i][1].n)
    /\ IF zones = <<>>
       THEN /\ {r.zones[i][1].n : i \in DOMAIN r.zones} = DOMAIN d.zones
            /\ Len(r.zones) = Cardinality(DOMAIN d.zones)
       ELSE [i \in DOMAIN r.zones |-> r.zones[i][1].n] = zones

(* So the reading of what is printed is what the kernel has.               *)
LEMMA ReplyReadBack ==
    ASSUME NEW d, Kernel(d), NEW zones \in Seq(Nat)
    PROVE  ReadBack(GetCTLimits(PrintLimits(d, zones)), d, zones)
<1> DEFINE shown == Shown(d, zones)
           out   == [i \in DOMAIN shown |-> ZoneLine(shown[i], LimitOf(d, shown[i])).fields]
<1>1. /\ shown \in Seq(Nat)
      /\ GetCTLimits(PrintLimits(d, zones)) = [end |-> "ok", limit |-> <<d.default>>, zones |-> out]
  BY ReplyRead
<1>2. PICK r : r = GetCTLimits(PrintLimits(d, zones))
  OBVIOUS
<1> HIDE DEF shown
<1>3. /\ DOMAIN out = 1 .. Len(shown) /\ Len(out) = Len(shown)
      /\ \A i \in DOMAIN out : out[i][1].n = shown[i] /\ out[i][2].n = LimitOf(d, shown[i])
  <2>1. \A n, m : /\ ZoneLine(n, m).fields[1].n = n
                  /\ ZoneLine(n, m).fields[2].n = m
    BY DEF ZoneLine, CtLine, CtField
  <2> QED BY <1>1, <2>1
<1> HIDE DEF out
<1>4. r.end = "ok" /\ r.limit = <<d.default>> /\ r.zones = out
  BY <1>1, <1>2
<1>5. ASSUME zones = <<>>
      PROVE  {out[i][1].n : i \in DOMAIN out} = DOMAIN d.zones /\ Len(out) = Cardinality(DOMAIN d.zones)
  <2>1. IsFiniteSet(DOMAIN d.zones)
    BY DEF Kernel
  <2>2. shown = SetToSeq(DOMAIN d.zones)
    BY <1>5 DEF shown, Shown
  <2>3. /\ DOMAIN shown = 1 .. Len(shown)
        /\ {shown[i] : i \in DOMAIN shown} = DOMAIN d.zones
        /\ Len(shown) = Cardinality(DOMAIN d.zones)
    BY <1>1, <2>1, <2>2, SetToSeqExact DEF ToSet
  <2>4. {out[i][1].n : i \in DOMAIN out} = {shown[i] : i \in DOMAIN shown}
    BY <1>3, <2>3, SMTT(20)
  <2> QED BY <1>3, <2>3, <2>4
<1>6. ASSUME zones # <<>>
      PROVE  [i \in DOMAIN out |-> out[i][1].n] = zones
  <2>1. shown = zones
    BY <1>6 DEF shown, Shown
  <2>2. zones = [i \in 1 .. Len(zones) |-> zones[i]]
    BY SeqIsFunction
  <2> QED BY <1>3, <2>1, <2>2
<1> QED BY <1>2, <1>3, <1>4, <1>5, <1>6 DEF ReadBack

(* getZoneString names every zone that it is given.                        *)
LEMMA ZoneStringKeepsAll ==
    ASSUME NEW zones \in Seq(Nat)
    PROVE  getZoneString(zones) = zones
<1>1. zones # <<>> => <<Head(zones)>> \o Tail(zones) = zones
  OBVIOUS
<1> QED BY <1>1 DEF getZoneString

(* The invariant: a well-formed datapath, of which the last reply is true. *)
DataPathInv == Kernel(datapath) /\ LimitsReadBack

(* A datapath that is not there, and a new one.                            *)
LEMMA NoDatapathIsOne == Kernel(NoDatapath) /\ Kernel(NewDatapath)
<1>1. <<>> \in [{} -> Nat] /\ DOMAIN <<>> = {} /\ IsFiniteSet({})
  BY FS_EmptySet
<1>2. \A b \in BOOLEAN : [exists |-> b, default |-> 0, zones |-> <<>>]
                            \in [exists : BOOLEAN, default : Nat, zones : [{} -> Nat]]
  BY <1>1
<1> QED BY <1>1, <1>2 DEF Kernel, NoDatapath, NewDatapath

(* A limit set by default ...                                              *)
LEMMA DefaultSet ==
    ASSUME NEW d, Kernel(d), d.exists, NEW n \in Nat
    PROVE  Kernel([d EXCEPT !.default = n])
BY DEF Kernel

(* (The record with its zones replaced.)                                   *)
LEMMA ZonesReplaced ==
    ASSUME NEW C, NEW d \in [exists : BOOLEAN, default : Nat, zones : C], NEW f
    PROVE  [d EXCEPT !.zones = f] = [exists |-> d.exists, default |-> d.default, zones |-> f]
OBVIOUS

(* ... or for a zone, or limits deleted, make a datapath of a datapath.    *)
LEMMA LimitSet ==
    ASSUME NEW d, Kernel(d), d.exists, NEW z \in Nat, NEW n \in Nat
    PROVE  Kernel([d EXCEPT !.zones = Over(Single(z, n), @)])
<1> DEFINE f == Over(Single(z, n), d.zones)
<1>1. f \in [DOMAIN d.zones \cup {z} -> Nat] /\ DOMAIN f = DOMAIN d.zones \cup {z}
  BY DEF Kernel, Over, Single
<1>2. IsFiniteSet(DOMAIN f) /\ DOMAIN f \subseteq Nat
  BY <1>1, FS_AddElement DEF Kernel
<1> HIDE DEF f
<1>0. /\ d = [exists |-> d.exists, default |-> d.default, zones |-> d.zones]
      /\ d.default \in Nat /\ d.exists \in BOOLEAN
  BY DEF Kernel
<1>3. [d EXCEPT !.zones = f] = [exists |-> d.exists, default |-> d.default, zones |-> f]
  BY ZonesReplaced DEF Kernel
<1>4. Kernel([exists |-> d.exists, default |-> d.default, zones |-> f])
  BY <1>0, <1>1, <1>2 DEF Kernel
<1> QED BY <1>3, <1>4 DEF f

(* (... without the limits of some zones.)                                 *)
LEMMA LimitsDeleted ==
    ASSUME NEW d, Kernel(d), d.exists, NEW S
    PROVE  Kernel([d EXCEPT !.zones = Without(@, S)])
<1> DEFINE f == Without(d.zones, S)
<1>1. f \in [DOMAIN d.zones \ S -> Nat] /\ DOMAIN f = DOMAIN d.zones \ S
  BY DEF Kernel, Without
<1>2. IsFiniteSet(DOMAIN f) /\ DOMAIN f \subseteq Nat
  BY <1>1, FS_Subset DEF Kernel
<1> HIDE DEF f
<1>0. /\ d = [exists |-> d.exists, default |-> d.default, zones |-> d.zones]
      /\ d.default \in Nat /\ d.exists \in BOOLEAN
  BY DEF Kernel
<1>3. [d EXCEPT !.zones = f] = [exists |-> d.exists, default |-> d.default, zones |-> f]
  BY ZonesReplaced DEF Kernel
<1>4. Kernel([exists |-> d.exists, default |-> d.default, zones |-> f])
  BY <1>0, <1>1, <1>2 DEF Kernel
<1> QED BY <1>3, <1>4 DEF f

(* ctSetLimitsArgsToString accepts a default alone, or a zone with its     *)
(* limit, and nothing else.                                                *)
LEMMA SetLimitsArgs ==
    ASSUME NEW keys
    PROVE  LET r == ctSetLimitsArgs(keys)
           IN  r.ok <=> r.args \in {{"default"}, {"zone", "limit"}}
<1> DEFINE words == {"default", "zone", "limit"}
           args  == keys \cap words
<1>1. /\ Cardinality({}) = 0 /\ IsFiniteSet({})
      /\ \A a : Cardinality({a}) = 1 /\ IsFiniteSet({a})
  BY FS_EmptySet, FS_Singleton
<1>5. ASSUME NEW a, NEW b, a # b
      PROVE  Cardinality({a, b}) = 2 /\ IsFiniteSet({a, b})
  <2>1. {a, b} = {a} \cup {b} /\ b \notin {a}
    BY <1>5
  <2>0. Cardinality({a}) = 1 /\ IsFiniteSet({a})
    BY <1>1
  <2>3. /\ IsFiniteSet({a} \cup {b})
        /\ Cardinality({a} \cup {b}) = IF b \in {a} THEN Cardinality({a}) ELSE Cardinality({a}) + 1
    BY <2>0, FS_AddElement, Zenon
  <2>2. Cardinality({a} \cup {b}) = 2 /\ IsFiniteSet({a} \cup {b})
    BY <2>0, <2>1, <2>3
  <2> QED BY <2>1, <2>2
<1>6. Cardinality(words) = 3
  <2>1. words = {"default", "zone"} \cup {"limit"} /\ "limit" \notin {"default", "zone"}
    OBVIOUS
  <2>2. Cardinality({"default", "zone"}) = 2 /\ IsFiniteSet({"default", "zone"})
    BY <1>5
  <2>3. Cardinality({"default", "zone"} \cup {"limit"}) = 3
    BY <2>1, <2>2, FS_AddElement
  <2> QED BY <2>1, <2>3
<1>2. \/ args \in {{}, {"default"}, {"zone"}, {"limit"}, {"zone", "limit"}}
      \/ args \in {{"default", "zone"}, {"default", "limit"}, {"default", "zone", "limit"}}
  OBVIOUS
<1> HIDE DEF args
<1>3. /\ Cardinality({}) = 0 /\ Cardinality({"default"}) = 1 /\ Cardinality({"zone"}) = 1
      /\ Cardinality({"limit"}) = 1 /\ Cardinality({"zone", "limit"}) = 2
      /\ Cardinality({"default", "zone"}) = 2 /\ Cardinality({"default", "limit"}) = 2
      /\ Cardinality({"default", "zone", "limit"}) = 3
  BY <1>1, <1>5, <1>6
<1>4. (/\ Cardinality(args) \in {1, 2}
       /\ "default" \in args => Cardinality(args) = 1
       /\ "default" \notin args => Cardinality(args) = 2)
      <=> args \in {{"default"}, {"zone", "limit"}}
  BY <1>2, <1>3
<1> QED BY <1>4 DEF ctSetLimitsArgs, args

(* SetCTLimits keeps the invariant: its arguments are there when it uses   *)
(* them.                                                                   *)
LEMMA SetStep ==
    ASSUME Kernel(datapath), NEW dpName, NEW zone \in LimitMaps, SetCTLimits(dpName, zone)
    PROVE  DataPathInv'
<1>1. asked'.op # "ct-get-limits"
  BY DEF SetCTLimits, Asks
<1>2. CASE datapath' = datapath
  BY <1>1, <1>2 DEF DataPathInv, LimitsReadBack
<1>3. CASE /\ ctSetLimitsArgs(DOMAIN zone).ok /\ datapath.exists
           /\ datapath' = IF "default" \in DOMAIN zone
                          THEN [datapath EXCEPT !.default = zone["default"]]
                          ELSE [datapath EXCEPT !.zones = Over(Single(zone["zone"], zone["limit"]), @)]
  <2>1. "default" \in DOMAIN zone \/ ("zone" \in DOMAIN zone /\ "limit" \in DOMAIN zone)
    <3>1. ctSetLimitsArgs(DOMAIN zone).args \in {{"default"}, {"zone", "limit"}}
      BY <1>3, SetLimitsArgs
    <3>2. ctSetLimitsArgs(DOMAIN zone).args \subseteq DOMAIN zone
      BY DEF ctSetLimitsArgs
    <3> QED BY <3>1, <3>2
  <2>2. \A key \in DOMAIN zone : zone[key] \in Nat
    BY LimitsAssumption
  <2>3. CASE "default" \in DOMAIN zone
    <3>1. Kernel(datapath')
      BY <1>3, <2>2, <2>3, DefaultSet
    <3> QED BY <1>1, <3>1 DEF DataPathInv, LimitsReadBack
  <2>4. CASE "default" \notin DOMAIN zone
    <3>1. Kernel(datapath')
      BY <1>3, <2>1, <2>2, <2>4, LimitSet
    <3> QED BY <1>1, <3>1 DEF DataPathInv, LimitsReadBack
  <2> QED BY <2>3, <2>4
<1> QED BY <1>2, <1>3 DEF SetCTLimits, Errs

(* DelCTLimits keeps the invariant.                                        *)
LEMMA DelStep ==
    ASSUME Kernel(datapath), NEW dpName, NEW zones, DelCTLimits(dpName, zones)
    PROVE  DataPathInv'
<1>1. asked'.op # "ct-get-limits"
  BY DEF DelCTLimits, Asks
<1>2. CASE datapath' = datapath
  BY <1>1, <1>2 DEF DataPathInv, LimitsReadBack
<1>3. CASE datapath.exists /\ \E S : datapath' = [datapath EXCEPT !.zones = Without(@, S)]
  <2>1. Kernel(datapath')
    BY <1>3, LimitsDeleted
  <2> QED BY <1>1, <2>1 DEF DataPathInv, LimitsReadBack
<1> QED BY <1>2, <1>3 DEF DelCTLimits, Errs

(* GetCTLimits establishes what LimitsReadBack says.                       *)
LEMMA ReadStep ==
    ASSUME Kernel(datapath), NEW dpName, NEW zones \in ZoneLists, ReadCTLimits(dpName, zones)
    PROVE  DataPathInv'
<1>1. datapath' = datapath /\ asked'.zones = zones
  BY DEF ReadCTLimits, Asks, Errs
<1>2. zones \in Seq(Nat) /\ getZoneString(zones) = zones
  BY LimitsAssumption, ZoneStringKeepsAll
<1>3. \/ answer'.limits[1] = GetCTLimits(PrintLimits(datapath, zones))
      \/ answer'.ok = FALSE
  BY <1>2 DEF ReadCTLimits, Answers, Errs
<1>4. ReadBack(GetCTLimits(PrintLimits(datapath, zones)), datapath, zones)
  BY <1>2, ReplyReadBack
<1>5. asked'.op = "ct-get-limits" /\ answer'.ok => ReadBack(answer'.limits[1], datapath', asked'.zones)
  BY <1>1, <1>3, <1>4
<1>6. LimitsReadBack'
  BY <1>5 DEF LimitsReadBack, ReadBack
<1> QED BY <1>1, <1>6 DEF DataPathInv

(* Every call of DataPathService keeps the invariant.                      *)
LEMMA DataPathStep ==
    ASSUME Kernel(datapath), DataPathNext
    PROVE  DataPathInv'
<1>1. CASE AddDataPath
  <2>1. asked'.op # "ct-get-limits" /\ Kernel(datapath')
    BY <1>1, NoDatapathIsOne DEF AddDataPath, Asks, Errs
  <2> QED BY <2>1 DEF DataPathInv, LimitsReadBack
<1>2. CASE DelDataPath
  <2>1. asked'.op # "ct-get-limits" /\ Kernel(datapath')
    BY <1>2, NoDatapathIsOne DEF DelDataPath, Asks, Errs
  <2> QED BY <2>1 DEF DataPathInv, LimitsReadBack
<1>3. CASE GetDataPaths
  <2>1. asked'.op # "ct-get-limits" /\ datapath' = datapath
    BY <1>3 DEF GetDataPaths, Asks, Errs
  <2> QED BY <2>1 DEF DataPathInv, LimitsReadBack
<1>4. ASSUME NEW dpName \in DpNames, NEW zone \in LimitMaps, SetCTLimits(dpName, zone)
      PROVE  DataPathInv'
  BY <1>4, SetStep
<1>5. ASSUME NEW dpName \in DpNames, NEW zones \in ZoneLists, DelCTLimits(dpName, zones)
      PROVE  DataPathInv'
  BY <1>5, DelStep
<1>6. ASSUME NEW dpName \in DpNames, NEW zones \in ZoneLists, ReadCTLimits(dpName, zones)
      PROVE  DataPathInv'
  BY <1>6, ReadStep
<1> QED BY <1>1, <1>2, <1>3, <1>4, <1>5, <1>6 DEF DataPathNext

(* The invariant holds without a datapath.                                 *)
LEMMA DataPathStart == DataPathInit => DataPathInv
BY NoDatapathIsOne DEF DataPathInit, DataPathInv, LimitsReadBack

(* The invariant holds after any sequence of calls.                        *)
LEMMA DataPathInvariant == DataPathSpec => []DataPathInv
<1>1. DataPathInv /\ [DataPathNext]_dataPathVars => DataPathInv'
  <2> SUFFICES ASSUME DataPathInv, [DataPathNext]_dataPathVars PROVE DataPathInv'
    OBVIOUS
  <2>1. CASE DataPathNext
    BY <2>1, DataPathStep DEF DataPathInv
  <2>2. CASE UNCHANGED dataPathVars
    BY <2>2 DEF DataPathInv, LimitsReadBack, dataPathVars
  <2> QED BY <2>1, <2>2
<1> QED BY <1>1, DataPathStart, PTL DEF DataPathSpec

(* The datapath is well formed after any calls, and has no limits when it  *)
(* does not exist.                                                         *)
THEOREM DataPathType == DataPathSpec => []DataPathTypeOK
<1>1. DataPathInv => DataPathTypeOK
  BY DEF DataPathInv, Kernel, DataPathTypeOK
<1> QED BY <1>1, DataPathInvariant, PTL

(* After any sequence of calls GetCTLimits returns the default limit and   *)
(* the limit of every zone asked for, or of each zone that has one of its  *)
(* own.                                                                    *)
THEOREM LimitsAreReadBack == DataPathSpec => []LimitsReadBack
<1>1. DataPathInv => LimitsReadBack
  BY DEF DataPathInv
<1> QED BY <1>1, DataPathInvariant, PTL
=============================================================================
