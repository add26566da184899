------------------------------ MODULE DataPath ------------------------------
(***************************************************************************)
(* DataPathService (ovs/datapath.go) with one datapath: it is added and    *)
(* deleted, and the limits of its zones are set, deleted and read.  The    *)
(* kernel behind ovs-dpctl is external.  The name of a datapath is empty   *)
(* or not; a map given to SetCTLimits is a function on its keys.           *)
(***************************************************************************)
EXTENDS CtLimits, PartialFunctions

CONSTANTS
    ZoneLists,   \* lists of zones
    LimitMaps    \* what is given to SetCTLimits

(* A zone and a limit are numbers. *)
ASSUME LimitsAssumption ==
    /\ ZoneLists \subseteq Seq(Nat)
    /\ \A zone \in LimitMaps : \A key \in DOMAIN zone : zone[key] \in Nat

VARIABLES
    datapath,   \* the kernel's: whether it exists, its default limit, its zones
    asked,      \* the last call: its name and the zones it was given
    answer      \* what it returned, and whether that is an error

dataPathVars == <<datapath, asked, answer>>

NoName == ""
NoDatapath == [exists |-> FALSE, default |-> 0, zones |-> <<>>]
NewDatapath == [exists |-> TRUE, default |-> 0, zones |-> <<>>]

DataPathInit ==
    /\ datapath = NoDatapath
    /\ asked = [op |-> "none", zones |-> <<>>]
    /\ answer = [ok |-> TRUE, names |-> <<>>, limits |-> <<>>]

-----------------------------------------------------------------------------
(* External: ovs-dpctl                                                     *)

LimitOf(d, z) == IF z \in DOMAIN d.zones THEN d.zones[z] ELSE d.default

(* ct-get-limits: the default limit, and the zones that were asked for, or *)
(* else those with a limit of their own.                                   *)
PrintLimits(d, zones) ==
    LET shown == IF zones = <<>> THEN SetToSeq(DOMAIN d.zones) ELSE zones
    IN  <<DefaultLine(d.default)>>
          \o [i \in DOMAIN shown |-> ZoneLine(shown[i], LimitOf(d, shown[i]))]

-----------------------------------------------------------------------------
(* The calls.  A command fails without a datapath, or for its own reasons. *)

Asks(op, zones) == asked' = [op |-> op, zones |-> zones]
Answers(ok, names, limits) == answer' = [ok |-> ok, names |-> names, limits |-> limits]
Errs == Answers(FALSE, <<>>, <<>>) /\ UNCHANGED datapath

AddDataPath ==
    /\ Asks("add-dp", <<>>)
    /\ \/ /\ ~datapath.exists /\ datapath' = NewDatapath
          /\ Answers(TRUE, <<>>, <<>>)
       \/ Errs

DelDataPath ==
    /\ Asks("del-dp", <<>>)
    /\ \/ datapath.exists /\ datapath' = NoDatapath /\ Answers(TRUE, <<>>, <<>>)
       \/ Errs

(* An empty output is split into one empty name. *)
GetDataPaths ==
    /\ Asks("dump-dps", <<>>)
    /\ \/ /\ Answers(TRUE, <<IF datapath.exists THEN "system" ELSE NoName>>, <<>>)
          /\ UNCHANGED datapath
       \/ Errs

SetCTLimits(dpName, zone) ==
    /\ Asks("ct-set-limits", <<>>)
    /\ \/ /\ dpName # NoName /\ ctSetLimitsArgs(DOMAIN zone).ok /\ datapath.exists
          /\ datapath' = IF "default" \in DOMAIN zone
                         THEN [datapath EXCEPT !.default = zone["default"]]
                         ELSE [datapath EXCEPT !.zones = Over(Single(zone["zone"], zone["limit"]), @)]
          /\ Answers(TRUE, <<>>, <<>>)
       \/ Errs

(* Mutant of getZoneString: the first zone is taken off and forgotten. *)
getZoneStringRest(z) == IF z = <<>> THEN <<>> ELSE Tail(z)

(* The list behind "zone=": the first zone, then each of the others after  *)
(* a comma.  Without a zone there is no list.                              *)
getZoneString(z) == IF z = <<>> THEN <<>> ELSE <<Head(z)>> \o Tail(z)

(* The list is made by a loop of its own. *)
DelCTLimits(dpName, zones) ==
    /\ Asks("ct-del-limits", zones)
    /\ \/ /\ dpName # NoName /\ zones # <<>> /\ datapath.exists
          /\ LET zonesStr == <<Head(zones)>> \o Tail(zones)
             IN  datapath' = [datapath EXCEPT
                                !.zones = Without(@, ToSet(zonesStr))]
          /\ Answers(TRUE, <<>>, <<>>)
       \/ Errs

(* GetCTLimits: the command, and the reading of its reply. *)
ReadCTLimits(dpName, zones) ==
    /\ Asks("ct-get-limits", zones)
    /\ \/ /\ dpName # NoName /\ datapath.exists
          /\ Answers(TRUE, <<>>, <<GetCTLimits(PrintLimits(datapath, getZoneString(zones)))>>)
          /\ UNCHANGED datapath
       \/ Errs

DpNames == {NoName, "system"}

DataPathNext ==
    \/ AddDataPath \/ DelDataPath \/ GetDataPaths
    \/ \E dpName \in DpNames :
         \/ \E zone \in LimitMaps : SetCTLimits(dpName, zone)
         \/ \E zones \in ZoneLists : DelCTLimits(dpName, zones) \/ ReadCTLimits(dpName, zones)

DataPathSpec == DataPathInit /\ [][DataPathNext]_dataPathVars

-----------------------------------------------------------------------------
(* Properties                                                              *)

(* The datapath holds limits of zones, and none when it does not exist.    *)
DataPathTypeOK ==
    /\ DOMAIN datapath.zones \subseteq Nat
    /\ datapath \in [exists : BOOLEAN, default : Nat, zones : [DOMAIN datapath.zones -> Nat]]
    /\ ~datapath.exists => datapath = NoDatapath

(* GetCTLimits returns the default limit and, in the order of the call,    *)
(* every zone that was asked for with the limit that it has after all that *)
(* was set and deleted before; without zones it returns those with a limit *)
(* of their own, each once.                                                *)
LimitsReadBack ==
    LET out    == answer.limits[1]
        zoneOf(i)  == out.zones[i][1].n
        limitOf(i) == out.zones[i][2].n
        places == DOMAIN out.zones
    IN  asked.op = "ct-get-limits" /\ answer.ok =>
            /\ out.end = "ok" /\ out.limit = <<datapath.default>>
            /\ \A i \in places : limitOf(i) = LimitOf(datapath, zoneOf(i))
            /\ IF asked.zones = <<>>
               THEN /\ {zoneOf(i) : i \in places} = DOMAIN datapath.zones
                    /\ Len(out.zones) = Cardinality(DOMAIN datapath.zones)
               ELSE [i \in places |-> zoneOf(i)] = asked.zones
=============================================================================
