-------------------------- MODULE PartialFunctions --------------------------
(***************************************************************************)
(* Maps and tables as functions on the keys they have: the operators :>    *)
(* and @@ of TLC, with definitions that the provers can expand.            *)
(***************************************************************************)

(* The map with one key. *)
Single(x, v) == [y \in {x} |-> v]

(* The map f with the entries of g written over it. *)
Over(g, f) == [x \in DOMAIN g \cup DOMAIN f |-> IF x \in DOMAIN g THEN g[x] ELSE f[x]]

(* The map f without the keys of S. *)
Without(f, S) == [x \in DOMAIN f \ S |-> f[x]]
=============================================================================
