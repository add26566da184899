--------------------------- MODULE MCOvsdbClient ---------------------------
(* OvsdbClient with a few threads, for TLC. *)
EXTENDS OvsdbClient, TLC

(* Users are interchangeable; the echo loop is not one of them. *)
UserSymmetry == Permutations(User)
=============================================================================
