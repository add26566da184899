---------------------------- MODULE ActionTokens ----------------------------
(***************************************************************************)
(* How the action parser (ovs/actionparser.go) cuts its input into the     *)
(* texts of single actions: at the commas outside parentheses.  The input  *)
(* is a sequence over "(", ")", "," and "x", which is any other character; *)
(* parseAction rejects an empty text and takes the others here.            *)
(***************************************************************************)
EXTENDS Integers, Sequences, FiniteSets, SequencesExt

Chars == {"(", ")", ",", "x"}

newActionParser == [depth |-> 0, buf |-> <<>>, pieces |-> <<>>, end |-> "reading"]

(* The end of one action: an error if a parenthesis is open. *)
Piece(p) ==
    IF p.depth > 0 \/ p.buf = <<>> THEN [p EXCEPT !.end = "error"]
    ELSE [p EXCEPT !.buf = <<>>, !.pieces = Append(@, p.buf)]

(* Mutant of Read: a comma ends an action inside parentheses as well. *)
ReadAnyComma(p, ch) ==
    IF p.end # "reading" THEN p
    ELSE IF ch = "," THEN Piece([p EXCEPT !.depth = 0])
    ELSE [p EXCEPT !.buf = Append(@, ch)]

(* The stack of open parentheses is its depth; pop of an empty one slices  *)
(* below zero and panics.                                                  *)
Read(p, ch) ==
    IF p.end # "reading" THEN p
    ELSE IF ch = "," /\ p.depth = 0 THEN Piece(p)
    ELSE IF ch = ")" /\ p.depth = 0 THEN [p EXCEPT !.end = "panic"]
    ELSE [p EXCEPT !.buf = Append(@, ch),
                   !.depth = IF ch = "(" THEN @ + 1 ELSE IF ch = ")" THEN @ - 1 ELSE @]

(* At the end of the input there may be nothing after the last comma. *)
AtEOF(p) ==
    IF p.end # "reading" THEN p
    ELSE IF p.buf = <<>> THEN [p EXCEPT !.end = "ok"]
    ELSE LET q == Piece(p) IN IF q.end = "error" THEN q ELSE [q EXCEPT !.end = "ok"]

Parse(chars) ==
    LET read[i \in 0 .. Len(chars)] ==
            IF i = 0 THEN newActionParser ELSE Read(read[i - 1], chars[i])
    IN  AtEOF(read[Len(chars)])

-----------------------------------------------------------------------------
(* Properties                                                              *)

Depth(cs, i) == Cardinality({j \in 1 .. i : cs[j] = "("}) - Cardinality({j \in 1 .. i : cs[j] = ")"})
Closed(cs) == \A i \in 1 .. Len(cs) : Depth(cs, i) >= 0
Balanced(cs) == Closed(cs) /\ Depth(cs, Len(cs)) = 0
Joined(pieces) ==
    LET joined[i \in 0 .. Len(pieces)] ==
            IF i = 0 THEN <<>> ELSE joined[i - 1] \o pieces[i] \o <<",">>
    IN  joined[Len(pieces)]

(* The cut of a text: Parse of actionparser.go succeeds exactly on the     *)
(* texts with matching parentheses and no empty action; then the actions   *)
(* are the text, none is empty, and no comma outside parentheses is left   *)
(* in one.  It panics only where a parenthesis closes that is not open.    *)
CutExact(cs) ==
    LET r == Parse(cs)
        outer(s) == \E i \in 1 .. Len(s) : s[i] = "," /\ Depth(s, i) = 0
        empty == \E i \in 1 .. Len(cs) : cs[i] = "," /\ Depth(cs, i) = 0
                    /\ (i = 1 \/ (cs[i - 1] = "," /\ Depth(cs, i - 1) = 0))
    IN  /\ r.end = "ok" <=> (Balanced(cs) /\ ~empty)
        /\ r.end = "panic" => ~Closed(cs)
        /\ r.end = "ok" =>
              /\ Joined(r.pieces) \in {cs, cs \o <<",">>}
              /\ \A i \in 1 .. Len(r.pieces) :
                    r.pieces[i] # <<>> /\ Balanced(r.pieces[i]) /\ ~outer(r.pieces[i])
=============================================================================
