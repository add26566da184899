------------------------- MODULE SharedFlags_proofs -------------------------
(* Proofs about SharedFlags, for any number of goroutines and options. *)
EXTENDS SharedFlags, SequenceTheorems, TLAPS

(* No command has as few words as either array has room for. *)
Tight == \A s \in Slices : Spare(s) < 2

Word == Bridges \cup {"dump-ports", "dump-aggregate", "flow", "port"}

LenTypeOK == len \in [Slices -> Nat] /\ cap \in [Slices -> Nat]

(* What a caller asks for. *)
CallOK(c) ==
    /\ call[c].words \in Seq(Word) /\ Len(call[c].words) >= 2
    /\ call[c].port \in Seq(Word)

(* The array of its slice is its own, and holds its words. *)
ArgsOK(c) ==
    /\ args[c].array = "own"
    /\ pc[c] = "port" => args[c].words = call[c].words
    /\ pc[c] \in {"exec", "run"} => args[c].words = Wanted(c)
    /\ pc[c] = "done" => ran[c] = Wanted(c)

CallerOK(c) ==
    /\ pc[c] \in {"idle", "append", "port", "exec", "run", "done"}
    /\ pc[c] # "idle" => CallOK(c)
    /\ Tight /\ pc[c] \notin {"idle", "append"} => ArgsOK(c)

FunctionsOK ==
    /\ DOMAIN pc = Callers /\ DOMAIN call = Callers
    /\ DOMAIN args = Callers /\ DOMAIN ran = Callers
    /\ \A c \in Callers : DOMAIN args[c] = {"array", "n", "words"}

IInv == LenTypeOK /\ FunctionsOK /\ \A c \in Callers : CallerOK(c)

(* An append of two words or more to a tight array goes to a new one. *)
LEMMA AppendCopies ==
    ASSUME LenTypeOK, Tight, NEW c \in Callers, NEW s \in Slices, NEW behind \in Nat,
           NEW more \in Seq(Word), Len(more) >= 2, Append2(c, s, behind, 0, more)
    PROVE  args' = [args EXCEPT ![c] = [array |-> "own", n |-> 0, words |-> more]]
<1>1. Len(more) \in Nat /\ Spare(s) < 2 /\ Spare(s) \in Int
  BY LenProperties DEF Tight, Spare, LenTypeOK
<1>2. ~(behind + (0 + Len(more)) <= Spare(s))
  BY <1>1
<1>3. [i \in 1 .. 0 |-> cells[s][i]] \o more = more
  <2>1. [i \in 1 .. 0 |-> cells[s][i]] = <<>>
    OBVIOUS
  <2> QED BY <2>1, ConcatEmptySeq
<1> QED BY <1>2, <1>3 DEF Append2

(* Whatever else it does, an append gives its caller a slice. *)
LEMMA AppendSlice ==
    ASSUME FunctionsOK, NEW c \in Callers, NEW s, NEW behind, NEW k, NEW more,
           Append2(c, s, behind, k, more)
    PROVE  /\ DOMAIN args' = Callers
           /\ \A d \in Callers : DOMAIN args'[d] = {"array", "n", "words"}
           /\ \A d \in Callers \ {c} : args'[d] = args[d]
BY DEF Append2, FunctionsOK

(* The other callers do not notice a step of c. *)
LEMMA OthersKeep ==
    ASSUME IInv, NEW c \in Callers, UNCHANGED <<len, cap>>,
           NEW d \in Callers, d # c,
           pc'[d] = pc[d], call'[d] = call[d], args'[d] = args[d], ran'[d] = ran[d]
    PROVE  CallerOK(d)'
<1>1. Tight' <=> Tight
  BY DEF Tight, Spare
<1>2. CallerOK(d)
  BY DEF IInv
<1> QED BY <1>1, <1>2 DEF CallerOK, CallOK, ArgsOK, Wanted

(* A new call asks for two words or more. *)
LEMMA CallsKeep ==
    ASSUME IInv, NEW c \in Callers, Calls(c)
    PROVE  IInv'
<1>1. PICK w \in Seq(Word), p \in Seq(Word) :
         /\ Len(w) >= 2
         /\ call' = [call EXCEPT ![c] = [words |-> w, port |-> p]]
  <2>1. PICK b \in Bridges : DumpPorts(c, b) \/ DumpPort(c, b) \/ DumpAggregate(c, b)
    BY DEF Calls
  <2>2. /\ <<"dump-ports", b>> \in Seq(Word) /\ Len(<<"dump-ports", b>>) >= 2
        /\ <<"dump-aggregate", b, "flow">> \in Seq(Word)
        /\ Len(<<"dump-aggregate", b, "flow">>) >= 2
        /\ <<>> \in Seq(Word) /\ <<"port">> \in Seq(Word)
    BY DEF Word
  <2>3. CASE DumpPorts(c, b)
    BY <2>2, <2>3, Zenon DEF DumpPorts
  <2>4. CASE DumpPort(c, b)
    BY <2>2, <2>4, Zenon DEF DumpPort
  <2>5. CASE DumpAggregate(c, b)
    BY <2>2, <2>5, Zenon DEF DumpAggregate
  <2> QED BY <2>1, <2>3, <2>4, <2>5
<1>2. Goes(c, "idle", "append") /\ UNCHANGED <<len, cap, args, ran>>
  BY DEF Calls, DumpPorts, DumpPort, DumpAggregate
<1>3. LenTypeOK' /\ FunctionsOK'
  BY <1>1, <1>2 DEF IInv, LenTypeOK, FunctionsOK, Goes
<1>4. CallerOK(c)'
  BY <1>1, <1>2 DEF IInv, FunctionsOK, Goes, CallerOK, CallOK
<1>5. ASSUME NEW d \in Callers, d # c PROVE CallerOK(d)'
  BY <1>1, <1>2, <1>5, OthersKeep DEF IInv, FunctionsOK, Goes
<1> QED BY <1>3, <1>4, <1>5 DEF IInv

(* A step of a call keeps its words in an array of its own. *)
LEMMA StepKeeps ==
    ASSUME IInv, NEW c \in Callers, Step(c)
    PROVE  IInv'
<1>1. /\ UNCHANGED <<len, cap, call>> /\ pc[c] # "idle"
      /\ DOMAIN pc' = Callers /\ \A d \in Callers \ {c} : pc'[d] = pc[d]
  BY DEF Step, AppendToOfctlFlags, AppendPort, AppendToFlags, ExecFunc, Goes, IInv,
         FunctionsOK
<1>2. CallOK(c) /\ FunctionsOK /\ LenTypeOK /\ CallerOK(c)
  BY <1>1 DEF IInv, CallerOK
<1>3. CallOK(c)' /\ (Tight' <=> Tight) /\ Wanted(c)' = Wanted(c)
  BY <1>1, <1>2 DEF CallOK, Tight, Spare, Wanted
<1>4. Wanted(c) \in Seq(Word) /\ Len(Wanted(c)) >= 2
  <2>1. /\ Wanted(c) \in Seq(Word)
        /\ Len(Wanted(c)) = Len(call[c].words) + Len(call[c].port)
    BY <1>2, ConcatProperties, Zenon DEF CallOK, Wanted
  <2>2. Len(call[c].words) \in Nat /\ Len(call[c].port) \in Nat
    BY <1>2, LenProperties DEF CallOK
  <2>3. Len(call[c].words) >= 2
    BY <1>2 DEF CallOK
  <2>4. \A m, n \in Nat : m >= 2 => m + n >= 2
    OBVIOUS
  <2>5. Len(Wanted(c)) >= 2
    BY <2>1, <2>2, <2>3, <2>4, Zenon
  <2> QED BY <2>1, <2>5, Zenon
<1>5. CASE AppendToOfctlFlags(c)
  <2>1. /\ Append2(c, "ofctlFlags", 0, 0, call[c].words) /\ ran' = ran
        /\ pc'[c] = "port"
    BY <1>2, <1>5 DEF AppendToOfctlFlags, Goes, FunctionsOK
  <2>2. Tight => args'[c] = [array |-> "own", n |-> 0, words |-> call[c].words]
    BY <1>2, <2>1, AppendCopies DEF CallOK, FunctionsOK, Slices
  <2>3. CallerOK(c)'
    BY <1>1, <1>3, <2>1, <2>2 DEF CallerOK, ArgsOK
  <2>4. /\ DOMAIN args' = Callers
        /\ \A d \in Callers : DOMAIN args'[d] = {"array", "n", "words"}
        /\ \A d \in Callers \ {c} : args'[d] = args[d]
    BY <1>2, <2>1, AppendSlice
  <2>5. ASSUME NEW d \in Callers, d # c PROVE CallerOK(d)'
    BY <1>1, <2>1, <2>4, <2>5, OthersKeep
  <2> QED BY <1>1, <1>2, <2>1, <2>3, <2>4, <2>5 DEF IInv, FunctionsOK, LenTypeOK
<1>6. CASE AppendPort(c)
  <2>1. ran' = ran /\ pc[c] = "port" /\ pc'[c] = "exec"
    BY <1>2, <1>6 DEF AppendPort, Goes, FunctionsOK
  <2>2. /\ DOMAIN args' = Callers
        /\ \A d \in Callers : DOMAIN args'[d] = {"array", "n", "words"}
        /\ \A d \in Callers \ {c} : args'[d] = args[d]
    <3>1. CASE UNCHANGED args
      BY <1>2, <3>1 DEF FunctionsOK
    <3>2. CASE args' = [args EXCEPT ![c].words = @ \o call[c].port]
      BY <1>2, <3>2 DEF FunctionsOK
    <3>3. CASE Append2(c, "ofctlFlags", 0, args[c].n, call[c].port)
      BY <1>2, <3>3, AppendSlice
    <3> QED BY <1>6, <3>1, <3>2, <3>3 DEF AppendPort
  <2>3. Tight => args'[c].array = "own" /\ args'[c].words = Wanted(c)
    <3> SUFFICES ASSUME Tight
                 PROVE  args'[c].array = "own" /\ args'[c].words = Wanted(c)
      OBVIOUS
    <3>1. args[c].array = "own" /\ args[c].words = call[c].words
      BY <1>2, <2>1 DEF CallerOK, ArgsOK
    <3>2. CASE call[c].port = <<>>
      <4>1. args' = args
        BY <1>6, <3>2 DEF AppendPort
      <4>2. Wanted(c) = call[c].words
        BY <1>2, <3>2, ConcatEmptySeq DEF Wanted, CallOK
      <4> QED BY <3>1, <4>1, <4>2
    <3>3. CASE call[c].port # <<>>
      <4>1. args' = [args EXCEPT ![c].words = @ \o call[c].port]
        BY <1>6, <3>1, <3>3 DEF AppendPort
      <4> QED BY <1>2, <3>1, <4>1 DEF FunctionsOK, Wanted
    <3> QED BY <3>2, <3>3
  <2>4. CallerOK(c)'
    BY <1>3, <2>1, <2>3 DEF CallerOK, ArgsOK
  <2>5. ASSUME NEW d \in Callers, d # c PROVE CallerOK(d)'
    BY <1>1, <2>1, <2>2, <2>5, OthersKeep
  <2> QED BY <1>1, <1>2, <2>1, <2>2, <2>4, <2>5 DEF IInv, FunctionsOK, LenTypeOK
<1>7. CASE AppendToFlags(c)
  <2>1. /\ Append2(c, "flags", len["ofctlFlags"], 0, Words(args[c])) /\ ran' = ran
        /\ pc[c] = "exec" /\ pc'[c] = "run"
    BY <1>2, <1>7 DEF AppendToFlags, Goes, FunctionsOK
  <2>2. ASSUME Tight
        PROVE  args'[c] = [array |-> "own", n |-> 0, words |-> Wanted(c)]
    <3>1. Words(args[c]) = Wanted(c)
      BY <1>2, <2>1, <2>2 DEF CallerOK, ArgsOK, Words
    <3>2. len["ofctlFlags"] \in Nat /\ "flags" \in Slices
      BY <1>2 DEF LenTypeOK, Slices
    <3>3. Append2(c, "flags", len["ofctlFlags"], 0, Wanted(c))
      BY <2>1, <3>1
    <3>4. args' = [args EXCEPT ![c] = [array |-> "own", n |-> 0, words |-> Wanted(c)]]
      BY <1>2, <1>4, <2>2, <3>2, <3>3, AppendCopies
    <3> QED BY <1>2, <3>4 DEF FunctionsOK
  <2>3. CallerOK(c)'
    BY <1>1, <1>3, <2>1, <2>2 DEF CallerOK, ArgsOK
  <2>4. /\ DOMAIN args' = Callers
        /\ \A d \in Callers : DOMAIN args'[d] = {"array", "n", "words"}
        /\ \A d \in Callers \ {c} : args'[d] = args[d]
    BY <1>2, <2>1, AppendSlice
  <2>5. ASSUME NEW d \in Callers, d # c PROVE CallerOK(d)'
    BY <1>1, <2>1, <2>4, <2>5, OthersKeep
  <2> QED BY <1>1, <1>2, <2>1, <2>3, <2>4, <2>5 DEF IInv, FunctionsOK, LenTypeOK
<1>8. CASE ExecFunc(c)
  <2>1. /\ ran' = [ran EXCEPT ![c] = Words(args[c])] /\ args' = args
        /\ pc[c] = "run" /\ pc'[c] = "done"
    BY <1>2, <1>8 DEF ExecFunc, Goes, FunctionsOK
  <2>2. CallerOK(c)'
    BY <1>2, <1>3, <2>1 DEF CallerOK, ArgsOK, Words, FunctionsOK
  <2>3. ASSUME NEW d \in Callers, d # c PROVE CallerOK(d)'
    BY <1>1, <1>2, <2>1, <2>3, OthersKeep DEF FunctionsOK
  <2> QED BY <1>1, <1>2, <2>1, <2>2, <2>3 DEF IInv, FunctionsOK, LenTypeOK
<1> QED BY <1>5, <1>6, <1>7, <1>8 DEF Step

(* New appends flags before there are calls. *)
LEMMA NewKeeps == ASSUME IInv, New PROVE IInv'
<1>1. PICK s \in Slices, n \in Nat : OptionFunc(s, n)
  BY DEF New, Slices
<1>2. /\ \A c \in Callers : pc[c] = "idle"
      /\ UNCHANGED <<pc, call, args, ran>>
  BY <1>1 DEF OptionFunc
<1>3. LenTypeOK'
  BY <1>1 DEF OptionFunc, IInv, LenTypeOK, Grow
<1>4. \A c \in Callers : CallerOK(c)'
  BY <1>2 DEF CallerOK
<1> QED BY <1>2, <1>3, <1>4 DEF IInv, FunctionsOK

(* As long as neither slice has room for two more words (which New leaves  *)
(* unless SetSSLParam comes right before one other option of ovs-ofctl, or *)
(* there are many options), every command runs with the words of its own   *)
(* caller.                                                                 *)
THEOREM TightIsSafe == Spec => [](Tight => OwnArguments)
<1>1. Init => IInv
  BY DEF Init, IInv, LenTypeOK, FunctionsOK, CallerOK, NoArgs, Slices
<1>2. IInv /\ [Next]_vars => IInv'
  <2> SUFFICES ASSUME IInv, [Next]_vars PROVE IInv'
    OBVIOUS
  <2>1. CASE Next
    BY <2>1, NewKeeps, CallsKeep, StepKeeps DEF Next
  <2>2. CASE UNCHANGED vars
    BY <2>2 DEF vars, IInv, LenTypeOK, FunctionsOK, CallerOK, CallOK, ArgsOK, Wanted,
                Tight, Spare
  <2> QED BY <2>1, <2>2
<1>3. IInv => (Tight => OwnArguments)
  BY DEF IInv, CallerOK, ArgsOK, OwnArguments
<1> QED BY <1>1, <1>2, <1>3, PTL DEF Spec
=============================================================================
