------------------------- MODULE OvsdbClient_proofs -------------------------
(***************************************************************************)
(* Proofs about OvsdbClient, for any set of threads, any capacity of the   *)
(* stream, any faults of the peer and any bounds.                          *)
(***************************************************************************)
EXTENDS OvsdbClient, SequenceTheorems, TLAPS

Elems(s) == {s[i] : i \in DOMAIN s}

(* Every request the client has put on the stream, wherever it is now. *)
Wire == Elems(outbox) \cup pending \cup answered

(* A message with an ID answers a request that the server has answered. *)
Genuine(m) == m.id # 0 => [id |-> m.id, from |-> m.from] \in answered

(* A thread has an ID exactly while it is past requestID, no two threads   *)
(* have the same, and the counter is ahead of all of them.                 *)
IDsDistinct ==
    /\ \A t \in Thread :
          /\ rid[t] <= rpcID
          /\ pc[t] \in {"idle", "start"} => rid[t] = 0
          /\ pc[t] \in InCall => rid[t] # 0
    /\ \A s, t \in Thread : rid[s] = rid[t] /\ rid[s] # 0 => s = t

(* A request on the wire with the ID of a thread was sent by that thread.  *)
WireOwner ==
    \A r \in Wire :
       /\ r.id # 0 /\ r.id <= rpcID
       /\ \A t \in Thread :
             r.id = rid[t] => /\ r.from = t
                              /\ pc[t] \in {"await", "cleanup", "returned"}

(* What listen has read or will read. *)
RepliesGenuine ==
    /\ \A m \in Elems(inbox) : Genuine(m)
    /\ Genuine(lmsg)

(* What a response channel holds. *)
ChanGenuine ==
    \A t \in Thread :
       \/ ch[t].buf = <<>>
       \/ \E m \in Elems(ch[t].buf) :
             /\ ch[t].buf = <<m>>
             /\ m.id = rid[t] /\ m.id # 0
             /\ Genuine(m)

(* The channel of a registered callback has not been used. *)
FreshChan == \A cb \in callbacks : ch[cb.owner] = NewChan

(* A channel that was closed empty belongs to a canceled call. *)
ClosedEmptyCanceled ==
    \A t \in Thread :
       /\ ch[t].closed /\ ch[t].buf = <<>>
       /\ pc[t] \in {"lock", "write", "await"}
       => ctxDone[t]

(* doCallback holds cbMu, so its callback stays registered. *)
DispatchRegistered == CbMuHeld => Registered(lmsg.id) # {}

(* Only a message without an ID or a null result makes the client panic. *)
Odd(m) == m.kind = "notify" \/ m.body = "null"

OddSeen ==
    \/ panicked
    \/ \E m \in Elems(inbox) : Odd(m)
    \/ Odd(lmsg)
    \/ \E t \in Thread : \E m \in Elems(ch[t].buf) : Odd(m)

PanicByOdd ==
    /\ spent["odd"] <= MaxOdd
    /\ OddSeen => spent["odd"] > 0

(* Close cancels the context before it closes the socket. *)
CancelBeforeClose ==
    /\ cpc # "open" => ctxDone[EchoLoop]
    /\ closed => cpc # "open"
    /\ encErr = "closed" => closed

(* The conjuncts about whose answer goes where. *)
RoutingInv ==
    /\ IDsDistinct /\ WireOwner /\ RepliesGenuine /\ ChanGenuine
    /\ CallbackOwned /\ FreshChan
    /\ OwnReply

(* The echo loop is in rpc only while it handles an echo. *)
EchoLoopIdle == epc # "rpc" => pc[EchoLoop] = "idle"

IInv ==
    /\ RoutingInv
    /\ EchoLoopIdle
    /\ ClosedEmptyCanceled /\ NoSilentSuccess
    /\ DispatchRegistered
    /\ PanicByOdd
    /\ CancelBeforeClose /\ ClosedMeansCanceled

-----------------------------------------------------------------------------
(* Sequences                                                               *)

(* What decoding one message, or reading one request, leaves of a queue.   *)
LEMMA TailElems ==
    ASSUME NEW S, NEW s \in Seq(S), s # <<>>
    PROVE  /\ Head(s) \in S /\ Tail(s) \in Seq(S)
           /\ Head(s) \in Elems(s)
           /\ Elems(Tail(s)) \subseteq Elems(s)
<1>1. /\ Head(s) \in S /\ Tail(s) \in Seq(S)
      /\ Len(s) \in Nat /\ Len(s) # 0
      /\ Len(Tail(s)) = Len(s) - 1
      /\ \A i \in 1 .. Len(Tail(s)) : Tail(s)[i] = s[i+1]
      /\ Head(s) = s[1]
  BY HeadTailProperties, EmptySeq
<1>2. DOMAIN s = 1 .. Len(s) /\ DOMAIN Tail(s) = 1 .. Len(Tail(s))
  BY <1>1, LenProperties
<1> QED
  BY <1>1, <1>2 DEF Elems

(* What a Write, or the server, adds to a queue. *)
LEMMA AppendElems ==
    ASSUME NEW S, NEW s \in Seq(S), NEW e \in S
    PROVE  /\ Append(s, e) \in Seq(S)
           /\ Elems(Append(s, e)) = Elems(s) \cup {e}
<1>1. /\ Append(s, e) \in Seq(S)
      /\ Len(s) \in Nat
      /\ Len(Append(s, e)) = Len(s) + 1
      /\ \A i \in 1 .. Len(s) : Append(s, e)[i] = s[i]
      /\ Append(s, e)[Len(s) + 1] = e
  BY AppendProperties, LenProperties
<1>2. /\ DOMAIN s = 1 .. Len(s)
      /\ DOMAIN Append(s, e) = 1 .. Len(s) + 1
  BY <1>1, LenProperties
<1> QED
  BY <1>1, <1>2 DEF Elems

(* What a closed socket, or a reset, leaves of a queue. *)
LEMMA PrefixElems ==
    ASSUME NEW S, NEW s \in Seq(S), NEW n \in 0 .. Len(s)
    PROVE  /\ SubSeq(s, 1, n) \in Seq(S)
           /\ Elems(SubSeq(s, 1, n)) \subseteq Elems(s)
<1>1. Len(s) \in Nat /\ DOMAIN s = 1 .. Len(s)
  BY LenProperties
<1>2. \A i \in 1 .. n : i \in 1 .. Len(s)
  BY <1>1
<1>3. \A i \in 1 .. n : s[i] \in S
  BY <1>1, <1>2, ElementOfSeq
<1>4. /\ SubSeq(s, 1, n) \in Seq(S)
      /\ Len(SubSeq(s, 1, n)) = n
      /\ \A i \in 1 .. n : SubSeq(s, 1, n)[i] = s[i]
  BY <1>1, <1>3, SubSeqProperties
<1>5. DOMAIN SubSeq(s, 1, n) = 1 .. n
  BY <1>4, LenProperties
<1> QED
  BY <1>1, <1>2, <1>4, <1>5 DEF Elems

-----------------------------------------------------------------------------
(* Type correctness                                                        *)

(* Counting an event keeps the counters natural numbers. *)
LEMMA SpendType ==
    ASSUME NEW k \in {"call", "tick", "echo", "noise", "odd", "close"},
           spent \in [DOMAIN Bound -> Nat], Spend(k)
    PROVE  spent' \in [DOMAIN Bound -> Nat]
BY DEF Bound, Spend

(* Every step of the conn, the server and the goroutines keeps the types. *)
LEMMA TypeStep == TypeOK /\ [Next]_vars => TypeOK'
<1> SUFFICES ASSUME TypeOK PROVE [Next]_vars => TypeOK'
  OBVIOUS
<1>0. SUFFICES ASSUME [Next]_vars PROVE TypeOK'
  OBVIOUS
<1> USE DEF TypeOK, ConnTypeOK, User, vars, connVars, sendVars, recvVars, srvVars,
        rpcVars, loopVars, GoTo, Return, Outcome, NewChan,
        InCall, Result
<1>1. ASSUME NEW t \in User, Call(t) \/ Cancel(t) \/ UserReturns(t) PROVE TypeOK'
  <2>1. CASE Call(t)
    BY <2>1, SpendType DEF Call
  <2>2. CASE Cancel(t)
    BY <2>2 DEF Cancel
  <2>3. CASE UserReturns(t)
    BY <2>3 DEF UserReturns, Forget
  <2> QED BY <1>1, <2>1, <2>2, <2>3
<1>2. ASSUME NEW t \in Thread, Rpc(t) PROVE TypeOK'
  <2>1. CASE CanceledBefore(t)
    BY <2>1 DEF CanceledBefore
  <2>2. CASE RequestID(t)
    BY <2>2 DEF RequestID, NextID
  <2>3. CASE AddCallback(t)
    BY <2>3 DEF AddCallback, Callback
  <2>4. CASE SendLock(t)
    BY <2>4 DEF SendLock, LockEnc
  <2>5. CASE SendOK(t)
    <3>1. [id |-> rid[t], from |-> t] \in Request
      BY DEF Request
    <3>2. outbox' \in Seq(Request)
      BY <2>5, <3>1, AppendElems DEF SendOK, EncodeOK
    <3> QED BY <2>5, <3>2 DEF SendOK, EncodeOK
  <2>6. CASE SendFail(t)
    BY <2>6 DEF SendFail, EncodeFail, WriteErr
  <2>7. CASE SendUnmarshalable(t)
    BY <2>7 DEF SendUnmarshalable, EncodeUnmarshalable
  <2>8. CASE AwaitCanceled(t)
    BY <2>8 DEF AwaitCanceled
  <2>9. CASE AwaitResponse(t)
    <3>1. Head(ch[t].buf) \in Response /\ Tail(ch[t].buf) \in Seq(Response)
      BY <2>9, TailElems DEF AwaitResponse
    <3>2. ch' \in [Thread -> [buf : Seq(Response), closed : BOOLEAN]]
      BY <2>9, <3>1 DEF AwaitResponse
    <3>3. outcome' \in [Thread -> [result : Result, from : Thread \cup {NoThread}]]
      BY <2>9, <3>1 DEF AwaitResponse, Response, RpcResult
    <3>4. panicked' \in BOOLEAN
      BY <2>9 DEF AwaitResponse, RpcResultPanics
    <3> QED BY <2>9, <3>2, <3>3, <3>4, SMTT(20) DEF AwaitResponse
  <2>10. CASE AwaitClosed(t)
    BY <2>10 DEF AwaitClosed
  <2>11. CASE Cleanup(t)
    BY <2>11 DEF Cleanup, Deregistered
  <2> QED BY <1>2, <2>1, <2>2, <2>3, <2>4, <2>5, <2>6, <2>7, <2>8, <2>9, <2>10,
             <2>11 DEF Rpc
<1>3. ASSUME Listen PROVE TypeOK'
  <2>0. NoMsg \in Response
    BY DEF NoMsg, Unasked, Response
  <2>1. CASE ListenReceive
    <3>1. Head(inbox) \in Response /\ Tail(inbox) \in Seq(Response)
      BY <2>1, TailElems DEF ListenReceive, Decode
    <3>2. /\ lpc' \in {"receive", "echo", "dispatch", "callback", "stopped"}
          /\ lmsg' \in Response
      BY <2>1, <3>1 DEF ListenReceive
    <3>3. panicked' \in BOOLEAN
      BY <2>1 DEF ListenReceive
    <3> QED BY <2>1, <3>1, <3>2, <3>3 DEF ListenReceive, Decode
  <2>2. CASE ListenStop
    BY <2>2 DEF ListenStop, DecodeStop
  <2>3. CASE ListenBroken
    BY <2>3 DEF ListenBroken, DecodeBroken
  <2>4. CASE ListenEchoCanceled
    BY <2>4 DEF ListenEchoCanceled
  <2>5. CASE DoCallback
    BY <2>0, <2>5 DEF DoCallback, BackToReceive
  <2>6. CASE CallbackSend
    <3>1. PICK cb \in Registered(lmsg.id) :
             /\ panicked' = ch[cb.owner].closed
             /\ ch' = [ch EXCEPT ![cb.owner] =
                          [buf |-> Append(@.buf, lmsg), closed |-> TRUE]]
      BY <2>6 DEF CallbackSend
    <3>2. cb.owner \in Thread
      BY DEF Registered, Callback
    <3>3. Append(ch[cb.owner].buf, lmsg) \in Seq(Response)
      BY <3>2, AppendElems
    <3>4. ch' \in [Thread -> [buf : Seq(Response), closed : BOOLEAN]]
      BY <3>1, <3>2, <3>3
    <3>5. panicked' \in BOOLEAN
      BY <3>1, <3>2
    <3>6. callbacks' \subseteq callbacks /\ lpc' = "receive" /\ lmsg' = NoMsg
      BY <2>6 DEF CallbackSend, BackToReceive, Served, Deregistered
    <3>7. UNCHANGED <<connVars, rpcID, pc, rid, outcome, ctxDone, epc, tpc, cpc, echoOK, echoFail>>
      BY <2>6 DEF CallbackSend
    <3> QED BY <2>0, <3>4, <3>5, <3>6, <3>7
  <2>7. CASE CallbackCanceled
    <3>1. PICK cb \in Registered(lmsg.id) :
             /\ panicked' = ch[cb.owner].closed
             /\ ch' = [ch EXCEPT ![cb.owner].closed = TRUE]
      BY <2>7 DEF CallbackCanceled
    <3>2. cb.owner \in Thread
      BY DEF Registered, Callback
    <3>3. ch' \in [Thread -> [buf : Seq(Response), closed : BOOLEAN]]
      BY <3>1, <3>2
    <3>4. panicked' \in BOOLEAN
      BY <3>1, <3>2
    <3>6. callbacks' \subseteq callbacks /\ lpc' = "receive" /\ lmsg' = NoMsg
      BY <2>7 DEF CallbackCanceled, BackToReceive, Served, Deregistered
    <3>7. UNCHANGED <<connVars, rpcID, pc, rid, outcome, ctxDone, epc, tpc, cpc, echoOK, echoFail>>
      BY <2>7 DEF CallbackCanceled
    <3> QED BY <2>0, <3>3, <3>4, <3>6, <3>7
  <2> QED BY <1>3, <2>1, <2>2, <2>3, <2>4, <2>5, <2>6, <2>7 DEF Listen
<1>4. ASSUME Echo PROVE TypeOK'
  <2>0. ASSUME TakeEcho
        PROVE  /\ epc' \in {"select", "rpc", "stopped"}
               /\ pc' \in [Thread -> InCall \cup {"idle", "start", "returned"}]
    BY <2>0, ClientAssumption DEF TakeEcho
  <2>1. CASE EchoFromListen
    BY <2>0, <2>1 DEF EchoFromListen
  <2>2. CASE EchoFromTicker
    BY <2>0, <2>2 DEF EchoFromTicker
  <2>3. CASE EchoLoopStop
    BY <2>3 DEF EchoLoopStop
  <2>4. CASE EchoReturned
    BY <2>4, ClientAssumption DEF EchoReturned, Forget
  <2> QED BY <1>4, <2>1, <2>2, <2>3, <2>4 DEF Echo
<1>5. ASSUME Ticker PROVE TypeOK'
  BY <1>5, SpendType, SMTT(20) DEF Ticker, Tick, TickerStop
<1>6. ASSUME Close PROVE TypeOK'
  <2>1. CASE CloseCancel
    <3>1. spent' \in [DOMAIN Bound -> Nat]
      BY <2>1, SpendType DEF CloseCancel
    <3>2. ctxDone' \in [Thread -> BOOLEAN]
      BY <2>1 DEF CloseCancel, CancelContext
    <3> QED BY <2>1, <3>1, <3>2 DEF CloseCancel
  <2>2. CASE CloseConn
    BY <2>2, PrefixElems DEF CloseConn, ConnClose
  <2>3. CASE CloseWait
    BY <2>3 DEF CloseWait
  <2> QED BY <1>6, <2>1, <2>2, <2>3 DEF Close
<1>7. ASSUME ServerStep PROVE TypeOK'
  <2>1. ASSUME NEW m \in Response, ServerSends(m)
        PROVE  inbox' \in Seq(Response)
    BY <2>1, AppendElems DEF ServerSends
  <2>6. ASSUME NEW r \in pending, NEW b \in {"result", "error", "null"}, Answer(r, b)
        PROVE  /\ inbox' \in Seq(Response)
               /\ pending' \in SUBSET Request /\ answered' \in SUBSET Request
               /\ UNCHANGED <<sendVars, decErr, closed, peer>>
    <3>1. Reply(r, b) \in Response
      BY DEF Reply, Request, Response
    <3>2. inbox' \in Seq(Response)
      BY <2>1, <2>6, <3>1 DEF Answer
    <3> QED BY <2>6, <3>2 DEF Answer, ServerSends
  <2>2. CASE ServerRead
    BY <1>7, <2>2, TailElems DEF ServerStep, ServerRead
  <2>3. ASSUME NEW r \in pending, ServerReply(r) PROVE TypeOK'
    <3>1. PICK b \in {"result", "error"} : Answer(r, b)
      BY <2>3 DEF ServerReply
    <3> QED BY <1>7, <2>3, <2>6, <3>1 DEF ServerStep, ServerReply
  <2>4. CASE ServerEcho \/ ServerNoise
    <3>1. \A k \in {"reply", "echo", "notify", "bad"} : Unasked(k) \in Response
      BY DEF Unasked, Response
    <3>2. \A r \in answered : Reply(r, "result") \in Response
      BY DEF Reply, Request, Response
    <3>3. inbox' \in Seq(Response)
      BY <2>1, <2>4, <3>1, <3>2 DEF ServerEcho, ServerNoise
    <3>4. spent' \in [DOMAIN Bound -> Nat]
      BY <2>4, SpendType DEF ServerEcho, ServerNoise
    <3>5. UNCHANGED <<sendVars, decErr, closed, srvVars>>
      BY <2>4 DEF ServerEcho, ServerNoise, ServerSends
    <3> QED BY <1>7, <3>3, <3>4, <3>5 DEF ServerStep
  <2>7. CASE ServerOdd
    <3>1. Unasked("notify") \in Response
      BY DEF Unasked, Response
    <3>2. /\ inbox' \in Seq(Response)
          /\ pending' \in SUBSET Request /\ answered' \in SUBSET Request
          /\ UNCHANGED <<sendVars, decErr, closed, peer>>
      BY <2>1, <2>6, <2>7, <3>1 DEF ServerOdd, ServerSends
    <3>3. spent' \in [DOMAIN Bound -> Nat]
      BY <2>7, SpendType DEF ServerOdd
    <3> QED BY <1>7, <3>2, <3>3 DEF ServerStep
  <2>5. CASE ServerEnd
    BY <1>7, <2>5, PrefixElems, ConnAssumption DEF ServerStep, ServerEnd
  <2> QED BY <1>7, <2>2, <2>3, <2>4, <2>5, <2>7 DEF ServerStep, Server
<1>8. CASE UNCHANGED vars
  BY <1>8
<1> QED
  BY <1>0, <1>1, <1>2, <1>3, <1>4, <1>5, <1>6, <1>7, <1>8 DEF Next

(* Every variable of the client, the connection and the server keeps its   *)
(* type in every behaviour.                                                *)
THEOREM TypeCorrect == Spec => []TypeOK
<1>1. ASSUME Init PROVE TypeOK
  <2>1. ConnTypeOK
    <3>1. outbox \in Seq(Request) /\ inbox \in Seq(Response)
      BY <1>1, EmptySeq DEF Init, ConnInit
    <3>2. spent \in [DOMAIN Bound -> Nat]
      BY <1>1 DEF Init, ConnInit
    <3> QED BY <1>1, <3>1, <3>2 DEF Init, ConnInit, ConnTypeOK
  <2>2. /\ ch \in [Thread -> [buf : Seq(Response), closed : BOOLEAN]]
        /\ outcome \in [Thread -> [result : Result, from : Thread \cup {NoThread}]]
    BY <1>1, EmptySeq DEF Init, NewChan, Outcome, Result
  <2>3. lmsg \in Response
    BY <1>1 DEF Init, NoMsg, Unasked, Response
  <2>4. tpc \in {"wait", "offer", "stopped"}
    BY <1>1 DEF Init
  <2> QED
    BY <1>1, <2>1, <2>2, <2>3, <2>4 DEF Init, TypeOK
<1> QED
  BY <1>1, TypeStep, PTL DEF Spec

-----------------------------------------------------------------------------
(* Whose answer goes where                                                 *)

(* The variables that RoutingInv is about, without the program counters    *)
(* and the outcomes.                                                       *)
routeVars == <<rpcID, rid, outbox, inbox, pending, answered, lmsg, ch, callbacks>>

(* The moves of a thread inside rpc that change none of them. *)
Move(a, b) ==
    \/ a = "idle" /\ b = "start"
    \/ a = "start" /\ b = "returned"
    \/ a = "lock" /\ b = "write"
    \/ a \in {"lock", "write", "await"} /\ b = "cleanup"

(* A step of one thread within rpc that sends and registers nothing leaves *)
(* the routing of answers alone.                                           *)
LEMMA MoveStep ==
    ASSUME TypeOK, RoutingInv, UNCHANGED routeVars,
           NEW t \in Thread, NEW b, Move(pc[t], b), GoTo(t, b),
           \/ UNCHANGED outcome
           \/ \E r \in Result \ {"reply"} :
                 outcome' = [outcome EXCEPT ![t] = Outcome(r, NoThread)]
    PROVE  RoutingInv'
<1> USE DEF routeVars, RoutingInv, GoTo
<1>1. /\ pc \in [Thread -> InCall \cup {"idle", "start", "returned"}]
      /\ rid \in [Thread -> Nat] /\ rpcID \in Nat
      /\ callbacks \in SUBSET Callback
      /\ outcome \in [Thread -> [result : Result, from : Thread \cup {NoThread}]]
  BY DEF TypeOK
<1>2. IDsDistinct'
  BY <1>1 DEF IDsDistinct, Move, InCall
<1>3. WireOwner'
  BY <1>1 DEF WireOwner, Wire, Elems, Move
<1>4. CallbackOwned'
  BY <1>1 DEF CallbackOwned, Callback, Move
<1>5. RepliesGenuine' /\ ChanGenuine' /\ FreshChan'
  BY DEF RepliesGenuine, ChanGenuine, FreshChan, Genuine, Elems, NewChan
<1>6. OwnReply'
  BY <1>1 DEF OwnReply, Outcome
<1> QED BY <1>2, <1>3, <1>4, <1>5, <1>6

(* rpc fails, at any point of a call, without an answer. *)
LEMMA ReturnStep ==
    ASSUME TypeOK, RoutingInv, UNCHANGED routeVars,
           NEW t \in Thread, NEW b, Move(pc[t], b),
           NEW r \in Result \ {"reply"}, Return(t, b, Outcome(r, NoThread))
    PROVE  RoutingInv'
BY MoveStep DEF Return

(* Losing messages on their way to the client is harmless. *)
LEMMA InboxShrinks ==
    ASSUME RoutingInv, Elems(inbox') \subseteq Elems(inbox),
           UNCHANGED <<rpcID, rid, pc, outbox, pending, answered, ch, callbacks,
                       outcome>>,
           lmsg' = lmsg \/ lmsg' = NoMsg \/ lmsg' \in Elems(inbox)
    PROVE  RoutingInv'
<1> USE DEF RoutingInv
<1>1. IDsDistinct' /\ WireOwner' /\ CallbackOwned' /\ FreshChan' /\ OwnReply'
  BY DEF IDsDistinct, WireOwner, Wire, Elems, CallbackOwned, FreshChan, NewChan,
         OwnReply
<1>2. RepliesGenuine'
  BY DEF RepliesGenuine, Genuine, NoMsg, Unasked
<1>3. ChanGenuine'
  BY DEF ChanGenuine, Genuine, Elems
<1> QED BY <1>1, <1>2, <1>3

(* A message from the server carries no ID, or one that it has answered.   *)
LEMMA InboxGrows ==
    ASSUME TypeOK, RoutingInv, NEW m \in Response, inbox' = Append(inbox, m),
           UNCHANGED <<rpcID, rid, pc, outbox, lmsg, ch, callbacks, outcome>>,
           answered \subseteq answered', pending' \cup answered' = pending \cup answered,
           m.id # 0 => [id |-> m.id, from |-> m.from] \in answered'
    PROVE  RoutingInv'
<1> USE DEF RoutingInv
<1>1. Elems(inbox') = Elems(inbox) \cup {m}
  BY AppendElems DEF TypeOK, ConnTypeOK
<1>2. IDsDistinct' /\ CallbackOwned' /\ FreshChan' /\ OwnReply'
  BY DEF IDsDistinct, CallbackOwned, FreshChan, NewChan, OwnReply
<1>3. Wire' = Wire
  BY DEF Wire, Elems
<1>4. WireOwner'
  BY <1>3 DEF WireOwner
<1>5. RepliesGenuine'
  BY <1>1 DEF RepliesGenuine, Genuine
<1>6. ChanGenuine'
  BY DEF ChanGenuine, Genuine, Elems
<1> QED BY <1>2, <1>4, <1>5, <1>6

(* rpc has returned and its locals are gone. *)
LEMMA ForgetStep ==
    ASSUME TypeOK, RoutingInv, NEW t \in Thread, pc[t] = "returned", Forget(t),
           UNCHANGED <<rpcID, outbox, inbox, pending, answered, lmsg, callbacks>>
    PROVE  RoutingInv'
<1> USE DEF RoutingInv, Forget, Return, GoTo
<1>1. /\ pc \in [Thread -> InCall \cup {"idle", "start", "returned"}]
      /\ rid \in [Thread -> Nat] /\ rpcID \in Nat
      /\ callbacks \in SUBSET Callback
      /\ outcome \in [Thread -> [result : Result, from : Thread \cup {NoThread}]]
      /\ ch \in [Thread -> [buf : Seq(Response), closed : BOOLEAN]]
  BY DEF TypeOK
<1>2. IDsDistinct'
  BY <1>1 DEF IDsDistinct, InCall
<1>3. WireOwner'
  BY <1>1 DEF WireOwner, Wire, Elems
<1>4. CallbackOwned'
  BY <1>1 DEF CallbackOwned, Callback
<1>5. RepliesGenuine'
  BY DEF RepliesGenuine, Genuine, Elems
<1>6. ChanGenuine'
  BY <1>1 DEF ChanGenuine, Genuine, Elems, NewChan
<1>7. FreshChan'
  BY <1>1 DEF FreshChan, CallbackOwned, Callback, NewChan
<1>8. OwnReply'
  BY <1>1 DEF OwnReply, Outcome
<1> QED BY <1>2, <1>3, <1>4, <1>5, <1>6, <1>7, <1>8

(* The steps of a thread in rpc. *)
LEMMA RoutingRpc ==
    ASSUME TypeOK, RoutingInv, NEW t \in Thread, Rpc(t)
    PROVE  RoutingInv'
<1> USE DEF connVars, sendVars, recvVars, srvVars, rpcVars, loopVars
<1>0. /\ pc \in [Thread -> InCall \cup {"idle", "start", "returned"}]
      /\ rid \in [Thread -> Nat] /\ rpcID \in Nat
      /\ callbacks \in SUBSET Callback
      /\ outcome \in [Thread -> [result : Result, from : Thread \cup {NoThread}]]
      /\ ch \in [Thread -> [buf : Seq(Response), closed : BOOLEAN]]
      /\ outbox \in Seq(Request)
  BY DEF TypeOK, ConnTypeOK
<1>1. CASE CanceledBefore(t)
  <2>1. UNCHANGED routeVars /\ Move(pc[t], "returned")
    BY <1>1 DEF CanceledBefore, Move, routeVars
  <2>2. "canceled" \in Result \ {"reply"} /\ Return(t, "returned", Outcome("canceled", NoThread))
    BY <1>1 DEF CanceledBefore, Result
  <2> QED BY <2>1, <2>2, ReturnStep
<1>2. CASE RequestID(t)
  <2> USE <1>0, <1>2 DEF RequestID, NextID, RoutingInv, GoTo
  <2>1. IDsDistinct'
    BY DEF IDsDistinct, InCall
  <2>2. WireOwner'
    <3>1. \A r \in Wire : r.id \in Nat
      <4>1. Elems(outbox) \subseteq Request
        BY ElementOfSeq, LenProperties DEF Elems
      <4> QED BY <4>1 DEF Wire, Request, TypeOK, ConnTypeOK
    <3>2. Wire' = Wire
      BY DEF Wire, Elems
    <3> QED BY <3>1, <3>2 DEF WireOwner
  <2>3. CallbackOwned' /\ FreshChan'
    BY DEF CallbackOwned, FreshChan, Callback, NewChan
  <2>4. RepliesGenuine' /\ OwnReply'
    BY DEF RepliesGenuine, Genuine, Elems, OwnReply
  <2>5. ChanGenuine'
    BY ZenonT(30) DEF ChanGenuine, Genuine, Elems, IDsDistinct
  <2> QED BY <2>1, <2>2, <2>3, <2>4, <2>5
<1>3. CASE AddCallback(t)
  <2> USE <1>0, <1>3 DEF AddCallback, RoutingInv, GoTo
  <2>1. IDsDistinct'
    BY DEF IDsDistinct, InCall
  <2>2. WireOwner'
    BY DEF WireOwner, Wire, Elems
  <2>3. CallbackOwned' /\ FreshChan'
    BY DEF CallbackOwned, FreshChan, Callback, NewChan
  <2>4. RepliesGenuine' /\ OwnReply'
    BY DEF RepliesGenuine, Genuine, Elems, OwnReply
  <2>5. ChanGenuine'
    BY DEF ChanGenuine, Genuine, Elems, NewChan
  <2> QED BY <2>1, <2>2, <2>3, <2>4, <2>5
<1>4. CASE SendLock(t)
  BY <1>4, MoveStep DEF SendLock, Move, routeVars
<1>5. CASE SendOK(t)
  <2> USE <1>0, <1>5 DEF SendOK, EncodeOK, RoutingInv, GoTo
  <2> DEFINE r == [id |-> rid[t], from |-> t]
  <2>1. IDsDistinct'
    BY DEF IDsDistinct, InCall
  <2>2. Wire' = Wire \cup {r}
    <3>1. r \in Request
      BY DEF Request
    <3>2. Elems(outbox') = Elems(outbox) \cup {r}
      BY <3>1, AppendElems
    <3> QED BY <3>2 DEF Wire
  <2>3. WireOwner'
    <3>1. r.id # 0 /\ r.id <= rpcID
      BY DEF IDsDistinct, InCall
    <3>2. \A s \in Thread : r.id = rid[s] => s = t
      BY DEF IDsDistinct, InCall
    <3> QED BY <2>2, <3>1, <3>2 DEF WireOwner
  <2>4. CallbackOwned' /\ FreshChan'
    BY DEF CallbackOwned, FreshChan, Callback, NewChan
  <2>5. RepliesGenuine' /\ OwnReply' /\ ChanGenuine'
    <3>1. RepliesGenuine' /\ OwnReply'
      BY DEF RepliesGenuine, Genuine, Elems, OwnReply
    <3>2. ChanGenuine'
      BY DEF ChanGenuine, Genuine, Elems
    <3> QED BY <3>1, <3>2
  <2> QED BY <2>1, <2>3, <2>4, <2>5
<1>6. CASE SendFail(t)
  <2>1. UNCHANGED routeVars /\ Move(pc[t], "cleanup")
    BY <1>6 DEF SendFail, EncodeFail, WriteErr, Move, routeVars
  <2>2. \E e \in Result \ {"reply"} : Return(t, "cleanup", Outcome(e, NoThread))
    <3>1. WriteErr \subseteq Result \ {"reply"}
      BY DEF WriteErr, Result, TypeOK, ConnTypeOK
    <3> QED BY <1>6, <3>1 DEF SendFail
  <2> QED BY <2>1, <2>2, ReturnStep
<1>7. CASE SendUnmarshalable(t)
  <2>1. UNCHANGED routeVars /\ Move(pc[t], "cleanup")
    BY <1>7 DEF SendUnmarshalable, EncodeUnmarshalable, Move, routeVars
  <2>2. "failed" \in Result \ {"reply"} /\ Return(t, "cleanup", Outcome("failed", NoThread))
    BY <1>7 DEF SendUnmarshalable, EncodeUnmarshalable, Result
  <2> QED BY <2>1, <2>2, ReturnStep
<1>8. CASE AwaitCanceled(t)
  <2>1. UNCHANGED routeVars /\ Move(pc[t], "cleanup")
    BY <1>8 DEF AwaitCanceled, Move, routeVars
  <2>2. "canceled" \in Result \ {"reply"} /\ Return(t, "cleanup", Outcome("canceled", NoThread))
    BY <1>8 DEF AwaitCanceled, Result
  <2> QED BY <2>1, <2>2, ReturnStep
<1>9. CASE AwaitResponse(t)
  <2> USE <1>0, <1>9 DEF AwaitResponse, RoutingInv, Return, GoTo
  <2>1. PICK m \in Elems(ch[t].buf) :
           ch[t].buf = <<m>> /\ m.id = rid[t] /\ m.id # 0 /\ Genuine(m)
    BY DEF ChanGenuine
  <2>2. Head(ch[t].buf) = m /\ Tail(ch[t].buf) = <<>>
    BY <2>1
  <2>3. m.from = t
    <3>1. [id |-> m.id, from |-> m.from] \in Wire
      BY <2>1 DEF Genuine, Wire
    <3> QED BY <2>1, <3>1 DEF WireOwner
  <2>4. IDsDistinct'
    BY DEF IDsDistinct, InCall
  <2>5. WireOwner'
    BY DEF WireOwner, Wire, Elems
  <2>6. CallbackOwned'
    BY DEF CallbackOwned, Callback
  <2>7. FreshChan'
    BY <2>1 DEF FreshChan, Callback, NewChan
  <2>8. RepliesGenuine'
    BY DEF RepliesGenuine, Genuine, Elems
  <2>9. ChanGenuine'
    BY <2>2, ZenonT(30) DEF ChanGenuine, Genuine, Elems
  <2>10. OwnReply'
    BY <2>2, <2>3 DEF OwnReply, Outcome
  <2> QED BY <2>4, <2>5, <2>6, <2>7, <2>8, <2>9, <2>10
<1>10. CASE AwaitClosed(t)
  <2>1. UNCHANGED routeVars /\ Move(pc[t], "cleanup")
    BY <1>10 DEF AwaitClosed, Move, routeVars
  <2>2. \E e \in Result \ {"reply"} : Return(t, "cleanup", Outcome(e, NoThread))
    BY <1>10 DEF AwaitClosed, Result
  <2> QED BY <2>1, <2>2, ReturnStep
<1>11. CASE Cleanup(t)
  <2> USE <1>0, <1>11 DEF Cleanup, Deregistered, Registered, RoutingInv, GoTo
  <2>1. IDsDistinct'
    BY DEF IDsDistinct, InCall
  <2>2. WireOwner'
    BY DEF WireOwner, Wire, Elems
  <2>3. CallbackOwned'
    BY DEF CallbackOwned, Callback
  <2>4. FreshChan'
    BY DEF FreshChan, Callback, NewChan
  <2>5. RepliesGenuine' /\ OwnReply' /\ ChanGenuine'
    <3>1. RepliesGenuine' /\ OwnReply'
      BY DEF RepliesGenuine, Genuine, Elems, OwnReply
    <3>2. ChanGenuine'
      BY DEF ChanGenuine, Genuine, Elems
    <3> QED BY <3>1, <3>2
  <2> QED BY <2>1, <2>2, <2>3, <2>4, <2>5
<1> QED BY <1>1, <1>2, <1>3, <1>4, <1>5, <1>6, <1>7, <1>8, <1>9, <1>10, <1>11 DEF Rpc

(* The steps of listen. *)
LEMMA RoutingListen ==
    ASSUME TypeOK, RoutingInv, Listen
    PROVE  RoutingInv'
<1> USE DEF RoutingInv, connVars, sendVars, recvVars, srvVars, rpcVars, loopVars
<1>0. /\ rid \in [Thread -> Nat]
      /\ callbacks \in SUBSET Callback
      /\ ch \in [Thread -> [buf : Seq(Response), closed : BOOLEAN]]
      /\ inbox \in Seq(Response) /\ lmsg \in Response
  BY DEF TypeOK, ConnTypeOK
<1>1. CASE ListenReceive
  <2>1. Elems(inbox') \subseteq Elems(inbox) /\ Head(inbox) \in Elems(inbox)
    BY <1>0, <1>1, TailElems DEF ListenReceive, Decode
  <2>2. lmsg' = lmsg \/ lmsg' \in Elems(inbox)
    BY <1>1, <2>1 DEF ListenReceive
  <2> QED BY <1>1, <2>1, <2>2, InboxShrinks DEF ListenReceive
<1>2. CASE ListenStop \/ ListenBroken \/ ListenEchoCanceled \/ DoCallback
  BY <1>2, InboxShrinks
  DEF ListenStop, DecodeStop, ListenBroken, DecodeBroken, ListenEchoCanceled,
      DoCallback, BackToReceive, Elems
<1>3. CASE CallbackSend \/ CallbackCanceled
  <2> USE DEF Served, Deregistered, Registered, BackToReceive
  <2>1. PICK cb \in Registered(lmsg.id) :
           \/ /\ Len(ch[cb.owner].buf) < 1
              /\ ch' = [ch EXCEPT ![cb.owner] =
                           [buf |-> Append(@.buf, lmsg), closed |-> TRUE]]
           \/ ch' = [ch EXCEPT ![cb.owner].closed = TRUE]
    BY <1>3 DEF CallbackSend, CallbackCanceled, HasRoom
  <2>2. /\ callbacks' = Served(lmsg.id) /\ lmsg' = NoMsg
        /\ UNCHANGED <<rpcID, rid, pc, outbox, inbox, pending, answered, outcome>>
    BY <1>3 DEF CallbackSend, CallbackCanceled
  <2>3. /\ cb \in callbacks /\ cb.id = lmsg.id /\ cb.owner \in Thread
        /\ ch[cb.owner] = NewChan
    BY <1>0, <2>1 DEF FreshChan, Callback
  <2>4. rid[cb.owner] = lmsg.id /\ lmsg.id # 0
    BY <2>3 DEF CallbackOwned, IDsDistinct, InCall
  <2>5. \/ ch'[cb.owner].buf = <<>>
        \/ ch'[cb.owner].buf = <<lmsg>>
    BY <1>0, <2>1, <2>3 DEF NewChan
  <2>6. \A t \in Thread : t # cb.owner => ch'[t] = ch[t]
    BY <1>0, <2>1
  <2>7. IDsDistinct' /\ WireOwner' /\ OwnReply'
    BY <2>2 DEF IDsDistinct, WireOwner, Wire, Elems, OwnReply
  <2>8. RepliesGenuine'
    BY <2>2 DEF RepliesGenuine, Genuine, Elems, NoMsg, Unasked
  <2>9. CallbackOwned'
    BY <2>2 DEF CallbackOwned
  <2>10. FreshChan'
    <3>1. ASSUME NEW d \in callbacks' PROVE ch'[d.owner] = NewChan
      <4>1. d \in callbacks /\ d.id # lmsg.id /\ d.owner \in Thread
        BY <1>0, <2>2, <3>1 DEF Callback
      <4>2. d.owner # cb.owner
        BY <2>3, <2>4, <4>1 DEF CallbackOwned
      <4> QED BY <2>6, <4>1, <4>2 DEF FreshChan
    <3> QED BY <3>1 DEF FreshChan, NewChan
  <2>11. ChanGenuine'
    <3>1. ASSUME NEW t \in Thread, t # cb.owner
          PROVE  \/ ch'[t].buf = <<>>
                 \/ \E m \in Elems(ch'[t].buf) :
                       /\ ch'[t].buf = <<m>>
                       /\ m.id = rid'[t] /\ m.id # 0
                       /\ Genuine(m)'
      BY <2>2, <2>6, <3>1 DEF ChanGenuine, Genuine
    <3>2. Genuine(lmsg) /\ lmsg \in Elems(<<lmsg>>)
      BY DEF RepliesGenuine, Elems
    <3>3. \/ ch'[cb.owner].buf = <<>>
          \/ \E m \in Elems(ch'[cb.owner].buf) :
                       /\ ch'[cb.owner].buf = <<m>>
                       /\ m.id = rid'[cb.owner] /\ m.id # 0
                       /\ Genuine(m)'
      BY <2>2, <2>4, <2>5, <3>2 DEF Genuine
    <3> QED BY <3>1, <3>3 DEF ChanGenuine, Elems
  <2> QED BY <2>7, <2>8, <2>9, <2>10, <2>11
<1> QED BY <1>1, <1>2, <1>3 DEF Listen

(* The steps of the server. *)
LEMMA RoutingServer ==
    ASSUME TypeOK, RoutingInv, ServerStep
    PROVE  RoutingInv'
<1> USE DEF connVars, sendVars, recvVars, srvVars, rpcVars, loopVars, ServerStep
<1>0. /\ outbox \in Seq(Request) /\ inbox \in Seq(Response)
      /\ pending \in SUBSET Request /\ answered \in SUBSET Request
  BY DEF TypeOK, ConnTypeOK
<1>1. CASE ServerRead
  <2> USE <1>1 DEF ServerRead, RoutingInv
  <2>1. Wire' \subseteq Wire
    BY <1>0, TailElems DEF Wire
  <2>2. WireOwner'
    BY <2>1 DEF WireOwner
  <2>3. IDsDistinct' /\ CallbackOwned' /\ FreshChan' /\ OwnReply'
    BY DEF IDsDistinct, CallbackOwned, FreshChan, NewChan, OwnReply
  <2>4. RepliesGenuine' /\ ChanGenuine'
    BY DEF RepliesGenuine, ChanGenuine, Genuine, Elems
  <2> QED BY <2>2, <2>3, <2>4
<1>2. ASSUME NEW r \in pending, NEW b \in {"result", "error", "null"}, Answer(r, b)
      PROVE  RoutingInv'
  <2>1. Reply(r, b) \in Response /\ [id |-> r.id, from |-> r.from] = r
    BY <1>0 DEF Reply, Request, Response
  <2>2. Reply(r, b).id = r.id /\ Reply(r, b).from = r.from
    BY DEF Reply
  <2> QED BY <1>2, <2>1, <2>2, InboxGrows DEF Answer, ServerSends
<1>3. CASE ServerEcho \/ ServerNoise
  <2>1. \A k \in {"reply", "echo", "notify", "bad"} :
           Unasked(k) \in Response /\ Unasked(k).id = 0
    BY DEF Unasked, Response
  <2>2. \A r \in answered :
           /\ Reply(r, "result") \in Response
           /\ [id |-> Reply(r, "result").id, from |-> Reply(r, "result").from] = r
    BY <1>0 DEF Reply, Request, Response
  <2>3. PICK m \in Response :
           /\ ServerSends(m)
           /\ m.id # 0 => [id |-> m.id, from |-> m.from] \in answered
    BY <1>3, <2>1, <2>2 DEF ServerEcho, ServerNoise
  <2>4. UNCHANGED <<pending, answered>>
    BY <1>3 DEF ServerEcho, ServerNoise
  <2> QED BY <2>3, <2>4, InboxGrows DEF ServerSends
<1>4. CASE ServerSends(Unasked("notify")) /\ UNCHANGED <<pending, answered>>
  <2>1. Unasked("notify") \in Response /\ Unasked("notify").id = 0
    BY DEF Unasked, Response
  <2> QED BY <1>4, <2>1, InboxGrows DEF ServerSends
<1>5. CASE ServerEnd
  BY <1>0, <1>5, PrefixElems, InboxShrinks DEF ServerEnd
<1> QED BY <1>1, <1>2, <1>3, <1>4, <1>5 DEF Server, ServerReply, ServerOdd

(* Every step keeps the routing of answers. *)
LEMMA RoutingStep ==
    TypeOK /\ RoutingInv /\ EchoLoopIdle /\ [Next]_vars => RoutingInv'
<1> SUFFICES ASSUME TypeOK, RoutingInv, EchoLoopIdle PROVE [Next]_vars => RoutingInv'
  OBVIOUS
<1>0. SUFFICES ASSUME [Next]_vars PROVE RoutingInv'
  OBVIOUS
<1> USE DEF connVars, sendVars, recvVars, srvVars, rpcVars, loopVars
<1> DEFINE Quiet == UNCHANGED <<routeVars, pc, outcome>>
<1>1. ASSUME Quiet PROVE RoutingInv'
  BY <1>1, InboxShrinks DEF routeVars
<1>2. ASSUME NEW t \in User, Call(t) \/ Cancel(t) \/ UserReturns(t) PROVE RoutingInv'
  <2>0. t \in Thread
    BY DEF User
  <2>1. CASE Call(t)
    <3>1. UNCHANGED routeVars /\ UNCHANGED outcome /\ Move(pc[t], "start") /\ GoTo(t, "start")
      BY <2>1 DEF Call, Move, routeVars
    <3> QED BY <2>0, <3>1, MoveStep
  <2>2. CASE Cancel(t)
    BY <1>1, <2>2 DEF Cancel, routeVars
  <2>3. CASE UserReturns(t)
    BY <2>0, <2>3, ForgetStep DEF UserReturns
  <2> QED BY <1>2, <2>1, <2>2, <2>3
<1>3. CASE Echo
  <2>0. EchoLoop \in Thread
    BY ClientAssumption
  <2>1. CASE EchoFromListen \/ EchoFromTicker
    <3>1. TakeEcho /\ UNCHANGED routeVars /\ UNCHANGED outcome
      BY <2>1 DEF EchoFromListen, EchoFromTicker, routeVars
    <3>2. CASE ctxDone[EchoLoop]
      BY <1>1, <3>1, <3>2 DEF TakeEcho
    <3>3. CASE ~ctxDone[EchoLoop]
      <4>1. Move(pc[EchoLoop], "start") /\ GoTo(EchoLoop, "start")
        BY <3>1, <3>3 DEF TakeEcho, EchoLoopIdle, Move
      <4> QED BY <2>0, <3>1, <4>1, MoveStep
    <3> QED BY <3>2, <3>3
  <2>2. CASE EchoLoopStop
    BY <1>1, <2>2 DEF EchoLoopStop, routeVars
  <2>3. CASE EchoReturned
    BY <2>0, <2>3, ForgetStep DEF EchoReturned
  <2> QED BY <1>3, <2>1, <2>2, <2>3 DEF Echo
<1>4. CASE Ticker
  BY <1>1, <1>4 DEF Ticker, Tick, TickerStop, routeVars
<1>5. CASE Close
  <2>1. CASE CloseConn
    <3>1. Elems(inbox') \subseteq Elems(inbox)
      BY <2>1, PrefixElems DEF CloseConn, ConnClose, TypeOK, ConnTypeOK
    <3> QED BY <2>1, <3>1, InboxShrinks DEF CloseConn
  <2>2. CASE CloseCancel \/ CloseWait
    BY <1>1, <2>2 DEF CloseCancel, CloseWait, routeVars
  <2> QED BY <1>5, <2>1, <2>2 DEF Close
<1>6. CASE UNCHANGED vars
  BY <1>1, <1>6 DEF vars, routeVars
<1> QED
  BY <1>0, <1>2, <1>3, <1>4, <1>5, <1>6, RoutingRpc, RoutingListen, RoutingServer
  DEF Next

-----------------------------------------------------------------------------
(* The echo loop, cancellation, panics and Close                           *)

(* The echo loop's thread is in rpc only while echoLoop is in Echo. *)
LEMMA EchoIdleStep == TypeOK /\ EchoLoopIdle /\ [Next]_vars => EchoLoopIdle'
<1> SUFFICES ASSUME TypeOK, EchoLoopIdle PROVE [Next]_vars => EchoLoopIdle'
  OBVIOUS
<1>0. SUFFICES ASSUME [Next]_vars PROVE EchoLoopIdle'
  OBVIOUS
<1> USE ClientAssumption DEF EchoLoopIdle, rpcVars, loopVars, GoTo, Return
<1>t. pc \in [Thread -> InCall \cup {"idle", "start", "returned"}]
  BY DEF TypeOK
<1>1. ASSUME NEW t \in User, Call(t) \/ Cancel(t) \/ UserReturns(t) PROVE EchoLoopIdle'
  BY <1>1, <1>t DEF User, Call, Cancel, UserReturns, Forget
<1>2. ASSUME NEW t \in Thread, Rpc(t) PROVE EchoLoopIdle'
  <2>1. pc[t] # "idle" /\ epc' = epc /\ \A s \in Thread : s # t => pc'[s] = pc[s]
    BY <1>2, <1>t DEF Rpc, CanceledBefore, RequestID, AddCallback, SendLock, SendOK,
       SendFail, SendUnmarshalable, AwaitCanceled, AwaitResponse, AwaitClosed, Cleanup
  <2> QED BY <2>1
<1>3. CASE Listen
  BY <1>3 DEF Listen, ListenReceive, ListenStop, ListenBroken, ListenEchoCanceled,
              DoCallback, CallbackSend, CallbackCanceled
<1>4. CASE Echo
  BY <1>4, <1>t DEF Echo, EchoFromListen, EchoFromTicker, EchoLoopStop, EchoReturned,
                    TakeEcho, Forget
<1>5. CASE Ticker \/ Close \/ ServerStep \/ UNCHANGED vars
  BY <1>5 DEF Ticker, Tick, TickerStop, Close, CloseCancel, CloseConn, CloseWait,
              ServerStep, vars
<1> QED BY <1>0, <1>1, <1>2, <1>3, <1>4, <1>5 DEF Next

(* doCallback closes a channel without an answer only for a canceled call, *)
(* whose context stays done until rpc has returned.                        *)
LEMMA CanceledStep ==
    /\ TypeOK /\ RoutingInv /\ ClosedEmptyCanceled /\ NoSilentSuccess /\ EchoLoopIdle
    /\ [Next]_vars
    => ClosedEmptyCanceled' /\ NoSilentSuccess'
<1> SUFFICES ASSUME TypeOK, RoutingInv, ClosedEmptyCanceled, NoSilentSuccess, EchoLoopIdle
             PROVE  [Next]_vars => ClosedEmptyCanceled' /\ NoSilentSuccess'
  OBVIOUS
<1>0. SUFFICES ASSUME [Next]_vars PROVE ClosedEmptyCanceled' /\ NoSilentSuccess'
  OBVIOUS
<1> USE DEF ClosedEmptyCanceled, NoSilentSuccess, rpcVars, GoTo, Return, Outcome
<1>t. /\ pc \in [Thread -> InCall \cup {"idle", "start", "returned"}]
      /\ outcome \in [Thread -> [result : Result, from : Thread \cup {NoThread}]]
      /\ ch \in [Thread -> [buf : Seq(Response), closed : BOOLEAN]]
      /\ ctxDone \in [Thread -> BOOLEAN]
  BY DEF TypeOK
<1>1. ASSUME NEW t \in User, Call(t) \/ Cancel(t) \/ UserReturns(t)
      PROVE  ClosedEmptyCanceled' /\ NoSilentSuccess'
  <2>1. CASE Call(t)
    BY <1>t, <2>1 DEF User, Call
  <2>2. CASE Cancel(t)
    BY <1>t, <2>2 DEF User, Cancel
  <2>3. CASE UserReturns(t)
    BY <1>t, <2>3 DEF User, UserReturns, Forget, NewChan
  <2> QED BY <1>1, <2>1, <2>2, <2>3
<1>2. ASSUME NEW t \in Thread, Rpc(t) PROVE ClosedEmptyCanceled' /\ NoSilentSuccess'
  <2>1. CASE CanceledBefore(t) \/ RequestID(t) \/ Cleanup(t)
    BY <1>t, <2>1 DEF CanceledBefore, RequestID, Cleanup
  <2>2. CASE AddCallback(t)
    BY <1>t, <2>2 DEF AddCallback, NewChan
  <2>3. CASE SendLock(t) \/ SendOK(t)
    BY <1>t, <2>3 DEF SendLock, SendOK
  <2>7. CASE SendUnmarshalable(t)
    BY <1>t, <2>7 DEF SendUnmarshalable
  <2>8. CASE AwaitCanceled(t)
    BY <1>t, <2>8 DEF AwaitCanceled
  <2>4. CASE SendFail(t)
    <3>1. WriteErr \subseteq {"none", "closed", "broken"}
      BY DEF WriteErr, TypeOK, ConnTypeOK
    <3> QED BY <1>t, <2>4, <3>1 DEF SendFail
  <2>5. CASE AwaitResponse(t)
    BY <1>t, <2>5 DEF AwaitResponse, RpcResult
  <2>6. CASE AwaitClosed(t)
    BY <1>t, <2>6 DEF AwaitClosed
  <2> QED BY <1>2, <2>1, <2>2, <2>3, <2>4, <2>5, <2>6, <2>7, <2>8
             DEF Rpc
<1>3. CASE Listen
  <2>1. CASE ListenReceive \/ ListenStop \/ ListenBroken \/ ListenEchoCanceled \/ DoCallback
    BY <2>1 DEF ListenReceive, ListenStop, ListenBroken, ListenEchoCanceled, DoCallback
  <2>2. CASE CallbackSend
    <3>1. PICK cb \in Registered(lmsg.id) :
             ch' = [ch EXCEPT ![cb.owner] =
                          [buf |-> Append(@.buf, lmsg), closed |-> TRUE]]
      BY <2>2 DEF CallbackSend
    <3>2. cb.owner \in Thread
      BY DEF Registered, Callback, TypeOK
    <3>3. ch[cb.owner].buf \in Seq(Response) /\ lmsg \in Response
      BY <1>t, <3>2 DEF TypeOK
    <3>4. Append(ch[cb.owner].buf, lmsg) # <<>>
      BY <3>3, AppendProperties
    <3> QED BY <1>t, <2>2, <3>1, <3>2, <3>4 DEF CallbackSend
  <2>3. CASE CallbackCanceled
    BY <1>t, <2>3 DEF CallbackCanceled, CallerGone, Registered, Callback, TypeOK
  <2> QED BY <1>3, <2>1, <2>2, <2>3 DEF Listen
<1>4. CASE Echo
  <2>1. CASE EchoFromListen \/ EchoFromTicker \/ EchoLoopStop
    BY <1>t, <2>1, ClientAssumption
    DEF EchoFromListen, EchoFromTicker, EchoLoopStop, TakeEcho
  <2>2. CASE EchoReturned
    BY <1>t, <2>2, ClientAssumption DEF EchoReturned, Forget, NewChan
  <2> QED BY <1>4, <2>1, <2>2 DEF Echo
<1>5. CASE Ticker \/ ServerStep \/ UNCHANGED vars
  BY <1>5 DEF Ticker, Tick, TickerStop, ServerStep, vars
<1>6. CASE Close
  BY <1>6, <1>t DEF Close, CloseCancel, CancelContext, CloseConn, CloseWait
<1> QED BY <1>0, <1>1, <1>2, <1>3, <1>4, <1>5, <1>6 DEF Next

(* No ID is registered twice, no channel is used twice, and cbMu keeps a   *)
(* callback in the map while doCallback serves it.                         *)
LEMMA PanicStep ==
    /\ TypeOK /\ RoutingInv /\ DispatchRegistered /\ PanicByOdd
    /\ [Next]_vars
    => DispatchRegistered' /\ PanicByOdd'
<1> SUFFICES ASSUME TypeOK, RoutingInv, DispatchRegistered, PanicByOdd
             PROVE  [Next]_vars => DispatchRegistered' /\ PanicByOdd'
  OBVIOUS
<1>0. SUFFICES ASSUME [Next]_vars PROVE DispatchRegistered' /\ PanicByOdd'
  OBVIOUS
<1> USE DEF connVars, sendVars, recvVars, srvVars, rpcVars, loopVars
<1>t. /\ inbox \in Seq(Response)
      /\ spent \in [DOMAIN Bound -> Nat] /\ MaxOdd \in Nat
      /\ callbacks \in SUBSET Callback
      /\ ch \in [Thread -> [buf : Seq(Response), closed : BOOLEAN]]
      /\ DOMAIN Bound = {"call", "tick", "echo", "noise", "odd", "close"}
      /\ Bound["odd"] = MaxOdd
  BY ConnAssumption DEF TypeOK, ConnTypeOK, Bound
<1>d. ASSUME UNCHANGED <<lpc, lmsg, callbacks>> PROVE DispatchRegistered'
  BY <1>d DEF DispatchRegistered, CbMuHeld, Registered
<1>s. ASSUME NEW k \in DOMAIN Bound, k # "odd", Spend(k)
      PROVE  spent'["odd"] = spent["odd"]
  BY <1>s, <1>t DEF Spend
<1>i. ASSUME Elems(inbox') \subseteq Elems(inbox), spent'["odd"] = spent["odd"],
             UNCHANGED <<lmsg, ch, panicked>>
      PROVE  PanicByOdd'
  BY <1>i DEF PanicByOdd, OddSeen, Odd, Elems
<1>c. ASSUME NEW t \in Thread, UNCHANGED <<inbox, spent, lmsg, panicked>>,
             ch'[t].buf = <<>>, \A s \in Thread : s # t => ch'[s] = ch[s]
      PROVE  PanicByOdd'
  <2>1. Elems(ch'[t].buf) = {}
    BY <1>c DEF Elems
  <2> QED BY <1>c, <2>1 DEF PanicByOdd, OddSeen, Odd, Elems
<1>1. ASSUME NEW t \in User, Call(t) \/ Cancel(t) \/ UserReturns(t)
      PROVE  DispatchRegistered' /\ PanicByOdd'
  <2>1. CASE Call(t) \/ Cancel(t)
    <3>1. /\ UNCHANGED <<lpc, lmsg, callbacks, inbox, ch, panicked>>
          /\ spent'["odd"] = spent["odd"]
      BY <2>1, <1>s, <1>t DEF Call, Cancel
    <3> QED BY <1>d, <1>i, <3>1
  <2>2. CASE UserReturns(t)
    <3>1. UNCHANGED <<lpc, lmsg, callbacks, inbox, spent, panicked>> /\ t \in Thread
      BY <2>2 DEF UserReturns, User
    <3>2. ch'[t].buf = <<>> /\ \A s \in Thread : s # t => ch'[s] = ch[s]
      BY <1>t, <2>2, <3>1 DEF UserReturns, Forget, NewChan
    <3> QED BY <1>c, <1>d, <3>1, <3>2
  <2> QED BY <1>1, <2>1, <2>2
<1>2. ASSUME NEW t \in Thread, Rpc(t)
      PROVE  DispatchRegistered' /\ PanicByOdd'
  <2>1. CASE AddCallback(t)
    <3>1. Registered(rid[t]) = {}
      <4>1. SUFFICES ASSUME NEW cb \in callbacks, cb.id = rid[t] PROVE FALSE
        BY DEF Registered
      <4>2. rid[t] # 0 /\ rid[cb.owner] = rid[t] /\ pc[cb.owner] # pc[t] /\ cb.owner \in Thread
        BY <1>t, <2>1, <4>1
        DEF AddCallback, RoutingInv, CallbackOwned, IDsDistinct, InCall, Callback
      <4> QED BY <4>2 DEF RoutingInv, IDsDistinct
    <3>2. ~panicked' /\ UNCHANGED <<inbox, spent, lpc, lmsg>> /\ lpc # "callback"
      BY <2>1, <3>1 DEF AddCallback, CbMuHeld
    <3>3. ch'[t].buf = <<>> /\ \A s \in Thread : s # t => ch'[s] = ch[s]
      BY <1>t, <2>1 DEF AddCallback, NewChan
    <3>4. DispatchRegistered'
      BY <3>2 DEF DispatchRegistered, CbMuHeld
    <3>5. Elems(ch'[t].buf) = {}
      BY <3>3 DEF Elems
    <3>6. PanicByOdd'
      BY <3>2, <3>3, <3>5 DEF PanicByOdd, OddSeen, Odd, Elems
    <3> QED BY <3>4, <3>6
  <2>2. CASE Cleanup(t)
    <3>1. lpc' # "callback" /\ UNCHANGED <<inbox, spent, lmsg, ch, panicked>>
      BY <2>2 DEF Cleanup, CbMuHeld
    <3> QED BY <1>i, <3>1 DEF DispatchRegistered, CbMuHeld
  <2>3. CASE AwaitResponse(t)
    <3>1. PICK m \in Elems(ch[t].buf) : ch[t].buf = <<m>>
      BY <2>3 DEF AwaitResponse, RoutingInv, ChanGenuine
    <3>2. Head(ch[t].buf) = m /\ Tail(ch[t].buf) = <<>>
      BY <3>1
    <3>3. /\ ch'[t].buf = <<>> /\ \A s \in Thread : s # t => ch'[s] = ch[s]
          /\ panicked' = (m.body = "null")
          /\ UNCHANGED <<lpc, lmsg, callbacks, inbox, spent>>
      BY <1>t, <2>3, <3>2 DEF AwaitResponse, RpcResultPanics
    <3>4. Elems(ch'[t].buf) = {}
      BY <3>3 DEF Elems
    <3>5. OddSeen' => OddSeen
      BY <3>1, <3>3, <3>4, ZenonT(30) DEF OddSeen, Odd, Elems
    <3> QED BY <1>d, <3>3, <3>5 DEF PanicByOdd
  <2>4. CASE ~AddCallback(t) /\ ~Cleanup(t) /\ ~AwaitResponse(t)
    <3>1. UNCHANGED <<lpc, lmsg, callbacks, inbox, spent, ch, panicked>>
      BY <1>2, <2>4 DEF Rpc, CanceledBefore, RequestID, SendLock, SendOK, SendFail,
         SendUnmarshalable, AwaitCanceled, AwaitClosed
    <3> QED BY <1>d, <1>i, <3>1
  <2> QED BY <2>1, <2>2, <2>3, <2>4
<1>3. CASE Listen
  <2>1. CASE ListenReceive
    <3>1. Elems(inbox') \subseteq Elems(inbox) /\ Head(inbox) \in Elems(inbox)
      BY <1>t, <2>1, TailElems DEF ListenReceive, Decode
    <3>2. /\ UNCHANGED <<spent, callbacks, ch>> /\ lpc' # "callback"
          /\ panicked' => panicked \/ Head(inbox).kind = "notify"
          /\ lmsg' = lmsg \/ lmsg' = Head(inbox)
      BY <2>1 DEF ListenReceive
    <3>3. OddSeen' => OddSeen
      BY <3>1, <3>2 DEF OddSeen, Odd, Elems
    <3> QED BY <3>2, <3>3 DEF DispatchRegistered, CbMuHeld, PanicByOdd
  <2>2. CASE ListenStop \/ ListenBroken \/ ListenEchoCanceled \/ DoCallback
    <3>1. UNCHANGED <<inbox, spent, ch, panicked>> /\ (lmsg' = lmsg \/ lmsg' = NoMsg)
      BY <2>2 DEF ListenStop, DecodeStop, ListenBroken, DecodeBroken,
                  ListenEchoCanceled, DoCallback, BackToReceive
    <3>2. DispatchRegistered'
      BY <2>2 DEF ListenStop, ListenBroken, ListenEchoCanceled, DoCallback,
                  BackToReceive, DispatchRegistered, CbMuHeld, Registered
    <3>3. OddSeen' => OddSeen
      BY <3>1 DEF OddSeen, Odd, Elems, NoMsg, Unasked
    <3> QED BY <3>1, <3>2, <3>3 DEF PanicByOdd
  <2>3. CASE CallbackSend \/ CallbackCanceled
    <3>1. PICK cb \in Registered(lmsg.id) :
             /\ panicked' = ch[cb.owner].closed
             /\ \/ ch' = [ch EXCEPT ![cb.owner] =
                             [buf |-> Append(@.buf, lmsg), closed |-> TRUE]]
                \/ ch' = [ch EXCEPT ![cb.owner].closed = TRUE]
      BY <2>3 DEF CallbackSend, CallbackCanceled
    <3>2. ~panicked' /\ cb.owner \in Thread /\ ch[cb.owner].buf = <<>>
      BY <1>t, <3>1 DEF RoutingInv, FreshChan, NewChan, Registered, Callback
    <3>3. lpc' # "callback" /\ lmsg' = NoMsg /\ UNCHANGED <<inbox, spent>>
      BY <2>3 DEF CallbackSend, CallbackCanceled, BackToReceive
    <3>4. /\ ch'[cb.owner].buf \in {<<>>, <<lmsg>>}
          /\ \A s \in Thread : s # cb.owner => ch'[s] = ch[s]
      BY <1>t, <3>1, <3>2, SMTT(20)
    <3>5. Elems(ch'[cb.owner].buf) \subseteq {lmsg}
      BY <3>4 DEF Elems
    <3>6. OddSeen' => OddSeen
      BY <3>2, <3>3, <3>4, <3>5 DEF OddSeen, Odd, Elems, NoMsg, Unasked
    <3> QED BY <3>3, <3>6 DEF DispatchRegistered, CbMuHeld, PanicByOdd
  <2> QED BY <1>3, <2>1, <2>2, <2>3 DEF Listen
<1>4. CASE Echo
  <2>1. CASE EchoFromListen \/ EchoFromTicker \/ EchoLoopStop
    <3>1. lpc' # "callback" \/ UNCHANGED lpc
      BY <2>1 DEF EchoFromListen, EchoFromTicker, EchoLoopStop
    <3>2. UNCHANGED <<lmsg, callbacks, inbox, spent, ch, panicked>>
      BY <2>1 DEF EchoFromListen, EchoFromTicker, EchoLoopStop
    <3> QED BY <1>d, <1>i, <3>1, <3>2 DEF DispatchRegistered, CbMuHeld
  <2>2. CASE EchoReturned
    <3>1. UNCHANGED <<lpc, lmsg, callbacks, inbox, spent, panicked>>
      BY <2>2 DEF EchoReturned
    <3>2. EchoLoop \in Thread
      BY ClientAssumption
    <3>3. ch'[EchoLoop].buf = <<>> /\ \A s \in Thread : s # EchoLoop => ch'[s] = ch[s]
      BY <1>t, <2>2, <3>2 DEF EchoReturned, Forget, NewChan
    <3> QED BY <1>c, <1>d, <3>1, <3>2, <3>3
  <2> QED BY <1>4, <2>1, <2>2 DEF Echo
<1>5. CASE Ticker \/ Close
  <2>1. UNCHANGED <<lpc, lmsg, callbacks, ch, panicked>>
    BY <1>5 DEF Ticker, Tick, TickerStop, Close, CloseCancel, CloseConn, CloseWait
  <2>2. spent'["odd"] = spent["odd"]
    BY <1>5, <1>s, <1>t DEF Ticker, Tick, TickerStop, Close, CloseCancel, CloseConn,
                            CloseWait
  <2>3. Elems(inbox') \subseteq Elems(inbox)
    BY <1>5, <1>t, PrefixElems DEF Ticker, Tick, TickerStop, Close, CloseCancel,
       CloseConn, ConnClose, CloseWait, Elems
  <2> QED BY <1>d, <1>i, <2>1, <2>2, <2>3
<1>6. CASE ServerStep
  <2>1. UNCHANGED <<lpc, lmsg, callbacks, ch, panicked>>
    BY <1>6 DEF ServerStep
  <2>2. ASSUME NEW m \in Response, ~Odd(m), ServerSends(m), spent'["odd"] = spent["odd"]
        PROVE  PanicByOdd'
    <3>1. Elems(inbox') = Elems(inbox) \cup {m}
      BY <1>t, <2>2, AppendElems DEF ServerSends
    <3>2. OddSeen' => OddSeen
      BY <2>1, <2>2, <3>1 DEF OddSeen, Odd, Elems
    <3> QED BY <2>2, <3>2 DEF PanicByOdd
  <2>3. CASE ServerRead
    BY <1>d, <1>i, <2>1, <2>3 DEF ServerRead, Elems
  <2>4. ASSUME NEW r \in pending, ServerReply(r) PROVE PanicByOdd'
    <3>1. \A b \in {"result", "error"} : Reply(r, b) \in Response /\ ~Odd(Reply(r, b))
      BY DEF Reply, Request, Response, TypeOK, ConnTypeOK, Odd
    <3> QED BY <2>2, <2>4, <3>1 DEF ServerReply, Answer
  <2>5. CASE ServerEcho \/ ServerNoise
    <3>1. \A k \in {"reply", "echo", "bad"} :
             Unasked(k) \in Response /\ ~Odd(Unasked(k))
      BY DEF Unasked, Response, Odd
    <3>2. \A r \in answered :
             Reply(r, "result") \in Response /\ ~Odd(Reply(r, "result"))
      BY DEF Reply, Request, Response, TypeOK, ConnTypeOK, Odd
    <3>3. spent'["odd"] = spent["odd"]
      BY <1>s, <1>t, <2>5 DEF ServerEcho, ServerNoise
    <3>4. PICK m \in Response : ~Odd(m) /\ ServerSends(m)
      BY <2>5, <3>1, <3>2 DEF ServerEcho, ServerNoise
    <3> QED BY <1>d, <2>1, <2>2, <3>3, <3>4
  <2>6. CASE ServerOdd
    <3>1. spent["odd"] < MaxOdd /\ spent'["odd"] = spent["odd"] + 1
      BY <1>t, <2>6 DEF ServerOdd, Within, Spend
    <3>2. spent["odd"] \in Nat
      BY <1>t
    <3> QED BY <1>d, <1>t, <2>1, <3>1, <3>2 DEF PanicByOdd
  <2>7. CASE ServerEnd
    <3>1. Elems(inbox') \subseteq Elems(inbox)
      BY <1>t, <2>7, PrefixElems DEF ServerEnd
    <3> QED BY <1>d, <1>i, <2>1, <2>7, <3>1 DEF ServerEnd
  <2> QED BY <1>6, <1>d, <2>1, <2>3, <2>4, <2>5, <2>6, <2>7 DEF ServerStep, Server
<1>7. CASE UNCHANGED vars
  BY <1>d, <1>i, <1>7 DEF vars, Elems
<1> QED BY <1>0, <1>1, <1>2, <1>3, <1>4, <1>5, <1>6, <1>7 DEF Next

(* Close cancels first, and nothing revives the client's context. *)
LEMMA CloseStep ==
    TypeOK /\ CancelBeforeClose /\ ClosedMeansCanceled /\ [Next]_vars
    => CancelBeforeClose' /\ ClosedMeansCanceled'
<1> SUFFICES ASSUME TypeOK, CancelBeforeClose, ClosedMeansCanceled
             PROVE  [Next]_vars => CancelBeforeClose' /\ ClosedMeansCanceled'
  OBVIOUS
<1>0. SUFFICES ASSUME [Next]_vars PROVE CancelBeforeClose' /\ ClosedMeansCanceled'
  OBVIOUS
<1> USE ClientAssumption
    DEF CancelBeforeClose, ClosedMeansCanceled, connVars, sendVars, rpcVars, loopVars,
        GoTo, Return, Outcome
<1>t. /\ outcome \in [Thread -> [result : Result, from : Thread \cup {NoThread}]]
      /\ ctxDone \in [Thread -> BOOLEAN]
  BY DEF TypeOK
<1>1. ASSUME NEW t \in User, Call(t) \/ Cancel(t) \/ UserReturns(t)
      PROVE  CancelBeforeClose' /\ ClosedMeansCanceled'
  BY <1>1, <1>t DEF User, Call, Cancel, UserReturns, Forget
<1>2. ASSUME NEW t \in Thread, Rpc(t) PROVE CancelBeforeClose' /\ ClosedMeansCanceled'
  <2>1. CASE SendFail(t)
    BY <1>t, <2>1 DEF SendFail, EncodeFail, WriteErr
  <2>2. CASE AwaitResponse(t)
    BY <1>t, <2>2 DEF AwaitResponse, RpcResult
  <2>3. CASE AwaitClosed(t)
    BY <1>t, <2>3 DEF AwaitClosed
  <2>4. CASE SendLock(t) \/ SendOK(t)
    BY <2>4 DEF SendLock, SendOK, EncodeOK
  <2>5. CASE SendUnmarshalable(t)
    BY <1>t, <2>5 DEF SendUnmarshalable, EncodeUnmarshalable
  <2>6. CASE CanceledBefore(t) \/ AwaitCanceled(t)
    BY <1>t, <2>6 DEF CanceledBefore, AwaitCanceled
  <2>7. CASE RequestID(t) \/ AddCallback(t) \/ Cleanup(t)
    BY <2>7 DEF RequestID, AddCallback, Cleanup
  <2> QED BY <1>2, <2>1, <2>2, <2>3, <2>4, <2>5, <2>6, <2>7 DEF Rpc
<1>3. CASE Listen
  BY <1>3 DEF Listen, ListenReceive, ListenStop, ListenBroken, ListenEchoCanceled,
              DoCallback, CallbackSend, CallbackCanceled
<1>4. CASE Echo
  BY <1>4, <1>t DEF Echo, EchoFromListen, EchoFromTicker, EchoLoopStop, EchoReturned,
              Forget
<1>5. CASE Ticker \/ UNCHANGED vars
  BY <1>5 DEF Ticker, Tick, TickerStop, vars
<1>6. CASE Close
  BY <1>6, <1>t DEF Close, CloseCancel, CancelContext, CloseConn, ConnClose, CloseWait
<1>7. CASE ServerStep
  <2>1. UNCHANGED <<outcome, ctxDone, cpc>>
    BY <1>7 DEF ServerStep
  <2>2. ASSUME NEW m, ServerSends(m) PROVE UNCHANGED <<closed, encErr>>
    BY <2>2 DEF ServerSends
  <2>3. CASE ServerRead \/ ServerEnd
    BY <2>1, <2>3 DEF ServerRead, ServerEnd
  <2>4. CASE (\E r \in pending : ServerReply(r)) \/ ServerEcho \/ ServerNoise \/ ServerOdd
    <3>1. \E m : ServerSends(m)
      BY <2>4 DEF ServerReply, Answer, ServerEcho, ServerNoise, ServerOdd
    <3> QED BY <2>1, <2>2, <3>1
  <2> QED BY <1>7, <2>3, <2>4 DEF ServerStep, Server
<1> QED BY <1>0, <1>1, <1>2, <1>3, <1>4, <1>5, <1>6, <1>7 DEF Next

-----------------------------------------------------------------------------
(* The theorems                                                            *)

(* The invariant holds when New returns. *)
LEMMA InitIInv == Init => IInv
<1> SUFFICES ASSUME Init PROVE IInv
  OBVIOUS
<1> USE DEF Init, ConnInit
<1>1. Elems(<<>>) = {}
  BY DEF Elems
<1>2. IDsDistinct /\ WireOwner
  BY <1>1 DEF IDsDistinct, WireOwner, Wire, InCall
<1>3. RepliesGenuine
  BY <1>1 DEF RepliesGenuine, Genuine, NoMsg, Unasked
<1>4. ChanGenuine /\ ClosedEmptyCanceled
  BY DEF ChanGenuine, ClosedEmptyCanceled, NewChan
<1>5. CallbackOwned /\ FreshChan
  BY DEF CallbackOwned, FreshChan
<1>6. OwnReply /\ NoSilentSuccess
  BY DEF OwnReply, NoSilentSuccess, Outcome
<1>7. EchoLoopIdle /\ DispatchRegistered
  BY ClientAssumption DEF EchoLoopIdle, DispatchRegistered, CbMuHeld
<1>8. PanicByOdd
  <2>1. ~OddSeen
    BY <1>1 DEF OddSeen, Odd, NoMsg, Unasked, NewChan
  <2>2. spent["odd"] = 0
    BY DEF Bound
  <2> QED BY <2>1, <2>2, ConnAssumption DEF PanicByOdd
<1>9. CancelBeforeClose /\ ClosedMeansCanceled
  BY ClientAssumption DEF CancelBeforeClose, ClosedMeansCanceled, Outcome
<1> QED
  BY <1>2, <1>3, <1>4, <1>5, <1>6, <1>7, <1>8, <1>9 DEF IInv, RoutingInv

(* The inductive invariant: who owns which request ID, request, answer,    *)
(* callback and response channel, in every behaviour of the client with    *)
(* any server.                                                             *)
THEOREM Inductive == Spec => []IInv
<1>1. TypeOK /\ IInv /\ [Next]_vars => IInv'
  BY RoutingStep, EchoIdleStep, CanceledStep, PanicStep, CloseStep DEF IInv
<1> QED
  BY <1>1, InitIInv, TypeCorrect, PTL DEF Spec

(* What rpc returns is the server's answer to the request of that very     *)
(* call, whatever is late, duplicated, reordered or canceled.              *)
THEOREM ReplyRouting == Spec => []OwnReply
<1>1. IInv => OwnReply
  BY DEF IInv, RoutingInv
<1> QED BY <1>1, Inductive, PTL

(* rpc never returns a nil error without an answer. *)
THEOREM SuccessIsAnswered == Spec => []NoSilentSuccess
<1>1. IInv => NoSilentSuccess
  BY DEF IInv
<1> QED BY <1>1, Inductive, PTL

(* No callback outlives the rpc that registered it. *)
THEOREM NoLeakedCallback == Spec => []CallbackOwned
<1>1. IInv => CallbackOwned
  BY DEF IInv, RoutingInv
<1> QED BY <1>1, Inductive, PTL

(* doCallback never blocks with cbMu held. *)
THEOREM DispatchNeverBlocks == Spec => []CallbackNeverBlocks
<1>1. TypeOK /\ IInv => CallbackNeverBlocks
  BY DEF IInv, RoutingInv, DispatchRegistered, FreshChan, CallbackNeverBlocks,
         HasRoom, NewChan, Registered
<1> QED BY <1>1, Inductive, TypeCorrect, PTL

(* A server that sends neither a message without an ID, other than "echo", *)
(* nor a null result cannot make the client panic, whatever else it sends  *)
(* or omits to send.                                                       *)
THEOREM PanicFree ==
    ASSUME MaxOdd = 0
    PROVE  Spec => []NoPanic
<1>1. TypeOK /\ IInv => NoPanic
  BY DEF IInv, PanicByOdd, OddSeen, NoPanic, TypeOK, ConnTypeOK, Bound
<1> QED BY <1>1, Inductive, TypeCorrect, PTL

(* An Echo that fails on the closed socket finds the context canceled, so  *)
(* that echoLoop's next turn ends it.                                      *)
THEOREM ClosedAfterCancel == Spec => []ClosedMeansCanceled
<1>1. IInv => ClosedMeansCanceled
  BY DEF IInv
<1> QED BY <1>1, Inductive, PTL

-----------------------------------------------------------------------------
(* Refinement of RpcService                                                *)

(* rpc has its result exactly from the step that leaves its last select,   *)
(* or that gives up before, until its caller has taken it.                 *)
OutcomeWhenDone ==
    \A t \in Thread :
       outcome[t].result # "none" <=> pc[t] \in {"cleanup", "returned"}

(* The state of RpcService, as OvsdbClient!Service maps it. *)
Statuses == [t \in Thread |-> CallStatus(t)]
ServedCalls == {t \in Thread : [id |-> rid[t], from |-> t] \in answered}

(* Every step sets the outcome when, and only when, it ends rpc. *)
LEMMA OutcomeStep ==
    TypeOK /\ OutcomeWhenDone /\ EchoLoopIdle /\ [Next]_vars => OutcomeWhenDone'
<1> SUFFICES ASSUME TypeOK, OutcomeWhenDone, EchoLoopIdle
             PROVE  [Next]_vars => OutcomeWhenDone'
  OBVIOUS
<1>0. SUFFICES ASSUME [Next]_vars PROVE OutcomeWhenDone'
  OBVIOUS
<1> USE DEF OutcomeWhenDone, rpcVars, loopVars, GoTo, Return, Outcome
<1>t. /\ pc \in [Thread -> InCall \cup {"idle", "start", "returned"}]
      /\ outcome \in [Thread -> [result : Result, from : Thread \cup {NoThread}]]
  BY DEF TypeOK
<1>1. ASSUME NEW t \in User, Call(t) \/ Cancel(t) \/ UserReturns(t) PROVE OutcomeWhenDone'
  BY <1>1, <1>t DEF User, Call, Cancel, UserReturns, Forget
<1>2. ASSUME NEW t \in Thread, Rpc(t) PROVE OutcomeWhenDone'
  <2>1. CASE CanceledBefore(t) \/ AwaitCanceled(t) \/ AwaitClosed(t) \/ SendUnmarshalable(t)
    BY <2>1, <1>t DEF CanceledBefore, AwaitCanceled, AwaitClosed, SendUnmarshalable
  <2>2. CASE RequestID(t) \/ AddCallback(t) \/ SendLock(t) \/ SendOK(t) \/ Cleanup(t)
    BY <2>2, <1>t DEF RequestID, AddCallback, SendLock, SendOK, Cleanup
  <2>3. CASE SendFail(t)
    <3>1. "none" \notin WriteErr
      BY DEF WriteErr
    <3> QED BY <2>3, <3>1, <1>t DEF SendFail
  <2>4. CASE AwaitResponse(t)
    BY <2>4, <1>t DEF AwaitResponse, RpcResult
  <2> QED BY <1>2, <2>1, <2>2, <2>3, <2>4 DEF Rpc
<1>3. CASE Listen
  BY <1>3 DEF Listen, ListenReceive, ListenStop, ListenBroken, ListenEchoCanceled,
              DoCallback, CallbackSend, CallbackCanceled
<1>4. CASE Echo
  BY <1>4, <1>t, ClientAssumption
  DEF Echo, EchoFromListen, EchoFromTicker, EchoLoopStop, EchoReturned, TakeEcho,
      Forget, EchoLoopIdle
<1>5. CASE Ticker \/ Close \/ ServerStep \/ UNCHANGED vars
  BY <1>5 DEF Ticker, Tick, TickerStop, Close, CloseCancel, CloseConn, CloseWait,
              ServerStep, vars
<1> QED BY <1>0, <1>1, <1>2, <1>3, <1>4, <1>5 DEF Next

(* A step of one thread changes the status of no other call. *)
LEMMA StatusStep ==
    ASSUME NEW t \in Thread, TypeOK,
           \A s \in Thread \ {t} : pc'[s] = pc[s] /\ outcome'[s] = outcome[s]
    PROVE  Statuses' = [Statuses EXCEPT ![t] = CallStatus(t)']
<1>1. ASSUME NEW s \in Thread \ {t} PROVE CallStatus(s)' = CallStatus(s)
  BY <1>1 DEF CallStatus
<1> QED BY <1>1 DEF Statuses

(* A step that keeps the IDs and the answers keeps what has been served. *)
LEMMA ServedSame ==
    ASSUME UNCHANGED <<rid, answered>>
    PROVE  ServedCalls' = ServedCalls
BY DEF ServedCalls

(* Only a call that has sent its request is served. *)
LEMMA ServedSent ==
    ASSUME RoutingInv, NEW t \in ServedCalls
    PROVE  t \in Thread /\ rid[t] # 0 /\ pc[t] \in {"await", "cleanup", "returned"}
BY DEF ServedCalls, RoutingInv, WireOwner, Wire

(* The steps of RpcService, over the mapped state. *)
LEMMA AbstractSteps ==
    ASSUME NEW t \in Thread,
           \/ /\ Statuses[t] = "idle"
              /\ Statuses' = [Statuses EXCEPT ![t] = "calling"]
              /\ ServedCalls' = ServedCalls
           \/ /\ Statuses[t] # "idle" /\ t \notin ServedCalls
              /\ ServedCalls' = ServedCalls \cup {t}
              /\ Statuses' = Statuses
           \/ /\ Statuses[t] = "calling"
              /\ Statuses' = [Statuses EXCEPT ![t] = "error"]
              /\ ServedCalls' = ServedCalls
           \/ /\ Statuses[t] = "calling" /\ t \in ServedCalls
              /\ Statuses' = [Statuses EXCEPT ![t] = "success"]
              /\ ServedCalls' = ServedCalls
           \/ /\ Statuses[t] \in {"success", "error"}
              /\ Statuses' = [Statuses EXCEPT ![t] = "idle"]
              /\ ServedCalls' = ServedCalls \ {t}
    PROVE  Service!ServiceNext
<1>1. Service!Begin(t) \/ Service!Answer(t) \/ Service!Succeed(t) \/ Service!Fail(t)
         \/ Service!End(t)
  BY DEF Statuses, ServedCalls, Service!Begin, Service!Answer, Service!Succeed,
         Service!Fail, Service!End
<1> QED BY <1>1 DEF Service!ServiceNext

(* A step that keeps the mapped state is a stutter of RpcService. *)
LEMMA AbstractStutter ==
    ASSUME Statuses' = Statuses, ServedCalls' = ServedCalls
    PROVE  UNCHANGED Service!serviceVars
BY DEF Statuses, ServedCalls, Service!serviceVars

(* rpc: it fails, succeeds with an answer of the server, or stutters. *)
LEMMA RefineRpc ==
    ASSUME TypeOK, RoutingInv, OutcomeWhenDone, NoSilentSuccess', NEW t \in Thread, Rpc(t)
    PROVE  [Service!ServiceNext]_Service!serviceVars
<1>t. /\ pc \in [Thread -> InCall \cup {"idle", "start", "returned"}]
      /\ outcome \in [Thread -> [result : Result, from : Thread \cup {NoThread}]]
      /\ rid \in [Thread -> Nat] /\ rpcID \in Nat
  BY DEF TypeOK
<1> USE DEF connVars, srvVars, GoTo, Return, Outcome
<1>1. \A s \in Thread \ {t} : pc'[s] = pc[s] /\ outcome'[s] = outcome[s]
  BY <1>t DEF Rpc, CanceledBefore, RequestID, AddCallback, SendLock, SendOK,
     SendFail, SendUnmarshalable, AwaitCanceled, AwaitResponse, AwaitClosed, Cleanup
<1>2. Statuses' = [Statuses EXCEPT ![t] = CallStatus(t)']
  BY <1>1, StatusStep
<1>3. Statuses = [Statuses EXCEPT ![t] = CallStatus(t)]
  BY DEF Statuses
<1>4. Statuses[t] = CallStatus(t)
  BY DEF Statuses
<1>5. ASSUME CallStatus(t)' = CallStatus(t), ServedCalls' = ServedCalls
      PROVE  UNCHANGED Service!serviceVars
  BY <1>2, <1>3, <1>5, AbstractStutter
<1>6. ASSUME pc[t] \in {"start", "lock", "write", "await"},
             pc'[t] \in {"cleanup", "returned"},
             outcome'[t].result \notin {"none", "reply", "nil"},
             UNCHANGED <<rid, answered>>
      PROVE  Service!ServiceNext
  <2>1. CallStatus(t) = "calling"
    BY <1>6 DEF CallStatus, OutcomeWhenDone
  <2>2. CallStatus(t)' = "error"
    BY <1>6 DEF CallStatus
  <2> QED BY <1>2, <1>4, <1>6, <2>1, <2>2, ServedSame, AbstractSteps
<1>7. CASE CanceledBefore(t) \/ AwaitCanceled(t) \/ SendUnmarshalable(t)
  <2>1. pc[t] \in {"start", "lock", "await"} /\ pc'[t] \in {"cleanup", "returned"}
    BY <1>7, <1>t DEF CanceledBefore, AwaitCanceled, SendUnmarshalable
  <2>2. outcome'[t].result \notin {"none", "reply", "nil"} /\ UNCHANGED <<rid, answered>>
    BY <1>7, <1>t DEF CanceledBefore, AwaitCanceled, SendUnmarshalable
  <2> QED BY <1>6, <2>1, <2>2
<1>8. CASE SendFail(t)
  <2>1. WriteErr \subseteq {"closed", "broken"}
    BY DEF WriteErr, TypeOK, ConnTypeOK
  <2>2. pc[t] = "write" /\ pc'[t] = "cleanup" /\ UNCHANGED <<rid, answered>>
    BY <1>8, <1>t DEF SendFail
  <2>3. outcome'[t].result \in {"closed", "broken"}
    BY <1>8, <1>t, <2>1 DEF SendFail
  <2> QED BY <1>6, <2>2, <2>3
<1>9. CASE AwaitClosed(t)
  <2>1. pc[t] = "await" /\ pc'[t] = "cleanup" /\ UNCHANGED <<rid, answered>>
    BY <1>9, <1>t DEF AwaitClosed
  <2>2. outcome'[t].result \in {"canceled", "nil"}
    BY <1>9, <1>t DEF AwaitClosed
  <2> QED BY <1>6, <2>1, <2>2 DEF NoSilentSuccess
<1>10. CASE AwaitResponse(t)
  <2>1. /\ pc[t] = "await" /\ pc'[t] = "cleanup" /\ UNCHANGED <<rid, answered>>
        /\ outcome'[t].result \in {"reply", "failed"}
    BY <1>10, <1>t DEF AwaitResponse, RpcResult
  <2>2. CASE outcome'[t].result = "failed"
    BY <1>6, <2>1, <2>2
  <2>3. CASE outcome'[t].result = "reply"
    <3>1. t \in ServedCalls
      <4>1. PICK m \in Elems(ch[t].buf) : m.id = rid[t] /\ m.id # 0 /\ Genuine(m)
        BY <1>10 DEF AwaitResponse, RoutingInv, ChanGenuine
      <4>2. [id |-> m.id, from |-> m.from] \in answered
        BY <4>1 DEF Genuine
      <4>3. m.from = t
        BY <4>1, <4>2 DEF RoutingInv, WireOwner, Wire
      <4> QED BY <4>1, <4>2, <4>3 DEF ServedCalls
    <3>2. CallStatus(t) = "calling"
      BY <2>1 DEF CallStatus, OutcomeWhenDone
    <3>3. CallStatus(t)' = "success"
      BY <2>1, <2>3 DEF CallStatus
    <3> QED BY <1>2, <1>4, <2>1, <3>1, <3>2, <3>3, ServedSame, AbstractSteps
  <2> QED BY <2>1, <2>2, <2>3
<1>11. CASE RequestID(t)
  <2>1. pc[t] = "start" /\ pc'[t] = "register" /\ outcome' = outcome
    BY <1>11, <1>t DEF RequestID
  <2>2. CallStatus(t)' = CallStatus(t)
    BY <2>1 DEF CallStatus, OutcomeWhenDone
  <2>3. t \notin ServedCalls
    BY <2>1, ServedSent
  <2>4. answered' = answered /\ rid' = [rid EXCEPT ![t] = rpcID + 1]
    BY <1>11 DEF RequestID, NextID
  <2>5. [id |-> rpcID + 1, from |-> t] \notin answered
    BY <1>t DEF RoutingInv, WireOwner, Wire
  <2>6. ServedCalls' = ServedCalls
    BY <1>t, <2>3, <2>4, <2>5 DEF ServedCalls
  <2> QED BY <1>5, <2>2, <2>6
<1>12. CASE AddCallback(t) \/ SendLock(t) \/ SendOK(t) \/ Cleanup(t)
  <2>1. /\ pc[t] # "idle" /\ pc'[t] # "idle" /\ outcome' = outcome
        /\ UNCHANGED <<rid, answered>>
    BY <1>12, <1>t DEF AddCallback, SendLock, SendOK, Cleanup
  <2>2. CallStatus(t)' = CallStatus(t)
    BY <2>1 DEF CallStatus
  <2> QED BY <1>5, <2>1, <2>2, ServedSame
<1> QED BY <1>7, <1>8, <1>9, <1>10, <1>11, <1>12 DEF Rpc

(* The caller of rpc begins a call, or takes its result. *)
LEMMA RefineCaller ==
    ASSUME TypeOK, RoutingInv, OutcomeWhenDone, NEW t \in Thread,
           \/ /\ pc[t] = "idle" /\ GoTo(t, "start")
              /\ UNCHANGED <<rid, outcome, answered>>
           \/ pc[t] = "returned" /\ Forget(t) /\ UNCHANGED answered
    PROVE  Service!ServiceNext
<1>t. /\ pc \in [Thread -> InCall \cup {"idle", "start", "returned"}]
      /\ outcome \in [Thread -> [result : Result, from : Thread \cup {NoThread}]]
      /\ rid \in [Thread -> Nat]
  BY DEF TypeOK
<1> USE DEF GoTo, Return, Outcome, Forget
<1>1. \A s \in Thread \ {t} : pc'[s] = pc[s] /\ outcome'[s] = outcome[s]
  BY <1>t
<1>2. Statuses' = [Statuses EXCEPT ![t] = CallStatus(t)'] /\ Statuses[t] = CallStatus(t)
  BY <1>1, StatusStep DEF Statuses
<1>3. CASE pc[t] = "idle" /\ GoTo(t, "start") /\ UNCHANGED <<rid, outcome, answered>>
  <2>1. CallStatus(t) = "idle" /\ CallStatus(t)' = "calling"
    BY <1>3, <1>t DEF CallStatus, OutcomeWhenDone
  <2> QED BY <1>2, <1>3, <2>1, ServedSame, AbstractSteps
<1>4. CASE pc[t] = "returned" /\ Forget(t) /\ UNCHANGED answered
  <2>1. CallStatus(t) \in {"success", "error"} /\ CallStatus(t)' = "idle"
    BY <1>4, <1>t DEF CallStatus, OutcomeWhenDone
  <2>2. [id |-> 0, from |-> t] \notin answered
    BY DEF RoutingInv, WireOwner, Wire
  <2>3. ServedCalls' = ServedCalls \ {t}
    BY <1>4, <1>t, <2>2 DEF ServedCalls
  <2> QED BY <1>2, <2>1, <2>3, AbstractSteps
<1> QED BY <1>3, <1>4

(* An answer of the server serves the call whose request it answers, if    *)
(* that call is still there.                                               *)
LEMMA RefineAnswer ==
    ASSUME TypeOK, RoutingInv, OutcomeWhenDone, NEW r \in pending,
           answered' = answered \cup {r}, UNCHANGED rpcVars
    PROVE  [Service!ServiceNext]_Service!serviceVars
<1>1. Statuses' = Statuses
  BY DEF Statuses, CallStatus, rpcVars
<1>2. CASE \E t \in Thread \ ServedCalls : r = [id |-> rid[t], from |-> t]
  <2>1. PICK t \in Thread \ ServedCalls : r = [id |-> rid[t], from |-> t]
    BY <1>2
  <2>2. pc[t] # "idle"
    BY <2>1 DEF RoutingInv, WireOwner, Wire
  <2>3. Statuses[t] # "idle"
    BY <2>2 DEF Statuses, CallStatus
  <2>4. ServedCalls' = ServedCalls \cup {t}
    BY <2>1 DEF ServedCalls, rpcVars
  <2> QED BY <1>1, <2>1, <2>3, <2>4, AbstractSteps
<1>3. CASE ~\E t \in Thread \ ServedCalls : r = [id |-> rid[t], from |-> t]
  <2>1. ServedCalls' = ServedCalls
    BY <1>3 DEF ServedCalls, rpcVars
  <2> QED BY <1>1, <2>1, AbstractStutter
<1> QED BY <1>2, <1>3

(* Every step of the client and of the server is a step of RpcService or   *)
(* leaves the mapped state alone.                                          *)
LEMMA RefineStep ==
    TypeOK /\ IInv /\ OutcomeWhenDone /\ NoSilentSuccess' /\ [Next]_vars
    => [Service!ServiceNext]_Service!serviceVars
<1> SUFFICES ASSUME TypeOK, IInv, OutcomeWhenDone, NoSilentSuccess', [Next]_vars
             PROVE  [Service!ServiceNext]_Service!serviceVars
  OBVIOUS
<1> USE DEF connVars, srvVars, rpcVars, loopVars
<1>0. RoutingInv /\ EchoLoopIdle
  BY DEF IInv
<1>1. ASSUME UNCHANGED <<pc, outcome, rid, answered>>
      PROVE  UNCHANGED Service!serviceVars
  <2>1. Statuses' = Statuses
    BY <1>1 DEF Statuses, CallStatus
  <2> QED BY <1>1, <2>1, ServedSame, AbstractStutter
<1>2. ASSUME NEW t \in User, Call(t) \/ Cancel(t) \/ UserReturns(t)
      PROVE  [Service!ServiceNext]_Service!serviceVars
  <2>1. CASE Call(t)
    BY <1>0, <2>1, RefineCaller DEF Call, User
  <2>2. CASE Cancel(t)
    BY <1>1, <2>2 DEF Cancel
  <2>3. CASE UserReturns(t)
    BY <1>0, <2>3, RefineCaller DEF UserReturns, User
  <2> QED BY <1>2, <2>1, <2>2, <2>3
<1>3. CASE Listen
  BY <1>1, <1>3
  DEF Listen, ListenReceive, ListenStop, ListenBroken, ListenEchoCanceled, DoCallback,
      CallbackSend, CallbackCanceled
<1>4. CASE Echo
  <2>0. EchoLoop \in Thread
    BY ClientAssumption
  <2>1. CASE EchoFromListen \/ EchoFromTicker
    <3>1. TakeEcho /\ UNCHANGED <<rid, outcome, answered>>
      BY <2>1 DEF EchoFromListen, EchoFromTicker
    <3>2. CASE ctxDone[EchoLoop]
      BY <1>1, <3>1, <3>2 DEF TakeEcho
    <3>3. CASE ~ctxDone[EchoLoop]
      <4>1. pc[EchoLoop] = "idle" /\ GoTo(EchoLoop, "start")
        BY <1>0, <3>1, <3>3 DEF TakeEcho, EchoLoopIdle
      <4> QED BY <1>0, <2>0, <3>1, <4>1, RefineCaller
    <3> QED BY <3>2, <3>3
  <2>2. CASE EchoLoopStop
    BY <1>1, <2>2 DEF EchoLoopStop
  <2>3. CASE EchoReturned
    BY <1>0, <2>0, <2>3, RefineCaller DEF EchoReturned
  <2> QED BY <1>4, <2>1, <2>2, <2>3 DEF Echo
<1>5. CASE Ticker \/ Close \/ UNCHANGED vars
  BY <1>1, <1>5 DEF Ticker, Tick, TickerStop, Close, CloseCancel, CloseConn, CloseWait,
                    vars
<1>6. CASE ServerStep
  <2>1. \/ UNCHANGED answered
        \/ \E r \in pending : answered' = answered \cup {r}
    BY <1>6 DEF ServerStep, Server, ServerRead, ServerReply, ServerEcho, ServerNoise,
                ServerOdd, ServerEnd, Answer
  <2>2. UNCHANGED rpcVars
    BY <1>6 DEF ServerStep
  <2> QED BY <1>0, <1>1, <2>1, <2>2, RefineAnswer
<1> QED BY <1>0, <1>2, <1>3, <1>4, <1>5, <1>6, RefineRpc DEF Next

(* The client implements RpcService: whatever the server, the stream, the  *)
(* timeouts and Close do, each call of rpc ends at most once, and with     *)
(* success only after the server has answered this very call.              *)
THEOREM ServiceRefinement == Spec => ImplementsService
<1>1. Init => OutcomeWhenDone
  <2> SUFFICES ASSUME Init, NEW t \in Thread
               PROVE  outcome[t].result # "none" <=> pc[t] \in {"cleanup", "returned"}
    BY DEF OutcomeWhenDone
  <2>1. outcome[t] = Outcome("none", NoThread) /\ pc[t] = "idle"
    BY DEF Init
  <2> QED BY <2>1 DEF Outcome
<1>2. IInv => EchoLoopIdle /\ NoSilentSuccess
  BY DEF IInv
<1>3. Init => Service!ServiceInit
  BY DEF Init, ConnInit, Outcome, CallStatus, Service!ServiceInit
<1>4. Spec => []OutcomeWhenDone
  BY <1>1, <1>2, OutcomeStep, Inductive, TypeCorrect, PTL DEF Spec
<1>5. Spec => [](TypeOK /\ IInv /\ OutcomeWhenDone)
  BY <1>4, Inductive, TypeCorrect, PTL
<1>6. Spec => []NoSilentSuccess
  BY <1>2, Inductive, PTL
<1> QED
  BY <1>3, <1>5, <1>6, RefineStep, PTL DEF Spec, ImplementsService, Service!ServiceSpec
=============================================================================
