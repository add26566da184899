---------------------------- MODULE OvsdbClient ----------------------------
(***************************************************************************)
(* The goroutines of an ovsdb.Client (ovsdb/client.go): the users' calls   *)
(* of rpc, the listen loop, the echo loop and its ticker, and Close.       *)
(*                                                                         *)
(* Every step below is atomic in the code: one operation on a channel, a   *)
(* context, a mutex-protected section, an atomic integer or the            *)
(* connection, with the local computation around it.                       *)
(*                                                                         *)
(* A thread runs one rpc at a time, so the locals of rpc (the context, the *)
(* request ID, the response channel) are functions of the thread.  A       *)
(* callback {Ctx, Response} of the callbacks map is the ID with the thread *)
(* whose context and channel it holds.                                     *)
(***************************************************************************)
EXTENDS JsonRpcConn, FiniteSets

CONSTANTS
    EchoLoop,     \* the echo loop's goroutine, a thread that calls rpc too
    HasTicker     \* whether the EchoInterval option is set

ASSUME ClientAssumption ==
    /\ EchoLoop \in Thread
    /\ HasTicker \in BOOLEAN

User == Thread \ {EchoLoop}

VARIABLES
    rpcID,      \* Client.rpcID, the last ID handed out
    callbacks,  \* Client.callbacks
    pc,         \* where each thread is in rpc
    rid,        \* the ID of each thread's current request
    ctxDone,    \* whether each thread's context is done; the echo loop's is
                \* the context that New makes and Close cancels
    ch,         \* the response channel of each thread's current call
    outcome,    \* what rpc returns, and whose answer it is
    lpc,        \* where the listen goroutine is
    lmsg,       \* the message it is handling
    epc,        \* where the echo loop is
    tpc,        \* where the echo ticker is
    cpc,        \* where Close is
    echoOK, echoFail,  \* Client.echoOK, Client.echoFail
    panicked    \* a goroutine has panicked, which ends the program

rpcVars  == <<pc, rid, ch, outcome>>
loopVars == <<lpc, lmsg, epc, tpc, cpc, echoOK, echoFail>>
vars == <<connVars, rpcID, callbacks, rpcVars, ctxDone, loopVars, panicked>>

Callback == [id : Nat, owner : Thread]

(* Threads that are past requestID and not yet past the deferred delete. *)
InCall == {"register", "lock", "write", "await", "cleanup"}

Result == {"none", "canceled", "closed", "broken", "failed", "reply", "nil"}

(* make(chan rpcResponse, 1) *)
NewChan == [buf |-> <<>>, closed |-> FALSE]

(* listen handles no message while it is in Receive. *)
NoMsg == Unasked("bad")

Outcome(r, f) == [result |-> r, from |-> f]

(* doCallback holds cbMu while it waits in its select statement; every     *)
(* other section under cbMu is a single step.                              *)
CbMuHeld == lpc = "callback"

TypeOK ==
    /\ ConnTypeOK
    /\ rpcID \in Nat
    /\ callbacks \in SUBSET Callback
    /\ pc \in [Thread -> InCall \cup {"idle", "start", "returned"}]
    /\ rid \in [Thread -> Nat]
    /\ ctxDone \in [Thread -> BOOLEAN]
    /\ ch \in [Thread -> [buf : Seq(Response), closed : BOOLEAN]]
    /\ outcome \in [Thread -> [result : Result, from : Thread \cup {NoThread}]]
    /\ lpc \in {"receive", "echo", "dispatch", "callback", "stopped"}
    /\ lmsg \in Response
    /\ epc \in {"select", "rpc", "stopped"}
    /\ tpc \in {"wait", "offer", "stopped"}
    /\ cpc \in {"open", "canceled", "closed", "done"}
    /\ echoOK \in Nat /\ echoFail \in Nat
    /\ panicked \in BOOLEAN

(* New has started its goroutines. *)
Init ==
    /\ ConnInit
    /\ rpcID = 0
    /\ callbacks = {}
    /\ pc = [t \in Thread |-> "idle"]
    /\ rid = [t \in Thread |-> 0]
    /\ ctxDone = [t \in Thread |-> FALSE]
    /\ ch = [t \in Thread |-> NewChan]
    /\ outcome = [t \in Thread |-> Outcome("none", NoThread)]
    /\ lpc = "receive" /\ lmsg = NoMsg
    /\ epc = "select"
    /\ tpc = IF HasTicker THEN "wait" ELSE "stopped"
    /\ cpc = "open"
    /\ echoOK = 0 /\ echoFail = 0
    /\ panicked = FALSE

-----------------------------------------------------------------------------
(* rpc                                                                     *)

GoTo(t, to) == pc' = [pc EXCEPT ![t] = to]
Return(t, to, o) == GoTo(t, to) /\ outcome' = [outcome EXCEPT ![t] = o]

(* A user calls ListDatabases, Echo or Transact with a context of its own, *)
(* which may be done already (see Cancel).                                 *)
Call(t) ==
    /\ pc[t] = "idle"
    /\ Within("call") /\ Spend("call")
    /\ GoTo(t, "start")
    /\ UNCHANGED <<sendVars, recvVars, closed, srvVars, rpcID, callbacks, rid, ch,
                   outcome, ctxDone, loopVars, panicked>>

(* The context is canceled by its owner, or its deadline passes. *)
Cancel(t) ==
    /\ pc[t] \notin {"idle", "returned"}
    /\ ~ctxDone[t]
    /\ ctxDone' = [ctxDone EXCEPT ![t] = TRUE]
    /\ UNCHANGED <<connVars, rpcID, callbacks, rpcVars, loopVars, panicked>>

(* Was the context canceled before sending the RPC? *)
CanceledBefore(t) ==
    /\ pc[t] = "start"
    /\ ctxDone[t]
    /\ Return(t, "returned", Outcome("canceled", NoThread))
    /\ UNCHANGED <<connVars, rpcID, callbacks, rid, ch, ctxDone, loopVars, panicked>>

(* Mutants of NextID: the counter runs down; IDs are handed out again. *)
NextIDDown == rpcID - 1
NextIDAgain == IF rpcID = 0 THEN 1 ELSE rpcID

NextID == rpcID + 1

RequestID(t) ==
    /\ pc[t] = "start"
    /\ ~ctxDone[t]
    /\ rpcID' = NextID
    /\ rid' = [rid EXCEPT ![t] = NextID]
    /\ GoTo(t, "register")
    /\ UNCHANGED <<connVars, callbacks, ch, outcome, ctxDone, loopVars, panicked>>

(* The entries of the callbacks map for an ID. *)
Registered(id) == {cb \in callbacks : cb.id = id}

(* Makes the response channel and registers the callback; an ID that is    *)
(* registered already is a panic.                                          *)
AddCallback(t) ==
    /\ pc[t] = "register"
    /\ ~CbMuHeld
    /\ ch' = [ch EXCEPT ![t] = NewChan]
    /\ panicked' = (Registered(rid[t]) # {})
    /\ callbacks' = callbacks \cup {[id |-> rid[t], owner |-> t]}
    /\ GoTo(t, "lock")
    /\ UNCHANGED <<connVars, rpcID, rid, outcome, ctxDone, loopVars>>

SendLock(t) ==
    /\ pc[t] = "lock"
    /\ LockEnc(t)
    /\ GoTo(t, "write")
    /\ UNCHANGED <<outbox, encErr, recvVars, closed, srvVars, spent, rpcID, callbacks,
                   rid, ch, outcome, ctxDone, loopVars, panicked>>

SendOK(t) ==
    /\ pc[t] = "write"
    /\ EncodeOK(t, rid[t])
    /\ GoTo(t, "await")
    /\ UNCHANGED <<recvVars, closed, srvVars, spent, rpcID, callbacks,
                   rid, ch, outcome, ctxDone, loopVars, panicked>>

SendFail(t) ==
    /\ pc[t] = "write"
    /\ \E e \in WriteErr :
          /\ EncodeFail(e)
          /\ Return(t, "cleanup", Outcome(e, NoThread))
    /\ UNCHANGED <<recvVars, closed, srvVars, spent, rpcID, callbacks, rid, ch, ctxDone,
                   loopVars, panicked>>

(* Only a user's Transact has operations that may fail to marshal. *)
SendUnmarshalable(t) ==
    /\ pc[t] = "lock"
    /\ t \in User
    /\ EncodeUnmarshalable
    /\ Return(t, "cleanup", Outcome("failed", NoThread))
    /\ UNCHANGED <<recvVars, closed, srvVars, spent, rpcID, callbacks, rid, ch, ctxDone,
                   loopVars, panicked>>

(* Mutant of AwaitCanceled: the select does not look at the context. *)
AwaitCanceledNever(t) == FALSE

(* The three ways out of rpc's last select.  When the context is done and  *)
(* the channel is ready, Go picks either.                                  *)
AwaitCanceled(t) ==
    /\ pc[t] = "await"
    /\ ctxDone[t]
    /\ Return(t, "cleanup", Outcome("canceled", NoThread))
    /\ UNCHANGED <<connVars, rpcID, callbacks, rid, ch, ctxDone, loopVars, panicked>>

(* rpcResult returns the JSON-RPC error, the OVSDB error or the error of   *)
(* unmarshalling, and nil for a result.  A null result makes Unmarshal set *)
(* its pointer to the result to nil, and rpcResult dereferences it.        *)
RpcResult(m) == IF m.body = "result" THEN "reply" ELSE "failed"
RpcResultPanics(m) == m.body = "null"

AwaitResponse(t) ==
    /\ pc[t] = "await"
    /\ ch[t].buf # <<>>
    /\ LET m == Head(ch[t].buf)
       IN /\ Return(t, "cleanup", Outcome(RpcResult(m), m.from))
          /\ panicked' = RpcResultPanics(m)
    /\ ch' = [ch EXCEPT ![t].buf = Tail(@)]
    /\ UNCHANGED <<connVars, rpcID, callbacks, rid, ctxDone, loopVars>>

(* The channel is closed and empty: rpc returns ctx.Err(), which is nil    *)
(* while the context is not done.                                          *)
AwaitClosed(t) ==
    /\ pc[t] = "await"
    /\ ch[t].buf = <<>> /\ ch[t].closed
    /\ Return(t, "cleanup",
              Outcome(IF ctxDone[t] THEN "canceled" ELSE "nil", NoThread))
    /\ UNCHANGED <<connVars, rpcID, callbacks, rid, ch, ctxDone, loopVars, panicked>>

Deregistered(id) == callbacks \ Registered(id)

(* Mutant of Cleanup: no deferred delete. *)
CleanupNothing(t) ==
    /\ pc[t] = "cleanup"
    /\ GoTo(t, "returned")
    /\ UNCHANGED <<connVars, rpcID, callbacks, rid, ch, outcome, ctxDone, loopVars,
                   panicked>>

(* The deferred delete. *)
Cleanup(t) ==
    /\ pc[t] = "cleanup"
    /\ ~CbMuHeld
    /\ callbacks' = Deregistered(rid[t])
    /\ GoTo(t, "returned")
    /\ UNCHANGED <<connVars, rpcID, rid, ch, outcome, ctxDone, loopVars, panicked>>

(* The locals of rpc are gone once it has returned. *)
Forget(t) ==
    /\ Return(t, "idle", Outcome("none", NoThread))
    /\ rid' = [rid EXCEPT ![t] = 0]
    /\ ch' = [ch EXCEPT ![t] = NewChan]

(* The user has the result and may call again. *)
UserReturns(t) ==
    /\ pc[t] = "returned"
    /\ Forget(t)
    /\ ctxDone' = [ctxDone EXCEPT ![t] = FALSE]
    /\ UNCHANGED <<connVars, rpcID, callbacks, loopVars, panicked>>

Rpc(t) ==
    \/ CanceledBefore(t) \/ RequestID(t) \/ AddCallback(t)
    \/ SendLock(t) \/ SendOK(t) \/ SendFail(t) \/ SendUnmarshalable(t)
    \/ AwaitCanceled(t) \/ AwaitResponse(t) \/ AwaitClosed(t)
    \/ Cleanup(t)

-----------------------------------------------------------------------------
(* listen                                                                  *)

BackToReceive == lpc' = "receive" /\ lmsg' = NoMsg

(* A message is decoded.  An ill-typed one is an error, and the loop goes  *)
(* on; a message without an ID that is no "echo" makes *res.ID panic.      *)
ListenReceive ==
    /\ lpc = "receive"
    /\ Decode
    /\ \/ /\ Head(inbox).kind = "echo"
          /\ lpc' = "echo" /\ UNCHANGED <<lmsg, panicked>>
       \/ /\ Head(inbox).kind = "reply"
          /\ lpc' = "dispatch" /\ lmsg' = Head(inbox) /\ UNCHANGED panicked
       \/ /\ Head(inbox).kind = "bad"
          /\ UNCHANGED <<lpc, lmsg, panicked>>
       \/ /\ Head(inbox).kind = "notify"
          /\ panicked' = TRUE /\ UNCHANGED <<lpc, lmsg>>
    /\ UNCHANGED <<sendVars, closed, srvVars, spent, rpcID, callbacks, rpcVars,
                   ctxDone, epc, tpc, cpc, echoOK, echoFail>>

(* EOF or a closed connection: time to stop serving. *)
ListenStop ==
    /\ lpc = "receive"
    /\ DecodeStop
    /\ lpc' = "stopped"
    /\ UNCHANGED <<sendVars, closed, srvVars, spent, rpcID, callbacks, rpcVars,
                   ctxDone, lmsg, epc, tpc, cpc, echoOK, echoFail, panicked>>

(* Any other error: the loop keeps trying.  The decoder never recovers, so *)
(* from here on the loop spins and no step of it changes anything.         *)
ListenBroken ==
    /\ lpc = "receive"
    /\ DecodeBroken
    /\ UNCHANGED <<sendVars, closed, srvVars, spent, rpcID, callbacks, rpcVars,
                   ctxDone, loopVars, panicked>>

(* Mutant of ListenEchoCanceled: the hand-over ignores the context. *)
ListenEchoNotCanceled == FALSE

(* The server wants an echo, and the client's context is done. *)
ListenEchoCanceled ==
    /\ lpc = "echo"
    /\ ctxDone[EchoLoop]
    /\ lpc' = "receive"
    /\ UNCHANGED <<connVars, rpcID, callbacks, rpcVars, ctxDone, lmsg, epc, tpc, cpc,
                   echoOK, echoFail, panicked>>

(* doCallback takes cbMu and looks the ID up. *)
DoCallback ==
    /\ lpc = "dispatch"
    /\ \/ Registered(lmsg.id) = {} /\ BackToReceive
       \/ Registered(lmsg.id) # {} /\ lpc' = "callback" /\ UNCHANGED lmsg
    /\ UNCHANGED <<connVars, rpcID, callbacks, rpcVars, ctxDone, epc, tpc, cpc, echoOK,
                   echoFail, panicked>>

(* Mutant of HasRoom: the callback was registered without its channel. *)
HasRoomNilChannel(t) == FALSE

(* Whether a send on the response channel of t would not block. *)
HasRoom(t) == Len(ch[t].buf) < 1

(* Mutant of CallerGone: doCallback gives up before the context is done. *)
CallerGoneAlways(t) == TRUE

(* Whether the context of the callback is done. *)
CallerGone(t) == ctxDone[t]

(* The callbacks map after doCallback. *)
Served(id) == Deregistered(id)

(* The two cases of doCallback's select, the delete and the deferred close *)
(* and unlock.  Sending on, or closing, a closed channel is a panic.       *)
CallbackSend ==
    /\ lpc = "callback"
    /\ \E cb \in Registered(lmsg.id) :
          /\ HasRoom(cb.owner)
          /\ panicked' = ch[cb.owner].closed
          /\ ch' = [ch EXCEPT ![cb.owner] =
                       [buf |-> Append(@.buf, lmsg), closed |-> TRUE]]
    /\ callbacks' = Served(lmsg.id)
    /\ BackToReceive
    /\ UNCHANGED <<connVars, rpcID, pc, rid, outcome, ctxDone, epc, tpc, cpc, echoOK,
                   echoFail>>

CallbackCanceled ==
    /\ lpc = "callback"
    /\ \E cb \in Registered(lmsg.id) :
          /\ CallerGone(cb.owner)
          /\ panicked' = ch[cb.owner].closed
          /\ ch' = [ch EXCEPT ![cb.owner].closed = TRUE]
    /\ callbacks' = Served(lmsg.id)
    /\ BackToReceive
    /\ UNCHANGED <<connVars, rpcID, pc, rid, outcome, ctxDone, epc, tpc, cpc, echoOK,
                   echoFail>>

-----------------------------------------------------------------------------
(* echoLoop and echoTicker                                                 *)

(* A value passes through the unbuffered channel echoC.  The echo loop     *)
(* returns if the context is done by now, and calls Echo otherwise.        *)
TakeEcho ==
    /\ epc = "select"
    /\ IF ctxDone[EchoLoop]
         THEN epc' = "stopped" /\ UNCHANGED pc
         ELSE epc' = "rpc" /\ GoTo(EchoLoop, "start")

EchoFromListen ==
    /\ lpc = "echo"
    /\ TakeEcho
    /\ lpc' = "receive"
    /\ UNCHANGED <<connVars, rpcID, callbacks, rid, ch, outcome, ctxDone, lmsg, tpc,
                   cpc, echoOK, echoFail, panicked>>

EchoFromTicker ==
    /\ tpc = "offer"
    /\ TakeEcho
    /\ tpc' = "wait"
    /\ UNCHANGED <<connVars, rpcID, callbacks, rid, ch, outcome, ctxDone, lpc, lmsg,
                   cpc, echoOK, echoFail, panicked>>

EchoLoopStop ==
    /\ epc = "select"
    /\ ctxDone[EchoLoop]
    /\ epc' = "stopped"
    /\ UNCHANGED <<connVars, rpcID, callbacks, rpcVars, ctxDone, lpc, lmsg, tpc, cpc,
                   echoOK, echoFail, panicked>>

(* Echo returns nil if rpc has an answer that repeats the request.  What   *)
(* an answer says is not part of a Response: it is the same, or it is not. *)
Echoed == IF outcome[EchoLoop].result = "reply" THEN BOOLEAN ELSE {FALSE}

(* Mutant of EchoReturned: the loop returns after a failure that counts. *)
EchoReturnedForGood ==
    /\ epc = "rpc"
    /\ pc[EchoLoop] = "returned"
    /\ \E ok \in Echoed :
          /\ echoOK' = IF ok THEN echoOK + 1 ELSE echoOK
          /\ IF ok \/ outcome[EchoLoop].result = "closed"
               THEN epc' = "select" /\ UNCHANGED echoFail
               ELSE epc' = "stopped" /\ echoFail' = echoFail + 1
    /\ Forget(EchoLoop)
    /\ UNCHANGED <<connVars, rpcID, callbacks, ctxDone, lpc, lmsg, tpc, cpc, panicked>>

(* Echo has returned.  A closed socket is not counted as a failure. *)
EchoReturned ==
    /\ epc = "rpc"
    /\ pc[EchoLoop] = "returned"
    /\ \E ok \in Echoed :
          /\ echoOK' = IF ok THEN echoOK + 1 ELSE echoOK
          /\ echoFail' = IF ok \/ outcome[EchoLoop].result = "closed"
                           THEN echoFail ELSE echoFail + 1
    /\ epc' = "select"
    /\ Forget(EchoLoop)
    /\ UNCHANGED <<connVars, rpcID, callbacks, ctxDone, lpc, lmsg, tpc, cpc, panicked>>

(* The ticker fires: echoTicker offers an echo, unless the context is done. *)
Tick ==
    /\ tpc = "wait"
    /\ Within("tick") /\ Spend("tick")
    /\ tpc' = IF ctxDone[EchoLoop] THEN "stopped" ELSE "offer"
    /\ UNCHANGED <<sendVars, recvVars, closed, srvVars, rpcID, callbacks, rpcVars,
                   ctxDone, lpc, lmsg, epc, cpc, echoOK, echoFail, panicked>>

TickerStop ==
    /\ tpc \in {"wait", "offer"}
    /\ ctxDone[EchoLoop]
    /\ tpc' = "stopped"
    /\ UNCHANGED <<connVars, rpcID, callbacks, rpcVars, ctxDone, lpc, lmsg, epc, cpc,
                   echoOK, echoFail, panicked>>

-----------------------------------------------------------------------------
(* Close: cancel the context, close the connection, wait for the goroutines *)

(* Mutant of CancelContext: Close goes straight to the connection. *)
CancelContextNot == UNCHANGED ctxDone

(* The cancel function that New stores in the client. *)
CancelContext == ctxDone' = [ctxDone EXCEPT ![EchoLoop] = TRUE]

CloseCancel ==
    /\ cpc = "open"
    /\ Within("close") /\ Spend("close")
    /\ CancelContext
    /\ cpc' = "canceled"
    /\ UNCHANGED <<sendVars, recvVars, closed, srvVars, rpcID, callbacks, rpcVars, lpc,
                   lmsg, epc, tpc, echoOK, echoFail, panicked>>

CloseConn ==
    /\ cpc = "canceled"
    /\ ConnClose
    /\ cpc' = "closed"
    /\ UNCHANGED <<sendVars, decErr, srvVars, spent, rpcID, callbacks, rpcVars,
                   ctxDone, lpc, lmsg, epc, tpc, echoOK, echoFail, panicked>>

CloseWait ==
    /\ cpc = "closed"
    /\ lpc = "stopped" /\ epc = "stopped" /\ tpc = "stopped"
    /\ cpc' = "done"
    /\ UNCHANGED <<connVars, rpcID, callbacks, rpcVars, ctxDone, lpc, lmsg, epc, tpc,
                   echoOK, echoFail, panicked>>

-----------------------------------------------------------------------------

Listen == \/ ListenReceive \/ ListenStop \/ ListenBroken \/ ListenEchoCanceled
          \/ DoCallback \/ CallbackSend \/ CallbackCanceled
Echo   == \/ EchoFromListen \/ EchoFromTicker \/ EchoLoopStop \/ EchoReturned
Ticker == Tick \/ TickerStop
Close  == CloseCancel \/ CloseConn \/ CloseWait

ServerStep ==
    /\ Server
    /\ UNCHANGED <<rpcID, callbacks, rpcVars, ctxDone, loopVars, panicked>>

Next ==
    /\ ~panicked
    /\ \/ \E t \in User : Call(t) \/ Cancel(t) \/ UserReturns(t)
       \/ \E t \in Thread : Rpc(t)
       \/ Listen \/ Echo \/ Ticker \/ Close
       \/ ServerStep

Spec == Init /\ [][Next]_vars

(* The Go scheduler runs every goroutine that can take a step, Close keeps *)
(* going once it is called, and tickers fire.  Nothing obliges a user to   *)
(* call, to cancel or to close.                                            *)
Alive(A) == ~panicked /\ A

ClientFairness ==
    /\ \A t \in Thread : WF_vars(Alive(Rpc(t)))
    /\ WF_vars(Alive(Listen))
    /\ WF_vars(Alive(Echo))
    /\ WF_vars(Alive(Ticker))
    /\ WF_vars(Alive(CloseConn \/ CloseWait))

FairSpec == Spec /\ ClientFairness

(* A server that reads what it is sent ... *)
ReadingServer ==
    WF_vars(Alive(ServerRead /\ UNCHANGED <<rpcID, callbacks, rpcVars, ctxDone,
                                            loopVars, panicked>>))

FairReadingSpec == FairSpec /\ ReadingServer

(* ... and answers it. *)
AnsweringServer ==
    WF_vars(Alive(/\ \E r \in pending : ServerReply(r)
                  /\ UNCHANGED <<rpcID, callbacks, rpcVars, ctxDone, loopVars,
                                 panicked>>))

FairAnsweringSpec == FairReadingSpec /\ AnsweringServer

-----------------------------------------------------------------------------
(* Safety                                                                  *)

(* No goroutine panics: no RPC ID is registered twice (addCallback), no    *)
(* response channel is closed twice or written after its close             *)
(* (doCallback), no missing ID is dereferenced (listen) and no missing     *)
(* result (rpcResult).                                                     *)
NoPanic == ~panicked

(* The result an rpc returns is the server's answer to the request of that *)
(* very call, even though answers come late, twice, in any order, or after *)
(* the call was canceled and its thread has moved on to another one.       *)
OwnReply ==
    \A t \in Thread :
       /\ outcome[t].result = "reply" => outcome[t].from = t
       /\ outcome[t].from \in {t, NoThread}

(* rpc never returns nil without an answer: doCallback closes a response   *)
(* channel without sending on it only when the context is done, so the     *)
(* ctx.Err() that rpc then returns is an error.                            *)
NoSilentSuccess == \A t \in Thread : outcome[t].result # "nil"

(* No callback outlives its call: an entry of the callbacks map belongs to *)
(* a thread that is still in the rpc that registered it.  The number that  *)
(* Stats reports is the number of calls in progress.                       *)
CallbackOwned ==
    \A cb \in callbacks :
       /\ rid[cb.owner] = cb.id
       /\ pc[cb.owner] \in {"lock", "write", "await", "cleanup"}

(* The select in doCallback, which holds cbMu, can always proceed: no user *)
(* can make listen block with the mutex that every rpc needs.              *)
CallbackNeverBlocks ==
    CbMuHeld => /\ Registered(lmsg.id) # {}
                /\ \A cb \in Registered(lmsg.id) :
                      HasRoom(cb.owner) \/ CallerGone(cb.owner)

(* echoLoop's comment: when Echo fails because the socket was closed, the  *)
(* context is canceled already, and the next turn of the loop ends it.     *)
ClosedMeansCanceled ==
    outcome[EchoLoop].result = "closed" => ctxDone[EchoLoop]

-----------------------------------------------------------------------------
(* Refinement                                                              *)

(* What the caller of rpc sees.  A nil error is a success to the caller,   *)
(* whether an answer came with it or not.                                  *)
CallStatus(t) ==
    CASE pc[t] = "idle"                              -> "idle"
      [] pc[t] # "idle" /\ outcome[t].result = "none" -> "calling"
      [] outcome[t].result \in {"reply", "nil"}       -> "success"
      [] OTHER                                        -> "error"

Service == INSTANCE RpcService WITH
    status <- [t \in Thread |-> CallStatus(t)],
    served <- {t \in Thread : [id |-> rid[t], from |-> t] \in answered}

(* The client keeps the promise of RpcService: each call ends at most      *)
(* once, and with success only after the server has answered this call.    *)
ImplementsService == Service!ServiceSpec

-----------------------------------------------------------------------------
(* Liveness                                                                *)

(* Close returns: it stops listen, echoLoop and echoTicker wherever they   *)
(* are blocked.                                                            *)
CloseReturns == (cpc = "canceled") ~> (cpc = "done")

(* The same, unless the decoder fails for good: Close also ends a          *)
(* hand-over that is stuck, and an Echo that waits for an answer.          *)
CloseReturnsIfDecodes == [](~panicked /\ ~decErr) => CloseReturns

(* What the tests require of every client that is closed: no callback      *)
(* stays registered.                                                       *)
CleanAfterClose == (cpc = "done") ~> (callbacks = {})

(* "All methods on the Client that accept a context.Context can use the    *)
(* context to cancel or time out requests": a call whose context is done   *)
(* returns.                                                                *)
CanceledReturns ==
    \A t \in User :
       (ctxDone[t] /\ pc[t] \notin {"idle", "returned"}) ~> (pc[t] = "returned")

(* The same, as long as the server reads: rpc looks at the context before  *)
(* and after Send, and Send does not block for ever.                       *)
CanceledReturnsIfRead == ReadingServer /\ []~panicked => CanceledReturns

(* listen hands an echo request over to an echo loop that waits for an     *)
(* answer, which only listen can deliver.                                  *)
EchoStuck ==
    /\ lpc = "echo" /\ epc = "rpc" /\ pc[EchoLoop] = "await"
    /\ ch[EchoLoop] = NewChan

(* A call to a server that reads and answers returns, unless the client is *)
(* closed or the stream ends first, or listen is stuck for ever: listen    *)
(* gets to its answer and doCallback to its channel.                       *)
RpcCompletes ==
    ReadingServer /\ AnsweringServer /\ []~panicked =>
       \A t \in Thread :
          \/ (pc[t] = "await") ~> (pc[t] = "returned" \/ cpc # "open" \/ peer # "up")
          \/ <>[]EchoStuck

(* listen never stays in the hand-over of a server's echo request, so the  *)
(* client always answers it.                                               *)
EchoHandedOver == (lpc = "echo") ~> (lpc # "echo")

(* EchoStuck is the only way for it to stay there: whatever became of the  *)
(* echo loop's earlier calls, failed ones among them, it comes back for    *)
(* the next request.                                                       *)
EchoHandedOverUnlessStuck ==
    ReadingServer /\ []~panicked => EchoHandedOver \/ <>[]EchoStuck
=============================================================================
