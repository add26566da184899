---------------------------- MODULE JsonRpcConn ----------------------------
(***************************************************************************)
(* The JSON-RPC connection of ovsdb/internal/jsonrpc (Conn.Send,           *)
(* Conn.Receive, Conn.Close), the byte stream below it and the OVSDB       *)
(* server at its other end.                                                *)
(*                                                                         *)
(* A message is the record of the fields that client.go looks at.  The     *)
(* field `from' is not on the wire: it names the goroutine whose call the  *)
(* request belongs to, and a reply inherits it from the request it         *)
(* answers, so that a property can say whose answer a caller received.     *)
(*                                                                         *)
(* The server, the TCP stream and the encoding/json stream types are not   *)
(* part of the repository; they are modelled from how conn.go uses them.   *)
(***************************************************************************)
EXTENDS Naturals, Sequences

CONSTANTS
    Thread,      \* the goroutines that call Client.rpc
    NoThread,    \* not a thread
    NetCap,      \* requests the stream holds before a Write blocks
    PeerFaults,  \* how the stream may end: a subset of {"eof", "broken"}
    MaxCall,     \* bound: RPCs issued by users
    MaxTick,     \* bound: ticks of the echo ticker
    MaxEcho,     \* bound: echo requests sent by the server
    MaxNoise,    \* bound: duplicate, stray and ill-typed messages of the server
    MaxOdd,      \* bound: messages without an ID, answers with a null result
    MaxClose,    \* bound: calls of Close (0 or 1)
    MaxEvents    \* bound: all of these and the end of the stream together

ASSUME ConnAssumption ==
    /\ NoThread \notin Thread
    /\ NetCap \in Nat \ {0}
    /\ PeerFaults \subseteq {"eof", "broken"}
    /\ MaxCall \in Nat /\ MaxTick \in Nat /\ MaxEcho \in Nat
    /\ MaxNoise \in Nat /\ MaxOdd \in Nat /\ MaxClose \in Nat /\ MaxEvents \in Nat

VARIABLES
    outbox,   \* requests written by the client, not yet read by the server
    inbox,    \* messages of the server, not yet decoded by the client
    encMu,    \* Conn.encMu: the thread that holds it, or NoThread
    encErr,   \* the error json.Encoder keeps returning after a failed Write
    decErr,   \* json.Decoder has failed for good with a non-EOF error
    closed,   \* the client has closed the socket
    peer,     \* the server's end: "up", or how it ended
    pending,  \* requests the server has read and not answered
    answered, \* requests the server has answered
    spent     \* how much of each bound has been used up

sendVars == <<outbox, encMu, encErr>>
recvVars == <<inbox, decErr>>
srvVars  == <<peer, pending, answered>>
connVars == <<sendVars, recvVars, closed, srvVars, spent>>

Bound == [call |-> MaxCall, tick |-> MaxTick, echo |-> MaxEcho,
          noise |-> MaxNoise, odd |-> MaxOdd, close |-> MaxClose]

Events == spent.call + spent.tick + spent.echo + spent.noise + spent.odd + spent.close
            + (IF peer = "up" THEN 0 ELSE 1)
MoreEvents == Events < MaxEvents

Within(k) == MoreEvents /\ spent[k] < Bound[k]
Spend(k)  == spent' = [spent EXCEPT ![k] = @ + 1]

(* What Conn.Send encodes: an RPC ID, with the thread it stands for. *)
Request == [id : Nat, from : Thread]

(* What Conn.Receive decodes.  "bad" is a value json cannot store in a     *)
(* Response (an UnmarshalTypeError); "notify" a message whose id is null   *)
(* and whose method is not "echo".  An answer's body is a result, a        *)
(* JSON-RPC or OVSDB error, or a null result with a null error.            *)
Response == [kind : {"reply", "echo", "notify", "bad"}, id : Nat,
             from : Thread \cup {NoThread}, body : {"result", "error", "null"}]

Reply(r, b)  == [kind |-> "reply", id |-> r.id, from |-> r.from, body |-> b]
Unasked(k)   == [kind |-> k, id |-> 0, from |-> NoThread, body |-> "result"]

ConnTypeOK ==
    /\ outbox \in Seq(Request)
    /\ inbox \in Seq(Response)
    /\ encMu \in Thread \cup {NoThread}
    /\ encErr \in {"none", "closed", "broken"}
    /\ decErr \in BOOLEAN
    /\ closed \in BOOLEAN
    /\ peer \in {"up", "eof", "broken"}
    /\ pending \in SUBSET Request
    /\ answered \in SUBSET Request
    /\ spent \in [DOMAIN Bound -> Nat]

ConnInit ==
    /\ outbox = <<>> /\ inbox = <<>>
    /\ encMu = NoThread /\ encErr = "none"
    /\ decErr = FALSE
    /\ closed = FALSE
    /\ peer = "up"
    /\ pending = {} /\ answered = {}
    /\ spent = [k \in DOMAIN Bound |-> 0]

-----------------------------------------------------------------------------
(* Conn.Send, in two steps: take encMu, then Encode.                       *)

(* Any call of Send first waits for the mutex. *)
LockEnc(t) ==
    /\ encMu = NoThread
    /\ encMu' = t

(* The Write succeeds when the stream has room for the request.  A full    *)
(* stream blocks it, and with it the holder of encMu.                      *)
EncodeOK(t, id) ==
    /\ encErr = "none" /\ ~closed
    /\ Len(outbox) < NetCap
    /\ outbox' = Append(outbox, [id |-> id, from |-> t])
    /\ encMu' = NoThread
    /\ UNCHANGED encErr

(* The Write fails on a closed socket, or when the peer is gone.  The      *)
(* encoder keeps its first write error and returns it ever after.          *)
WriteErr ==
    IF encErr # "none" THEN {encErr}
    ELSE IF closed THEN {"closed"}
    ELSE IF peer # "up" THEN {"broken"}
    ELSE {}

EncodeFail(e) ==
    /\ e \in WriteErr
    /\ encErr' = e
    /\ encMu' = NoThread
    /\ UNCHANGED outbox

(* Encode marshals before it writes.  Parameters that cannot be marshalled *)
(* make it fail with nothing written and no error kept.                    *)
EncodeUnmarshalable ==
    /\ encMu = NoThread
    /\ encErr = "none"
    /\ UNCHANGED sendVars

-----------------------------------------------------------------------------
(* Conn.Receive.  Only the listen goroutine calls it, so decMu is never    *)
(* contended.                                                              *)

Decode ==
    /\ ~decErr
    /\ inbox # <<>>
    /\ inbox' = Tail(inbox)
    /\ UNCHANGED decErr

(* io.EOF, or an error that mentions a closed network connection. *)
DecodeStop ==
    /\ ~decErr
    /\ inbox = <<>>
    /\ closed \/ peer = "eof"
    /\ UNCHANGED <<inbox, decErr>>

(* A reset connection, a message cut off in the middle or malformed JSON:  *)
(* any error that is neither of the two above.  json.Decoder stores it and *)
(* returns the same error from every later call.                           *)
DecodeBroken ==
    /\ ~decErr
    /\ inbox = <<>>
    /\ peer = "broken"
    /\ decErr' = TRUE
    /\ UNCHANGED inbox

(* Conn.Close.  Whatever the decoder has already buffered can still be     *)
(* decoded; what it has not read from the socket is lost.                  *)
ConnClose ==
    /\ closed' = TRUE
    /\ \E n \in 0 .. Len(inbox) : inbox' = SubSeq(inbox, 1, n)

-----------------------------------------------------------------------------
(* The OVSDB server.  It may answer requests in any order.                 *)

ServerRead ==
    /\ peer = "up" /\ ~closed
    /\ outbox # <<>>
    /\ pending' = pending \cup {Head(outbox)}
    /\ outbox' = Tail(outbox)
    /\ UNCHANGED <<encMu, encErr, recvVars, closed, peer, answered, spent>>

ServerSends(m) ==
    /\ peer = "up" /\ ~closed
    /\ inbox' = Append(inbox, m)
    /\ UNCHANGED <<sendVars, decErr, closed, peer>>

Answer(r, b) ==
    /\ r \in pending
    /\ ServerSends(Reply(r, b))
    /\ pending' = pending \ {r}
    /\ answered' = answered \cup {r}

ServerReply(r) ==
    /\ \E b \in {"result", "error"} : Answer(r, b)
    /\ UNCHANGED spent

(* The server asks for an echo. *)
ServerEcho ==
    /\ Within("echo") /\ Spend("echo")
    /\ ServerSends(Unasked("echo"))
    /\ UNCHANGED <<pending, answered>>

(* The same answer again, an answer to nothing, or an ill-typed message. *)
ServerNoise ==
    /\ Within("noise") /\ Spend("noise")
    /\ \/ \E r \in answered : ServerSends(Reply(r, "result"))
       \/ ServerSends(Unasked("reply"))
       \/ ServerSends(Unasked("bad"))
    /\ UNCHANGED <<pending, answered>>

(* What no server sends in answer to the requests of this client. *)
ServerOdd ==
    /\ Within("odd") /\ Spend("odd")
    /\ \/ ServerSends(Unasked("notify")) /\ UNCHANGED <<pending, answered>>
       \/ \E r \in pending : Answer(r, "null")

(* The stream ends.  A reset may also destroy messages that were on their  *)
(* way.                                                                    *)
ServerEnd ==
    /\ peer = "up" /\ ~closed
    /\ MoreEvents
    /\ peer' \in PeerFaults
    /\ \E n \in 0 .. Len(inbox) :
          /\ peer' = "eof" => n = Len(inbox)
          /\ inbox' = SubSeq(inbox, 1, n)
    /\ UNCHANGED <<sendVars, decErr, closed, pending, answered, spent>>

Server ==
    \/ ServerRead
    \/ \E r \in pending : ServerReply(r)
    \/ ServerEcho
    \/ ServerNoise
    \/ ServerOdd
    \/ ServerEnd
=============================================================================
