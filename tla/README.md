# Verification of go-openvswitch

TLA+ models of go-openvswitch, a set of Go packages that talk to Open vSwitch:
TLC checks them on small instances, TLAPS proves theorems about them for every
value of their constants. `PROJECT.json` lists the runs, the theorems, the
mutants and which definition models which lines.

## 1. The system

| Part | State it keeps | Operations | What is hard |
|---|---|---|---|
| `ovsdb/internal/jsonrpc.Conn` | `encMu`, `decMu`, a JSON encoder and decoder on one socket | `Send`, `Receive`, `Close` | a Write that blocks, errors that the encoder and decoder keep for ever, Close racing both |
| `ovsdb.Client` | `rpcID`, `callbacks` under `cbMu`, a context, `echoOK`, `echoFail`, up to three goroutines | `ListDatabases`, `Echo`, `Transact` (all through `rpc`), `Close`; goroutines `listen`, `echoLoop`, `echoTicker` | late, duplicate and reordered answers, cancellation at any point, unbuffered channels, shutdown |
| `ovs.FlowTransaction`, `AddFlowBundle` | the flows, `committed`, `err` | `Add`, `Delete`, `Commit`, `Discard` | the user's function calls them in any order; errors are kept for later |
| `ovs.shellPipe` | a process and three pipes | one call | bounded pipes, a command that fails early |
| `ovs.Client` | flags and functions, set by options | `exec`, `pipe` and the services built on them | concurrent calls append to shared slices |
| `ovs.OpenFlowService`, `VSwitchService`, `DataPathService`, `AppService` | none of their own: the switch, its database and the kernel's datapath keep it | one command each, and the parsing of its output | dumps that end early or mix layouts, commands that time out too late, several programs on one database |
| flows, matches, actions, port ranges (`ovs`) | none | marshalling and parsing | nesting, widths of numbers, keys that a parser does not know |
| `ovsnl.Client` | a generic netlink connection | `New`, `Close`, `Datapath.List` | partial support in the kernel |

How they interact. `ovsdb.Client` owns one `Conn`. Each user's goroutine runs
`rpc`: it takes an ID, registers a callback (context and one-element channel),
sends, and waits for the channel or the context. `listen` is the only reader of
the `Conn`; it hands an answer to the callback with its ID (`doCallback`, which
holds `cbMu` while it does so) and an echo request of the server to `echoLoop`
through the unbuffered `echoC`, which `echoTicker` also feeds. `echoLoop` calls
`rpc` like a user, with the context that `Close` cancels. `Close` then closes the
socket and waits for the three goroutines. In package `ovs`, `AddFlowBundle` runs
the user's function on a `FlowTransaction` and then calls `pipe`, which runs
`shellPipe`.

What makes each correct:

- `Conn`/`ovsdb.Client`: an answer reaches the call it belongs to or nobody; no
  success without an answer; no callback outlives its call; nothing blocks while
  it holds `cbMu`; no panic; a call whose context is done returns; echo requests
  are taken; Close returns and leaves nothing behind.
- Flow bundles: what is piped is all that was asked for, or nothing is.
- `shellPipe`: it returns, with the whole output, and says why a command failed.
- Argument lists: a command gets the arguments of its own call.
- Flows: what is dumped is what was added, and a deletion by a dumped flow hits
  that flow and no wider set.
- Parsers: what is parsed is what was printed, or there is an error.
- Configuration: a call can be repeated after an error, sets what it names and
  nothing else, and reads what is there.

## 2. Modules

| Module | What it is |
|---|---|
| `JsonRpcConn` | `Conn` with the stream and the server below it |
| `OvsdbClient` | EXTENDS `JsonRpcConn`: the goroutines of a client, composed with its connection |
| `RpcService` | the abstract specification of what `rpc` promises a caller |
| `MCOvsdbClient` | the client with a few threads, and their symmetry |
| `OvsdbClient_proofs` | theorems about `OvsdbClient` |
| `FlowBundle` | flow transactions |
| `ShellPipe` | `shellPipe`, its pipes and its command |
| `AddFlowBundle`, `AddFlowBundle_proofs` | EXTENDS `FlowBundle` and `ShellPipe`: a bundle on its way to the command; the proofs are about all three |
| `SharedFlags`, `SharedFlags_proofs` | the argument lists of concurrent commands of one `ovs.Client` |
| `Values` | the tokens that texts are made of, `strconv` and `net` on them |
| `Matches`, `MatchParser` | one printer for each match of `match.go`; `parseMatch` and its parsers |
| `Actions`, `ActionTokens` | one printer and one parser for each action; the cut of a list of actions |
| `FlowText` | `Flow`, `LearnedFlow` and `MatchFlow`, printed and parsed |
| `OpenFlow`, `OpenFlow_proofs` | EXTENDS `FlowText`: `AddFlow`, `DelFlows`, `DumpFlows` and a bridge |
| `PortRange` | `BitwiseMatch` and `MaskedPorts` |
| `Dumps` | `parseEach` with ports and tables, `dump-aggregate` |
| `AppTrace` | `ProtoTrace` and the trace of a packet in several passes |
| `PartialFunctions` | maps and tables as functions on their keys |
| `CtLimits`, `DataPath` | the reply of `ct-get-limits`; the calls of `DataPathService` on a datapath |
| `VSwitch` | the calls of `VSwitchService` on a database |
| `Services_proofs` | theorems about `VSwitch`, `CtLimits` and `DataPath` |
| `MCCommands` | the modules from `Values` on together, with the inputs that TLC enumerates |
| `Parsers_proofs` | theorems about the parsers and printers: fields, matches, actions, lists, whole flows |
| `RangesAndDumps_proofs` | theorems about `PortRange` and `Dumps` |
| `Commands_proofs` | theorems about `AppTrace`, and about `MCCommands` as a whole: those of the other modules for its inputs |

### JsonRpcConn and OvsdbClient

A step is one operation that is atomic in the code (a channel operation, a
section under a mutex, an atomic add, a Write, a Decode) with the local
computation around it.

| Code | Model |
|---|---|
| locals of `rpc` (context, ID, channel, result) | `ctxDone`, `rid`, `ch`, `outcome`, one per thread; `pc` is where the thread is |
| `Client.callbacks` | `callbacks`, a set of an ID and the thread whose context and channel the callback holds |
| `cbMu` | held between `DoCallback` and `CallbackSend`/`CallbackCanceled`; other sections are single steps |
| `encMu`, the encoder's and decoder's stored errors | `encMu`, `encErr`, `decErr` |
| the socket, both directions | `outbox` (at most `NetCap` requests, then a Write blocks) and `inbox` |
| `rpc` | `Call`, `CanceledBefore`, `RequestID`, `AddCallback`, `SendLock`, `SendOK`/`SendFail`/`SendUnmarshalable`, `AwaitCanceled`/`AwaitResponse`/`AwaitClosed`, `Cleanup` |
| `listen`, `doCallback` | `ListenReceive`, `ListenStop`, `ListenBroken`, `ListenEchoCanceled`, `DoCallback`, `CallbackSend`, `CallbackCanceled` |
| `echoLoop`, `echoTicker` | `EchoFromListen`, `EchoFromTicker`, `EchoLoopStop`, `EchoReturned`; `Tick`, `TickerStop` |
| `Close` | `CloseCancel`, `CloseConn`, `CloseWait` |
| a panic in any goroutine | `panicked`, after which nothing happens |

The server is external. It reads requests in order, answers them in any order,
and may answer twice, answer nothing, send ill-typed messages, echo requests,
messages without an ID and null results, and end the stream cleanly or not. Each
of these has a bound (`MaxEcho`, `MaxNoise`, `MaxOdd`, `PeerFaults`), so that a
run can say which server it assumes. The field `from` of a message is a ghost: it
says whose request an answer belongs to. Payloads are left out; an answer is a
result, an error, or null. `Echo` compares the answer with its request, which may
succeed or not (`Echoed`).

Left out: the debug wrapper of `Conn` and `Stats` (they only log and read), the
`decMu` mutex (only `listen` calls `Receive`), and `Dial`.

`RpcService` knows only the status of each thread's call and whether the server
has answered it: a call ends at most once, and with success only if it was
answered. `ImplementsService` maps `pc` and `outcome` to the status, and the
server's `answered` set to the other variable.

### FlowBundle

`txFlows`, `committed`, `txErr` are the fields of `FlowTransaction`; `wanted` is a
history of what the function asked for since its last `Discard`. The function is
any sequence of calls within the bounds. A flow is a name and whether
`MarshalText` accepts it. `CommitIsLast` says that the function returns once
`Commit` has succeeded, which the comment on `Commit` demands ("must be called at
the end of a successful transaction"). Without it `AllOrNothing` fails: a flow
that is rejected after the commit is dropped, and nobody looks at `tx.err` again.

### ShellPipe

Data is counted in chunks. `shellPipe` is a sequential program (`pc`): start,
copy, close stdin, read stdout to its end, read stderr to its end, wait. Four
kinds of errors end it before the wait: a pipe or the command that cannot be made
(`StartFails`), a write to a command that has exited (`CopyFails`), and an error of
`wc.Close` (`CloseStdinFails`) or of `ReadAll` (`ReadFails`). After the last two the
command goes on without `shellPipe`, and may succeed. The command is external: it may read, write and fail at any time, is stuck in a write
until the pipe has room, and succeeds only at the end of its input.

### AddFlowBundle

The two above in one behaviour: `PipeBundle` of the transaction is `Call` of
`shellPipe` with one chunk for each line, and what `shellPipe` returns decides
what `AddFlowBundle` returns.

### SharedFlags

`New` applies options that append to `flags` and `ofctlFlags`; Go's append doubles
the capacity of a short slice. A command appends its words to one or both slices:
into the array they share if there is room (`cells`), into a new one if not. The
flags themselves never change, so that a slice is its length, its capacity and
the words behind the flags. Each append and the execution is a step of its own.

### The texts of flows

Texts are not strings. A value is a sequence of tokens, the parts between
slashes: numbers with their notation (the parsers choose by `0x`), addresses with
their spelling, words. A field is a key and a value, a flow's text a sequence of
fields and a sequence of actions. Widths of numbers are constants (`U8` to `U64`)
in the order of the real ones. `Then(r, f)` is the code's
`if err != nil { return err }`. Only `ActionTokens` works on characters, of which
it tells four apart, because there the cut is the point.

The bridge of `OpenFlow` is external: it keeps the texts it was given, prints them
as `ovs-ofctl` does (statistics after blanks, another order of fields, a banner),
and removes what a selection selects. A dump may also fail or end in a line that
is not understood. `lines`, `dumped` and `complete` are of the last dump: the
texts that the switch printed, the flows that `DumpFlows` returned, and whether
it returned no error; the flows in front of a line that is not understood are
returned together with the error, and kept in `dumped` as well.

### VSwitch and DataPath

`db` is what `ovs-vsctl` keeps, `Vsctl` what a command does to it and prints.
`exec` takes the changed database with success, or with an error (a timeout that
came too late), or does not change it. Several programs are one sequence of calls:
a command is a transaction of the database. Options are numbers, of which zero is
the empty value; `slice` decides which of them a command names. In `DataPath` the
reply to `ct-get-limits` is printed from the state of the datapath and read by
`GetCTLimits` of `CtLimits`, line by line and with its removal from the slice that
the loop ranges over.

## 3. Runs

Passing:

| Run | Instance | What it shows |
|---|---|---|
| `rpc_safety` | two users, three calls, one noise message | every answer reaches its own call, no panic, no silent success, no callback outlives its call, `doCallback` never blocks, and the client implements `RpcService` |
| `client_liveness` | one user and the echo loop, a stream of one request; any three of a call, a tick, two echo requests, a notification, an odd message, Close, the end or a break of the stream | `echoLoop` may take a closed socket for a cancelled context; Close returns unless the decoder has failed, also out of the deadlock of `echo_deadlock`; if the server reads, a cancelled call returns, and an echo request is taken unless the echo loop waits for an answer; if it also answers, calls return |
| `add_flow_bundle` | two valid and one invalid flow, two calls of up to two flows, one Discard, pipes of two chunks | `AddFlowBundle` returns nil only if the bundle was delivered whole; behind an error no command succeeds, but one that `shellPipe` has given up; it returns; no output is lost |
| `commands` | one of: a bridge of two flows, a database of two bridges and a port, a datapath, or one input of a parser | see below |

`commands` asks many questions of modules that share no state, in one run with
exclusive modes: the first step picks a bridge, the database, the datapath or one
input, and the rest of the behaviour stays with it. Its properties:

| Property | Over | What it shows |
|---|---|---|
| `DumpFaithful`, `DeleteDumped` | sequences of adding, dumping and deleting | a flow comes back from the bridge as it was added; deleting by a dumped flow hits that flow and none that lacks its matches, table or cookie |
| `FieldsKept`, `MatchesReadBack` | every key with every value of up to three tokens; every match | no number is cut, no mask, address or flag lost between `parseMatch` and `MarshalText` |
| `ActionsReadBack`, `ActionsKept`, `ActionsCut` | every action; every action's text; every sequence of up to six characters | an action is parsed as itself or rejected; a list is cut at the commas outside parentheses |
| `RangesExact` | every pair of five-bit ports | `MaskedPorts` selects each port of the range once and no other |
| `DumpsExact` | up to five ports in every mix, two tables, four words | the statistics returned are those printed, or there is an error |
| `TracesExact` | up to two passes | the actions of all passes in order, the flows of the last |
| `CtLimitsExact`, `LimitsReadBack` | replies of up to four lines; sequences of calls | the limits returned are those of the zones asked for, after all that was set and deleted; a default that is no number is an error |
| `RetrySafe` | a call that was carried out but failed | made again, it succeeds and changes nothing: what `--may-exist` and `--if-exists` are for |
| `OptionsKept` | two programs on one interface | an option changes only by a call for that interface that gives it; zero in the two options of policing is left open (`zero_rate`) |
| `ReadsExact` | reads between changes | every name once, none that is empty; values as they are set |

Violations, each a disagreement between the code and what its comments or tests
say of it:

| Run | What TLC finds |
|---|---|
| `close_leaks` | with a fair scheduler and a server that answers: Close has returned, and a user's call waits for ever in its select, with its callback registered |
| `close_hangs` | after a broken message `listen` spins on the decoder's stored error, and Close waits for it for ever |
| `echo_deadlock` | a second echo request while `echoLoop` waits for the first answer: `listen` and `echoLoop` wait for each other |
| `send_ignores_context` | a server that stops reading: no context cancels a call that is in `Send` |
| `notification_panics` | a notification other than echo has no ID, and `listen` dereferences it |
| `flow_read_back` | a flow with `tun_src`, `ip_frag` or `in_port=0` is dumped, without an error, as another flow |
| `zero_rate` | a rate that was set on an interface stays in force after a call with `IngressRatePolicing` 0, although the comment of the field says "Set to 0 (the default) to disable policing" |
| `dump_wrong_bridge` | with `SetSSLParam` and one more option of `ovs-ofctl`, two goroutines that dump the ports of two bridges both run the command for one of them |

Limits of the passing results, which the models also show:

- `BundleReturns` needs a command whose stdout and stderr each fit into a pipe. With
  `MaxErr` or `MaxOut` above `PipeCap` the command waits for `shellPipe` to read
  and `shellPipe` for the command to read its input or to end its stdout: TLC
  finds that with one more chunk on either.
- `OutputComplete` is about calls that get to `Wait`. The early returns of
  `shellPipe` lose the command's output and skip `Wait`; `BundleDelivered` says
  behind which of them the command may still apply the bundle (`GivenUp`).
- `push` stops at an invalid flow but keeps the valid ones in front of it, although
  the comment on `Add` calls it a no-op; with `Commit` last nobody sees it.
- `EchoHandedOverUnlessStuck` and `RpcCompletes` leave out the state in which
  `listen` and the echo loop wait for each other (`EchoStuck`); `echo_deadlock` is
  that state. `RpcCompletes` leaves out a client that is closed (`close_leaks`) and
  a stream that has ended: nobody wakes the calls that wait then.
- `CloseReturnsIfDecodes` leaves out a decoder that has failed; `close_hangs` is
  what Close does then.
- `DumpFaithful` and `MatchesReadBack` leave out the matches that `parseMatch`
  renames or skips (`Renamed`, `Unread`); `flow_read_back` is what those do.
- `FieldsKept` is about what `ovs-ofctl` can print: numbers that are not negative
  and not wider than their field. Others are cut or wrap. `ActionsKept` is about
  decimal arguments; `%d` reads the zero of a hexadecimal one.
- `ActionsReadBack` leaves out a learn action with a load in it, which an
  unanchored pattern takes for that load.
- The dump of the model prints every priority. `ovs-ofctl` leaves the default one,
  32768, out, and `UnmarshalText` skips the first match then, because of the blank
  in front of it (`flow.go:429`): flows of that priority are not modelled.
- A match with a mask of zero is printed without a mask (`portText`).
  `MatchesReadBack` compares with what was printed, and does not see it.
- `LimitsExact` is about replies without empty lines and with one default at most;
  on others `GetCTLimits` panics or loses a line, and so does the model. A zone's
  number that cannot be read is 0, without an error.
- A zero `IngressRatePolicing` is not given to the command (`slice`);
  `DefaultIngressRatePolicing`, -1, turns policing off. `OptionsKept` does not say
  which of the comments on a zero is right.
- `GetDataPaths` returns one empty name when there is no datapath, unlike
  `ListPorts` and `ListBridges`.

Bounds. Two users and the echo loop are all the kinds of callers there are, and
two users are enough for one to hold a mutex, an answer or an ID that another
waits for or is given. Three calls let a user start a second call while the
answers to an earlier one are under way. One or two slots in the stream make a
Write block. One duplicate suffices for a channel to be served twice; two echo
requests, or one and a tick, are what the deadlock needs. In `client_liveness` the
echo loop is the second caller, so a user and it contend for `encMu` and the one
slot of the stream. There `MaxEvents` bounds the events that come from outside,
together with the end of the stream: three are every combination of two causes
and Close, such as two echo requests that get stuck, with Close after them, or an
odd message and a break of the stream on either side of a call. In `rpc_safety`
the bound is never reached before the others. The proofs do not depend on the
bounds.

Two calls with up to two flows each let an invalid flow come before, between and
after valid ones, on either side of a Discard. Pipes of two chunks are full,
partly full and empty; a bundle is longer than its pipe. In `SharedFlags` two
options and two callers are the fewest that share an array.

In `commands` the widths are 8, 16, 32, 64, 128, 256 for 8, 12, 16, 20, 32 and 64
bits: numbers around every one of them, on both sides, are among the inputs, and
what the code compares or cuts depends on their order only. Five bits of a port
have every shape of a range (`PortBits`); `BitwiseMatch` works bit by bit. Two
flows that differ in one field are what a deletion can confuse. Six characters
(`MaxChars`) nest parentheses twice around a comma. Five ports (`MaxPorts`) are
more than one window of `parseEach`; two passes (`MaxPasses`) are the fewest with
something to overwrite. Two bridges and a port are what a port can be on the wrong
one of; each option has a value that is set, one that is not, and one that turns
it off.

`CHECK_DEADLOCK FALSE` is set in every run but those of `MCCommands`: with the
bounds used up, or after a panic, or with nothing to do, the systems may stop.
That nothing stops too early is what the liveness properties check. In `commands`
some call is always possible, so deadlock is checked.

Fairness. `ClientFairness` is weak fairness of each goroutine: the Go scheduler
runs a goroutine that can go on, and a blocked one is not enabled in the model.
Close is fair once it is called; users are never obliged to call, cancel or
close. Mutexes and `select` need no strong fairness in these runs. What is
assumed of the server is said where it is needed: `FairSpec` assumes nothing,
`CanceledReturnsIfRead` and `EchoHandedOverUnlessStuck` that it reads
(`ReadingServer`), `RpcCompletes` that it answers too (`AnsweringServer`);
`echo_deadlock` and `close_leaks` run under `FairAnsweringSpec`, with the best server
there is. The liveness properties assume that the program has not panicked
(`notification_panics`). In `AddFlowBundle` each step of `AddFlowBundle` and of
`shellPipe` is fair but for the errors of the system, which never have to come, and so is
the command in its reads, in the writes it has begun and in its exit at the end
of input; it never has to fail or to begin a write, and the user's function may go
on for ever.

Every property of a passing run has a mutant: a plausible bug (an ID handed out
twice, a forgotten delete, an unchecked context, an error not handed on, a missing `--may-exist`) under which TLC
finds the property violated.

## 4. Proofs

For every value of the constants that satisfies `ConnAssumption`,
`ClientAssumption`, `BundleAssumption`, `PipeAssumption`, `CallsAssumption`,
`LimitsAssumption`, `FlowsAssumption`, `WidthAssumption`, `PortBitsAssumption`,
`BoundsAssumption`:

| Theorem | Statement |
|---|---|
| `TypeCorrect` | `OvsdbClient`'s types |
| `Inductive` | the inductive invariant `IInv` |
| `ReplyRouting` | `OwnReply`: what `rpc` returns is the answer to that very call |
| `SuccessIsAnswered` | `NoSilentSuccess` |
| `NoLeakedCallback` | `CallbackOwned` |
| `DispatchNeverBlocks` | `CallbackNeverBlocks` |
| `PanicFree` | `NoPanic`, if `MaxOdd = 0`: the server sends no message without an ID but echoes, and no null result |
| `ClosedAfterCancel` | `ClosedMeansCanceled` |
| `ServiceRefinement` | `ImplementsService`: the client implements `RpcService` |
| `BundleTypes`, `PipeTypes` | the types of the two parts of `AddFlowBundle`; no pipe holds more than it can |
| `AtomicBundle` | `AllOrNothing`, if `CommitIsLast` |
| `NoOutputLost` | `OutputComplete` |
| `ImplementsBundle`, `ImplementsPipe` | `AddFlowBundle` implements each of its parts by itself |
| `Types`, `AtomicOverPipe`, `OutputOverPipe` | hence the same of the composition |
| `Delivered` | `BundleDelivered`, if `CommitIsLast`: nil only if the command succeeded and has read all; behind an error it did not succeed, but where `shellPipe` gave up on it |
| `TightIsSafe` | `OwnArguments` holds as long as neither slice has room for two more words, for any number of goroutines |
| `VSwitchType` | the database stays well formed: no port outlives its bridge |
| `RetryIsSafe` | `RetrySafe` |
| `ReadsAreExact` | `ReadsExact` |
| `OptionsAreKept` | `OptionsKept` |
| `DataPathType` | the types of a datapath |
| `LimitsAreExact` | `LimitsExact` of every reply: exact if it is readable and has one default at most, an error if its default is no number |
| `LimitsAreReadBack` | `LimitsReadBack` |
| `FieldIsKept`, `FieldsAreKept` | `ValueKept` of every key and value: of the keys that are not `Renamed` and the values that `ovs-ofctl` prints (`Printed`); hence `FieldsKept` |
| `MatchIsReadBack`, `MatchesAreReadBack` | `MatchReadBack` of every match of the library (`Constructed`) that is not `Unread`; hence `MatchesReadBack` |
| `ActionIsReadBack`, `ActionsAreReadBack` | `ActionReadBack` of every action of the library but a learn with a load; hence `ActionsReadBack` |
| `ActionIsKept`, `ActionsAreKept` | `ActionKept` of every action's text; hence `ActionsKept` |
| `ListsAreCut`, `ActionsAreCut` | `CutExact` of every list of actions; hence `ActionsCut` |
| `CommandLimitsAreExact` | `CtLimitsExact` |
| `FlowsInvariant` | the inductive invariant `FlowsInv` of `OpenFlow` |
| `DumpsAreFaithful` | `DumpFaithful`, if every single flow is read back (`FlowReadBack`) |
| `DumpedAreDeleted` | `DeleteDumped`, if moreover the fields of every flow are its own (`OwnFields`) |
| `LibraryFlowIsReadBack` | `FlowReadBack` and `OwnFields` of every flow of the library (`LibraryFlow`), in every layout of a dump |
| `RangesAreCut`, `RangeIsExact` | `MaskedPorts` cuts every range of ports into aligned blocks, one after the other, and so selects each of its ports once and no other |
| `RangesAreExact` | hence `RangesExact` |
| `PortsAreExact`, `TablesAreExact`, `AggregatesAreExact` | `DumpPorts`, `DumpTables` and `DumpAggregate` return what was printed, in order, or an error |
| `DumpsAreExact` | hence `DumpsExact` |
| `TraceIsExact` | `ProtoTrace` returns the actions of all passes in order and the flows of the last one, or an error exactly where something is not understood, for any number of passes |
| `TracesAreExact` | hence `TracesExact` |
| `Components`, `ServicesAreSafe` | `MCCommands` implements `OpenFlowSpec`, `VSwitchSpec` and `DataPathSpec`; hence their theorems hold of it |
| `FlowsAreSafe`, `PlainFlowsAreSafe` | `DumpFaithful` and `DeleteDumped` of `MCCommands`, if its flows are flows of the library with one table; the plain flows of the run are |
| `CommandsType` | `MCCommands`' `TypeOK` |

The argument for the client. That `rpc` returns its own answer is not inductive:
it follows from where the answer was on its way. `RoutingInv` follows it. IDs of
calls in progress are distinct and not above `rpcID`; a request on the wire, or
read by the server, with the ID of a call in progress was sent by that call
(`WireOwner`); an answer in the inbox, in `listen`'s hands or in a response
channel has the ID of a request that the server has answered, or no owner
(`RepliesGenuine`, `ChanGenuine`); a callback belongs to the call with its ID
(`CallbackOwned`), and its channel is open and empty (`FreshChan`). The last is
why `doCallback` neither blocks nor panics. `ClosedEmptyCanceled` says that a
channel closed without an answer belongs to a call whose context is done, hence
`NoSilentSuccess`; it needs that a context stays done until its call has returned.
`EchoLoopIdle` ties the echo loop to its thread. `CancelBeforeClose` orders the
steps of Close, hence `ClosedMeansCanceled`. `PanicByOdd` says that a panic is
owed to an odd message. TLC has checked `IInv` on instances with noise, odd
messages, both faults and Close before it was proved.

For the bundle: until a flow is rejected the transaction holds what was asked for
(`Faithful`), and a commit finds no rejected flow (`CommitSound`); that the flows
do not change afterwards is what `CommitIsLast` is for. For `shellPipe`: what was
written was read or is in a pipe (`Conserved`), and `shellPipe` goes past a pipe
only when it is empty and the command has exited (`Drained`).

For the composition: a step of one part leaves the variables of the other alone, so
it implements both, and their theorems carry over. `Delivered` needs two facts on
top: a command that succeeded has read its whole input (`CommandSound`), which
holds also of one that `shellPipe` has given up, and
`AddFlowBundle` and `shellPipe` are at matching places with matching results
(`Linked`). For `SharedFlags`: while both slices are tight, every append of a
command makes an array of its own (`CallerOK`, `ArgsOK`), which no other goroutine
writes to. `dump_wrong_bridge` shows that the condition is needed.

For the refinement: each step of the client is a step of `RpcService` or a
stutter. Two facts of the invariant carry it. A call has its outcome exactly from
`Cleanup` on (`OutcomeWhenDone`), so that a call ends once; and by
`NoSilentSuccess` a success has been answered.

For `VSwitch`: a command that was applied left a database in which the same
command is accepted and changes nothing. This is the invariant (`CallsInv`), with
the types; it is proved command by command, and for `set` it says that writing
the same columns over themselves is the identity. `ReadsExact` needs that
`SetToSeq` of a finite set lists each member once. `OptionsKept` is an action
property of `Vsctl`: a command touches the columns it names, and `slice` names
none that the call left empty.

For `DataPath`: `GetCTLimits` ranges over a slice from which it removes a line. The
loop is a recursive function of the number of lines, and its values are guessed
rather than computed: before the default line every state is the first one, after
it every state is the one with the line removed (`Moved`). That the guess is right
takes an induction on the lines. It is done on a set (`Induction`: a set with 0
and every successor holds all numbers), because the provers cannot instantiate the
induction theorems of the library.

For the parsers and printers: the theorems are about the operators, for all
arguments, and not only about the inputs of a run. Each says what it asks for.
`IsValue` is a non-empty sequence of tokens. `Constructed` is a match of the
library's constructors, with numbers of the type of their arguments; an int above
the largest int32 is left out, which is printed and then rejected. `LibraryAction`
is an action of the constructors, without a negative port or table of `Resubmit`
(printed with a sign that the pattern of the parser does not take). `Dumped` is
an action's text with as many arguments as its word takes. The proofs follow the
code: one lemma for each parser with the printer that undoes it, and two lemmas
(`Parser`, `Printer`) for the dispatch. They need of the widths only their order
(`WidthAssumption`; `2 * U32 <= U64` so that every unsigned 32-bit number is an
int, and `7 < U8`, which the real widths meet, for the small numbers that the code
names). That the inputs which `MCCommands` enumerates are such inputs, for every
width and bound, is `InputInvariant`; with it the theorems become invariants of the
specification that TLC runs.

For `OpenFlow`: what a single flow goes through is a function of that flow, and
`FlowReadBack` says that it survives; what can go wrong with many of them is the
rest. A dump prints the flows in any order, with a second banner in between, and
`parseEachLine` stops at the first line that it does not understand; a deletion
compares fields that were printed by `MatchFlow` with fields that were printed by
`Flow`. The invariant `FlowsInv` says that the bridge holds texts of the caller's
flows within the bound (`BridgeOK`), that `dumped` holds what the lines of the last
dump are read as, place by place up to the first error (`DumpOK`), and that what
was removed is gone (`DeletedOK`). That `parseEachLine` keeps flow and line together
is `DumpRead`, with an invariant of its loop (`ReadSofar`); that the `MatchFlow` of a
dumped flow selects the text it was read from, and nothing that lacks a field of
it, is `DumpedIsSelected`. It needs `OwnFields`: the switch takes a field `cookie` of a
selection as a cookie with its mask, and of two fields `table` neither is the
flow's. `LibraryFlowIsReadBack` proves the two hypotheses of every flow of the
library; `flow_read_back` shows what becomes of flows without the first.

For a flow (`LibraryFlowIsReadBack`): `MarshalText` prints a flow as a list of
parts, each of which is there or not (priority, protocol, in_port, matches, table,
statistics, cookie, timeouts, actions), and `UnmarshalText` reads a list of words
without knowing which part they are of. The proof gives each word of the line its
place, follows the loop over the places with the flow read so far (one lemma for
each part: what its words leave of the state), and compares what has been read at
the end with the flow. What is read is then printed again, and by the theorems
about matches and actions that is the text it was read from. A `LibraryFlow` has
a protocol whose word is not one of the keys that `ovs-ofctl` prints itself
(`OwnKeysOfLine`), matches as `MatchIsReadBack` asks for and that `parseMatch`
neither renames nor skips, and actions as `ActionIsReadBack` asks for, with no
load in a learn.

For `PortRange`: `BitwiseMatch` takes the longest block of `Pow2[b]` ports, aligned
to its own size, that ends within the range. The test for that, `getRange(end, b).end
<= end`, is met exactly if the port behind the range is a multiple of `Pow2[b]`, and
then the block ends where the range ends. So nothing ever remains on the right (the
branch at `portrange.go:97` is never taken), and what remains on the left is a
shorter range. Its blocks lie in front of this one; they grow and then shrink, and so
there are at most `2 * PortBits` (`IsCut`). The recursion takes an induction on the end
of the range, by which the function that solves its equation is built.

For `Dumps`: the loop of `parseEach` reads groups of a fixed number of lines. Where
all ports have the layout that the guess is made for, the lines of the i-th port
are those of the i-th group, and what is read is what was printed. If custom
statistics stand behind some ports only, the first port without them shifts the
groups: the next group begins at a duration line, which is no port, or the output
ends inside a group, whose length cannot be a multiple of five. Both are errors, and
the ports in front of them are right. `UsedTables` and `UnmarshalFlowStats` drop
what they do not need; that the tables returned are those printed, in their order, is
said with an increasing map of places.

For `AppTrace`: a line changes what has been read so far and nothing else, so what a
text is read as from a given state (`Run`) is one result (`RunIsUnique`), and of two
texts one after the other it is what the second is read as after the first
(`RunOfTwo`). `PassRead` says what a pass is read as: both of its flows, its actions
behind those that were read before and a mark if another pass follows, or an error,
after which nothing is read (`RunFails`). It needs for each kind of line that no
other pattern takes it (`SkippedLineRead` for comments and rules). The passes are
put together by induction (`OnePassMore`), where the mark of a pass stands in front
of the actions of the next one. A flow is read field by field; that its matches are
those of its known fields, in order, is said with an increasing map of places
(`TraceFlowIsExact`), and that each keeps its value is `FieldIsKept`, but for
`in_port=LOCAL`, which is no number and is read as one.

Model-checked only: liveness (`CloseReturnsIfDecodes`, `CanceledReturnsIfRead`,
`RpcCompletes`, `EchoHandedOverUnlessStuck`, `BundleReturns`), which needs ENABLED. Every
invariant, action property and refinement that a passing run checks is a theorem, under
the hypotheses that the table gives.

## 5. Plan

What is left: the calls of section 6 that change no state of the library, and the
netlink client, should it come to keep state of its own.

## 6. Not modelled

- `ovsnl` and `ovsh`: one netlink request and the decoding of the kernel's
  structures; generated constants. No state but the socket, and its protocol is
  the netlink library's.
- `transact.go`: the JSON encoding of a select; the call is `Call` of
  `OvsdbClient`. `Dial` and the options of `ovsdb.New` run before any goroutine.
- `ModPort` of `OpenFlowService`: one command, and nothing is read. `Version` of
  `DataPathService` likewise.
- `GoString`, the wording of `FlowError` and `Error`, debug logs and the prefix of
  `sudo`: text for people.
- Code generation and helpers for tests.
