# Verification of transport-udp

TLA+ models of the UDP transport of this repository (`endpoint.go` and the code
it runs on), the TLC configurations that check them, and TLAPS proofs about
them. `PROJECT.json` maps every definition to the lines it translates.

## 1. The system

| Component | State | Operations | Talks to |
|---|---|---|---|
| Endpoint: outbound queue and back-pressure (`endpoint.go`) | linked queue `outHead..outTail`, `outboundBytes`, `writable`, watermarks | `Write`, `enqueue`, `dequeue`, `updateWritability`, `Close` | fires `ChannelWritabilityChanged`, `ChannelInactive` into the pipeline, synchronously |
| Endpoint on a readiness poller | `writeInterest`, the poller's interest, the batch reader's array | `HandleEvent`, `Flush`/`flushOutbound`, `Read`/`readReady` | `Poller.Modify`, batch I/O, pipeline |
| Endpoint on a completion poller | `readPending`, `writePending`, requests in flight | `Flush`/`submitWriteCompletion`, `Read`/`submitReadCompletion`, `handleCompletion` | `Poller.Submit`, completion events, pipeline |
| Batch I/O (`io_*batch*.go`) | reused descriptors; `messages` of the reader | `send`, `receive` | `sendmmsg`/`recvmmsg`, or one datagram at a time |
| Single system calls, sockaddr conversion (`io_linux.go`, `io_bsd.go`, `socket_*.go`) | none | `recvDatagram`, `sendDatagram`, conversions | kernel |
| Transport, Server, Dial (`server.go`, `client.go`) | endpoints of a server, `closed`, `once` | `Bind`, `Dial`, `Server.Close` | `EventLoop.Invoke/Register/Deregister` from other goroutines |
| Codec handlers (`codec.go`) | one message list per handler | decoder `ChannelRead`, encoder `Write` | pipeline, endpoint `Write` |
| Datagram and pool (`datagram.go`) | pooled envelopes | `acquire`, `Release` | codec, endpoint |
| Addresses, configuration (`address.go`, `config.go`) | none | parsing, formatting, cloning, defaults | all |

`EventLoop`, `Poller`, `LocalChannel`, `ByteBuf` and the allocators are in
another module (`gnalloy.org/gnalloy`); they are modelled from their use here.

**What is hard.** An endpoint has no locks: its loop is its only thread. But
every method calls the pipeline, and a handler may call `Write`, `Flush`,
`Read` or `Close` on the same endpoint before the interrupted method goes on,
to any depth. Methods keep state over those calls: `flushOutbound` the number
of datagrams still to dequeue, `readReady` an index into an array that the next
receive reuses, `Close` the rest of its work. On completion pollers requests
outlive the endpoint. And `Server.Close` and `Dial` may close an endpoint from
another goroutine. The list of hazards, each at its line, is in `PROJECT.json`.

**What makes each part correct.** Queue: datagrams are given to the socket in
order, at most once, and dropped only by `Close`; payloads are released exactly
once; back-pressure follows the watermarks and is released. Reading: payloads
are delivered in order, once, or released. Completion: flags mirror requests.
Close: once, complete, in order, and nothing happens on the socket after it.
Lifecycle: no socket or allocator survives a failed `Bind`/`Dial` or
`Server.Close`. Codec: each message has one holder and is released exactly once;
envelopes are not shared and addresses outlive them. Addresses: a reply returns
to where its datagram came from, a dialed address is the one reached.

## 2. Modules

```
DatagramChannel           what an endpoint promises for outbound datagrams
   ^ refined by
EndpointCore              queue, watermarks, Write, Close, the loop's stack
   ^ extended by
ReadinessEndpoint   CompletionEndpoint
   ^                   ^
MCReadiness         MCCompletion          fairness, liveness, TLC instances
ReadinessProofs     CompletionProofs      types, back-pressure, Close, inbound, flags
   ^ extended by       ^                    (both extend EndpointCoreProofs)
ReadinessChannelProofs CompletionChannelProofs
                                          the queue, ownership, refinement

Lifecycle                 Bind, Server.Close, Dial; several goroutines and loops
   ^ extended by
MCLifecycle  LifecycleProofs

Codec                     decoder, encoder and datagram pool, between endpoint and handler
   ^ extended by
MCCodec  CodecProofs

Addressing                texts, addresses and sockaddrs on their way through the program
   ^ extended by
MCAddressing  AddressingProofs
```

**The loop's stack.** Callbacks are the point of this code, so the models keep
the call stack of the event loop in the variable `stack`. Its head is what runs
now. A `cb` frame is a handler: while it is on top, the operations `Write`,
`Flush`, `Read`, `Close` may happen, and `HandlerReturn` pops it. Every other
frame is the rest of a method: `[op |-> "flush", left |-> 2, ...]` is
`flushOutbound` with two calls of `dequeue` to go. An empty stack is the loop
between two tasks, when tasks may call the operations and the poller may report
events. A method is cut into actions exactly at its callbacks; between two
callbacks the code cannot be interrupted and is one action.

| Code | Model |
|---|---|
| `Write` (120), `enqueue` (417) | `Write` = `CoreWrite`, `Enqueue` |
| `dequeue` (432), `updateWritability` (477), `closeWritability` (494) | `Dequeue`, `UpdateWritability`, `NextWritable` |
| `Close` (178): CAS and `closeWritability`; then `releaseOutbound`, `closeFD`, `alloc.Close`, `fireInactiveOnce` | `CloseCall`, then one `CloseStep` per dequeued datagram and one for the rest; `DoClose` is the call after `fireException` |
| `flushOutbound` (372) | `FlushSend`, `FlushDequeue` (repeated), `FlushBlocked` (`enableWriteInterest`), `FlushDone` (`disableWriteInterest`, `FlushComplete`) |
| `sendDatagramBatch`, `send` | `SystemSends` (sendmmsg), `FallbackSends`: the set of outcomes |
| `readReady` (194), `receiveInbound` (231) | `ReadReceive`, `ReadFire`, `ReadDiscard`, `ReadBatchDone`, `ReadExit` |
| `receive`, `receiveSingleDatagram` | `SystemReceives`, `FallbackReceives`; `Unpack` is what the array holds afterwards |
| `HandleEvent` (87), readiness | `HandleReady` (read part and write part pushed together), `HandleError`, `HandleHangup` |
| `submitReadCompletion` (325), `submitWriteCompletion` (349) | `SubmitRead`, `SubmitWrite` |
| `handleReadCompletion` (266) | `HandleReadCompletion`, `Rearm` |
| `handleWriteCompletion` (302) | `HandleWriteCompletion`, `WrittenDequeue`, `WrittenNext` |
| registration closure of `Bind`/`Dial` | `Init` (registered, `ChannelActive` running) and `Arm` (first read) |

**Lifecycle.** `Lifecycle` looks at an endpoint from outside: one goroutine in
`Bind` or `Dial` (`setup`), any number that call `Server.Close` (`callers`), the
body of its `sync.Once` (`closeLoop`), and a loop per endpoint (`run`, `tasks`).

| Code | Model |
|---|---|
| `listenAll` (server.go:101) | `Listen`, a socket at a time |
| `Bind`'s loop over sockets (55), `Dial` (client.go:34) | `StartEndpoint`, `NextFails`, `Registered`, `RegistrationAbandoned` |
| registration closure (server.go:71, client.go:48) | `CheckServer`, `AcquireAllocator`, `Initialize`, `RegisterEndpoint`, `Activated`; `RegistrationFails` is any of its error returns |
| clean-up of a failed `Bind`, `Dial` | `Server.Close`; `DialFails` |
| `Server.Close` (145) | `CallClose`, `OnceEnter`, per endpoint `CloseEndpoint` then `CloseInvoked`, or `CloseAbandoned` and `CloseSelfDone`; `OnceLeave`, `CloseReturn` |
| its task on the loop (155) | `Deregister`, `CloseTaskDone` |
| `endpoint.Close` | `EpClose` (the compare-and-swap) and three steps `CloseBody`, by whoever won it |
| `endpoint.Write` on the loop | `WriteChecks`, `WriteEnqueues` |

The fields that two goroutines touch (`alloc`, the queue) are not synchronised
in the code; the model gives each access one step and lets the steps interleave,
it does not model torn values or a broken list. `Invoke` is external: a task
whose `Invoke` gave up may run later, or be dropped if it has not started.

**Codec.** The decoder, the encoder and the handler behind them run on one
loop, and the handler may write, release, close, or be given another message
while a codec is in the middle of its list. `stack` is again the call stack:
`read` and `write` frames carry the message a codec was called with, `decode`
and `encode` frames the index reached in its list, `handler` frames the
application. `out` holds the two lists, one per codec however often it is on the
stack. An item is a reference to a buffer or typed message; `releases` counts
what was done to it. An envelope is a pooled `Datagram`; `alias` says whose
envelope's `ip` array an address still uses.

| Code | Model |
|---|---|
| `endpoint.fireChannelRead` (294), `acquire` | `FireChannelRead` |
| decoder `ChannelRead` (codec.go:34) | `PassDatagram`, `DecodeFails`, or `Decode`, `DecodeNext` per message, `DecodeDone` |
| encoder `Write` (105) | `PassMessage`, `ForwardPayload`, `EncodeFails`, or `Encode`, `EncodeNext` per payload, `EncodeDone` |
| `endpoint.Write`, with the callback it may fire | `Refuse`, `Enqueue` |
| `dequeue`, `Close` | `Dequeue`, `Close` |
| `Datagram.Release`, `Addressed.Release` | `ReleaseItems`, `PutEnvelopes` |

**Addressing.** One datagram is followed from a text (`Listen`, `Dial`) to a
bound socket, a received source, the address the application sees and the
sockaddr of its reply. `path` is the pair of conversions in use: `raw` (Linux),
`unix`, `windows`, `completion`. An IP is a host and the form of its slice; a
sockaddr is a record of its fields; the two bytes of a port are swapped or not,
as the code and the processor do (`Swap`, `KernelPort`, `PortField`). The kernel
is external: it binds, refuses a link-local address without scope, picks a port
for port 0, and delivers from the socket's family (`Arrivals`). `Listen` is
`listenAll` for 1 to `MaxWorkers` workers; whether `getsockname` succeeds is its
parameter `known`, kept in `named`: if not, `socketName` falls back on the text.

**Abstractions.** Datagrams are numbered in the order of the `Write` calls; a
datagram has a size and a flag `addrOK`, false for an address that
`Datagram.Valid` accepts and the sockaddr conversion does not (an IP slice of a
wrong length; `Addressing` leaves those out). Payload ownership is a count of the references the endpoint
answers for (`refs`); received payloads are numbered by arrival. The linked
list with its free list is a sequence. Watermarks are those that
`NormalizeWriteBufferWatermark` (external) returns, assumed to satisfy
`Low < High`. A payload keeps its readable size while it is queued. `AutoRead` and the platform
are fixed per behaviour; the platforms are `linux`, `other` (one datagram at
a time both ways) and `linuxSingle` (linux/386, linux/s390x: `sendmmsg`, but a
one-by-one `recvfrom`). When the first read of `Bind`/`Dial` is refused
(`armFailed`), the close that follows is one of the `Close` steps a task may take.

**Seeded defects.** An operator introduced by "Seeded defect" is not part of
the model: it is the changed form of the operator after it, kept to show that a
property fails when the code is wrong in that way.

## 3. Runs

| Run | Question | Instance |
|---|---|---|
| `readiness_outbound` | Does the Linux endpoint implement `DatagramChannel`, with exact payload ownership? | 4 writes, sizes {1,2}, batch 2, failures and bad addresses, stack depth 4 |
| `readiness_reentrant` | Do back-pressure, accounting and `Close` survive every nesting of calls, also `Flush` in the dequeue loop and `Read` in batch delivery? | 3 writes (a handler can cross the high mark a second time), 3 arrivals (one more than a receive batch), depth 4, failures |
| `readiness_inbound` | Ordered delivery without leaks, batched and one by one, AutoRead on and off | all three platforms, 4 arrivals, batch 2, limit 3, failures |
| `readiness_drain` | Is a blocked flush finished, is back-pressure released? Do all writers implement `DatagramChannel`? | all three platforms, 4 writes, no failing send, fair |
| `completion` | Flags, buffers, re-arming and refinement on a completion poller; does one `Flush` drain the queue? | 3 writes, 2 reads, depth 4, failures, fair |
| `lifecycle` | Is everything released when `Close` returns to anyone, or `Bind` or `Dial` fails? What remains true when loops hang and contexts end? Do `Bind`, `Dial` and `Close` return? | `Dial`; `Bind` of 2 sockets; 2 callers, a write, failures, timeouts, fair goroutines |
| `codec` | Who owns each message, and whose storage its address uses, on every path through the codecs, nested ones included? | 4 items, at most 2 per call, 2 envelopes, a peer and an invalid address, depth 3; client and server, pooled or not |
| `addressing` | Do conversions lead back to the same peer, on every path and byte order? | 3 hosts, ports 0, 255, 9000 and one too large, 4 scopes, zones that exist or not, 1 to 3 sockets whose name is told or not |
| `reentrant_flush`, `bind_partial`, `codec_release`, `port_byte_order` | the disagreements of section 5 | expected violations |

**Bounds.** `MaxWrites`, `MaxArrivals`, `MaxReads` bound the operations,
`MaxDepth` the stack on which operations may still push. `Low = 1`, `High = 3`
with sizes 1 and 2 reach both marks exactly and jump over them. A batch of 2
with 3 or 4 datagrams gives full, short and several batches; a read limit of 3
ends in the single-datagram path (a limit of 1 uses `receiveSingleDatagram`).
Depth 4 allows a handler inside a handler inside an interrupted method. Two
sockets are the least with an endpoint before and after the failing one; two
callers the least where one waits for the other. In `codec` an item for the
datagram, two for what is decoded from it and one more let a handler enter a
codec that is in the middle of its list; two envelopes are the least that could
be confused; a list that is still in use when a nested call has filled another
one needs 5 items, which takes too long for a run, and is left to the theorems.
In `addressing`, port 9000 has two different bytes and 255 a zero
byte; `ScopeHalf = 2` stands for 2^31 and gives scopes on both sides of the sign
bit of an int; three sockets have two that follow the first. `lifecycle`, `codec` and `addressing` do not check deadlock: the
program stops there when everything is closed, made or answered.

**Assumptions on handlers.** `readiness_outbound` has `ReentrantFlush = FALSE`:
no handler calls `Flush` while `flushOutbound` is dequeuing a sent batch;
`readiness_inbound` has `ReentrantRead = FALSE`: no handler calls `Read` while
a batch is being delivered. The code does not enforce either; section 5 shows
what happens without them, and `readiness_reentrant` what still holds.
`NothingLostUnlessOverlapped` likewise speaks of the behaviours in which no
codec is entered while it hands on its list; the other properties of `codec`
hold in all.
`readiness_drain` excludes failing sends, since on the one-by-one writer a failure
in the middle of a batch breaks `DatagramChannel` (section 5).

**Fairness** (in the MC modules). Methods run on (`WF` of `MethodStep`);
handlers return at every depth, since application code does (`SF`, because a
handler may be interrupted by what it calls); the loop keeps polling and a
level-triggered poller keeps reporting a writable socket (`SF` of a write-ready
event); a socket that is offered datagrams again and again takes one in the end
(`SF` of a send that makes progress). For completions: the poller completes the
requests it accepted. No application call is assumed to happen. In
`lifecycle` only the application's goroutines are fair, among them the end
of their contexts (`closeControlTimeout`; a context without deadline is not an
instance); the loops are not. `CloseIsComplete` is about each endpoint whose loop
answered `Server.Close`, `Bind` or `Dial` in time; it excepts the registration,
and a late datagram, of an endpoint whose `Dial` failed after registration.

## 4. Proofs

Every invariant and every action property that a passing run checks, and the
refinement of `DatagramChannel`, is a theorem for all values of the constants
that satisfy the `ASSUME`s of the modules (`WatermarkAssumption`,
`WriteAssumption`, `BatchAssumption`, `ModeAssumption`, `CompletionAssumption`,
`LifecycleAssumption`, `CodecAssumption`, `AddressingAssumption`): any number of
datagrams, sizes, batches, sockets, workers, callers, items and envelopes, any depth
of reentrancy, with failures. The exceptions are named in the statements.

| Module | Theorems (property) |
|---|---|
| `ReadinessProofs` | `TypeCorrect`, `WatermarksRespected` (`WatermarkHysteresis`), `CloseReleasesFirst` (`ReleasedBeforeClosed`), `ClosedMeansNoIO` (`NoIOAfterClose`), `InactiveIsLast` (`NoReadAfterInactive`); without `ReentrantRead`: `DeliveriesInOrder` (`DeliveredInOrder`), `BuffersStayReachable` (`BuffersReachable`) |
| `ReadinessChannelProofs` | `BytesNeverDrift` (`BytesMatchQueue`), `PayloadsReleasedOnce` (`PayloadOwnedWhileQueued`), `CloseCompletes` (`ClosedIsFinal`); without `ReentrantFlush` and with `NoPartialFailure`: `ReadinessImplementsChannel` (`ImplementsChannel`) |
| `CompletionProofs` | `TypeCorrect`, `FlagsMirrorRequests` (`RequestsMatchFlags`), `WatermarksRespected` |
| `CompletionChannelProofs` | `BytesNeverDrift`, `CloseCompletes`, `ReferencesAccounted` (`BuffersAccounted`), `ReadStaysArmed` (`ReadArmed`), `CompletionImplementsChannel` (`ImplementsChannel`) |
| `LifecycleProofs` | `TypeCorrect`, `NoDoubleClose` (`FdClosedOnce`), `CloseClosesAll` (`NoneLeftOpen`), `CloseReleasesAll` (`CloseIsComplete`) |
| `CodecProofs` | `TypeCorrect`, `EveryItemHasOneHolder` (`OneHolder`), `SecondReleaseOnlyIfRefused` (`ReleasedTwiceIfRefused`), `NothingIsLost` (`NothingLostUnlessOverlapped`), `EnvelopesNeverShared` (`EnvelopesExclusive`), `AddressesSurviveReuse` (`AddressKept`) |
| `AddressingProofs` | `TypeCorrect`, `RepliesReturn` (`ReplyReturns`), `PortsAgree` (`PortIsPeersUnlessSwapped`), `DialsReach` (`DialReaches`), `PrintedParses` (`PrintedAddressParses`), `WorkersAgree` (`WorkersShareAddress`) |

**Close and back-pressure.** `CoreInv` adds `closed => ~writable` and
`ReleasedBeforeClosed` to the types and to `WatermarkHysteresis`. The hysteresis
alone is not inductive over `Close` (which forgets the bytes), and
`ReleasedBeforeClosed` is not inductive without knowing that the second half of
`Close` only runs on a closed endpoint. That is a fact about the stack, so the
type invariant says it: as long as the endpoint is open no `CloseFrame` is on
the stack (`OpenFrame`). `EndpointCoreProofs` shows that each shared operation
keeps `CoreInv` and pushes only frames of any set `F` that contains the plain
frames; the two endpoint modules instantiate `F` by the frames of an open and of
a closed endpoint. `ClosedMeansNoIO` and `InactiveIsLast` follow from
`ReleasedBeforeClosed`: a send needs a queued datagram, a receive and a delivery
look at `closed`. For `CloseCompletes`, `ClosingInv` says where the rest of a
`Close` is while it is not finished: in a `CloseFrame` that only handlers and
other parts of `Close` interrupt.

**The queue.** `BytesSum` says what `outboundBytes` is by the partial sums of the
sizes, a function from positions, since a fold cannot be unfolded by the
provers; that the partial sums of a queue, of its tail and of what is appended
agree is an induction over positions, done by the least counterexample
(`WFMin`). `QueueOrdered` says that the datagrams are numbered upwards, hence
distinct, which is what makes one reference per queued payload possible.

**The refinement.** `pending` is `Unsent`, what is queued and not on the wire.
`SentInv` says that this is the queue without its first `k` datagrams, where `k`
is what the one `flushOutbound` with datagrams to dequeue has left (`Batch`), and
that all of it is younger than the wire. Then a send is a `Transmit`, a `dequeue`
of a sent datagram stutters, and one in `Close` is a stutter or a `Discard`; the
`closed` flag needs no batch any more. Two assumptions are needed, for the two
behaviours of section 5 that break the promise: `ReentrantFlush = FALSE`, since a
second batch would be dequeued twice; and `NoPartialFailure`, since the one-by-one
writer (platform `other`) that fails after a part of a batch leaves the part
queued. On completion pollers, where one datagram is in flight and no handler
runs between its completion and its `dequeue`, nothing is assumed.

**Completion.** `FlagsMirrorRequests` needs the point between a write completion
and its `dequeue`, where the flag is already cleared and the head is still the
finished datagram: `StackInv` says that the frame of that point is alone on the
stack, so no handler can submit in between. `ReferencesAccounted` adds to the
queue the requests in flight, also those that outlive `Close`.

**Reading.** `InboundInv`: numbers of delivered datagrams, of those in the slots
and of those in the socket increase, in this order (`DeliveryOrder`, `Waiting`,
`SocketOrder`), and of the `readReady`s on the stack at most one, the topmost,
has messages left. Either it answers for exactly the full slots `i .. n`
(`Window`), or it holds the single datagram of `receiveSingleDatagram`, or no
payload is held. `BuffersReachable` alone is not inductive: it does not say which
slots are full. A `Read` from a handler of that `readReady` overwrites the array
(section 5), which `ReentrantRead = FALSE` excludes, as in `readiness_inbound`.

**Lifecycle.** `FdClosedOnce` needs `SocketInv`, which ties a closed descriptor to
the stage of `Close` that closes it, or to clean-up code that runs when no
endpoint exists; so `Close` must not start on an endpoint that was not created
(`LoopInv`). `NoneLeftOpen` needs `CloserInv`: the body of `Server.Close` goes on
from an endpoint only when it is closed, because its task is still awaited, or
has called `Close`, or the caller has. For `CloseIsComplete`, `CloseInv` says per
endpoint which tasks its loop may still hold and where each runs (`TaskInv`), that
what `Close` clears stays cleared unless another goroutine executes it beside the
loop (`BodyInv`, which allows that exactly after a timeout and in a failed `Dial`;
without a timeout only a datagram can come too late, never an allocator),
and that the endpoints the body of `Server.Close` has passed are done or have timed
out (`ServerInv`).

**Codec.** An item is with the application, in the queue, in a `read` or `write`
frame, or in the part of a codec's list that its innermost frame has not handed
on. `SplitInv`: these places are disjoint and none has an item twice. `Ledger`
compares them with the counts of releases. The lists are the difficulty: a codec
that is entered again resets the list of the frame below it, so only the innermost
frame of each codec answers for items (`WaitingIn`), and the items of the frame
below are those that `NothingLostUnlessOverlapped` excepts. `EnvelopeInv` says
that the envelopes of live messages are distinct and not in the pool, and that
an address that still uses an envelope's array is that envelope's.

**Addressing.** The invariant (`ReplyInv`) says of each phase how its values were
made (`inbound = FromSockaddr(source)`, `sent = ToSockaddr(inbound)`); the lemmas
compute the composition, `SwapSwap` for the bytes of a port and
`ZoneThereAndBack` for scopes and their texts. It needs that a socket's family
decides what it receives, which is where `V6Only` enters. `DialOK` adds, for a
client, that its remote address was read from the text and its socket is of the
address's family. `DialReaches` is stated by what the text means (`Meant`,
`ZoneExists`) and not by the functions that read it. `PlaceInv` is the types and
`WorkersShareAddress`: a socket bound to the name of another (`SocketOfName`)
differs from it in the scope only, one bound to the fallback (`SocketOfText`) in
the port only, and only for port 0; both hold for every later worker alike.

**Only model-checked:** liveness, that is `BlockedFlushDrains`,
`BackpressureReleased`, `SubmittedFlushDrains`, `CloseReturns` and `SetupReturns`
(fairness and `ENABLED` are beyond the prover); and the four expected violations.
`DeliveredInOrder`, `BuffersReachable` and, on readiness pollers,
`ImplementsChannel` hold under the assumptions above only; what happens without
them is shown by TLC.

## 5. Disagreements with the documents

* `reentrant_flush`: `Write` takes ownership and `Flush` submits
  (`docs/usage.md:26`), but a `Flush` from `ChannelWritabilityChanged` during
  the dequeue loop (`endpoint.go:380`) makes that loop dequeue datagrams that
  were never sent.
* `bind_partial`: failures are to be handled and what is owned closed
  (`docs/usage.md:46`), but a `Bind` with `ReusePort` that fails for an endpoint
  leaves the sockets after it open (`server.go:67` and 94).
* `codec_release`: `Write` transfers ownership (`docs/usage.md:26`), and
  `endpoint.Write` releases a message it refuses (`endpoint.go:123`, 127); the
  encoder then releases the payload once more (`codec.go:120`, 142). The tests of
  the encoder use a sink that does not release.
* `port_byte_order`: `hostToNetwork16` (`io_linux.go:139`) swaps the bytes of a
  port on every processor. On a big-endian Linux datagrams go to another port,
  against `TestRawDatagramIPv4RoundTrip` (`io_linux_test.go:16`). Two swaps
  cancel, so replies still return (`ReplyReturns`); the port that is shown, and
  one that was dialed, are wrong.

More behaviours of the models that no listed run shows; each can be seen by
checking the property named, in the instance described:

* The one-by-one writer, after a failure in the middle of a batch
  (`io_batch_fallback.go:17`, `endpoint.go:377`): what was sent stays queued and
  is sent again (`WireInOrder`, platform `other`, failing sends).
* A `Dial` whose context ends before the registration closure stored its
  allocator leaks the allocator (`client.go:74`; `FailedDialHoldsNothing`,
  `Timeouts = TRUE`). `Bind` has the guard of `newAllocator`, which narrows the
  same window but does not close it.
* `Dial`'s clean-up after a failed first read (`client.go:74`) closes an active
  endpoint off its loop, and a `Write` between its check and its `enqueue`
  (`endpoint.go:126`, 130) leaks its payload: `FailedDialHoldsNothing` also fails
  with `Completion = TRUE`, `MaxWrites = 1` and no timeout. `Server.Close` after
  a timeout has the same race.
* With `ReentrantRead = TRUE` a `Read` from `ChannelRead` reuses the array that
  the interrupted `readReady` is iterating over (`endpoint.go:206`), although the
  payloads of `receive` belong to its caller (`io_receive_batch_linux.go:23`):
  payloads leak and `BuffersReachable` fails.
* A handler that makes a codec run again while it hands on its list (a `Write`
  from `ChannelWritabilityChanged`, a nested `ChannelRead`) makes it forget the
  rest of the list (`codec.go:49`, 125): `NothingLost` fails in `codec.cfg`.
* With `ReusePort` a link-local IPv6 address cannot be bound for more than one
  worker: `socketName` drops the zone (`socket_unix.go:105`), and the second
  `bind` has no scope (phase `workerFailed`; `WorkersShareAddress` says that this
  is the only such case).
* With `ReusePort`, port 0 and a `getsockname` that fails, `socketName` returns
  the text (`socket_unix.go:99`), and the kernel picks a port for each worker:
  `WorkersShareAddress` fails without its condition `named \/ text.port # 0`.
* A zone out of range, or the name of no interface, becomes scope 0 and no error
  (`address.go:102`), in `Dial` as in `Bind`. Nothing in the repository says
  what it should become; `DialReaches` fails without its condition `ZoneExists`.

## 6. Plan

Done: the endpoint on both kinds of pollers, the lifecycle, the codecs with the
pool, addresses; the theorems of section 4. Next, in this order:

1. *Proofs about what is excepted*: on readiness pollers, what remains of the
   order on the wire and of the slots when handlers do call `Flush` and `Read`
   inside a batch, instead of the assumptions `ReentrantFlush = FALSE` and
   `ReentrantRead = FALSE`.
2. *OutboundList*: the linked queue with free list refines the sequence.

## 7. Not modelled

The system calls inside `listenUDP` and their order, socket options other than
`IPV6_V6ONLY` (`ReuseAddr = false` is turned into true by `normalizeConfig`,
`config.go:32`, so it is no choice), Windows start-up, error values and the
layout of a sockaddr beyond the order of a port's bytes. Configuration: defaults
applied once, without state; `Low < High` comes from
`NormalizeWriteBufferWatermark` of another module. `SetAutoRead` at run time:
the option is a field of the channel, which is external, and the endpoint is not
told when it changes; the models fix it per behaviour. `Server.Close` called on
a loop it waits for: what `Invoke` does there is not part of this repository.
`MessageList` is assumed to forget its items on `Reset` and to release them
first on `ReleaseAll`. Interfaces whose name is a number are not an instance of
`Addressing` (`zoneID` reads such a name as an index, `address.go:96`).
