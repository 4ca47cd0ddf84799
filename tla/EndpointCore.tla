---------------------------- MODULE EndpointCore ----------------------------
(***************************************************************************)
(* The part of endpoint (endpoint.go) that both poller models share: the   *)
(* outbound queue, the write-buffer watermarks, Write, and Close.          *)
(*                                                                         *)
(* An endpoint runs on one event loop. Its methods call the channel        *)
(* pipeline synchronously (FireChannelRead, FireChannelWritabilityChanged, *)
(* ...), and a handler that runs in such a callback may call Write, Flush, *)
(* Read or Close on the same endpoint before the interrupted method goes   *)
(* on. `stack' is the loop's call stack: its head is the running frame, a  *)
(* "cb" frame is a handler, every other frame is the rest of a method that *)
(* a callback interrupted. An empty stack is the loop between two tasks.   *)
(***************************************************************************)
EXTENDS Integers, Sequences, SequencesExt

CONSTANTS
  Low, High,     \* normalised write-buffer watermark
  Sizes,         \* readable bytes a written payload may have
  AddrKinds,     \* FALSE: Datagram.Valid accepts the address, sockaddr conversion does not
  MaxWrites,     \* bound: calls of Write
  MaxDepth       \* bound: frames on the loop's stack

ASSUME WatermarkAssumption == Low \in Nat /\ High \in Nat /\ Low < High
ASSUME WriteAssumption ==
  /\ Sizes \subseteq Nat
  /\ AddrKinds \subseteq BOOLEAN
  /\ MaxWrites \in Nat
  /\ MaxDepth \in Nat

VARIABLES
  queue,          \* outHead .. outTail
  outboundBytes,
  writable,
  closed,
  fdOpen,         \* the socket has not been closed
  allocOpen,      \* the allocator has not been closed
  inactiveFired,
  refs,           \* references to each payload that the endpoint answers for
  lastId,         \* number of the latest datagram given to Write
  wire,           \* history: datagrams the kernel took while the endpoint was open
  stack

queueVars == <<queue, outboundBytes, writable, refs>>
closeVars == <<closed, fdOpen, allocOpen, inactiveFired>>
coreVars  == <<queueVars, closeVars, lastId, wire, stack>>

Ids == 1 .. MaxWrites
Datagram == [id : Ids, size : Sizes, addrOK : AddrKinds]

-----------------------------------------------------------------------------
(* Frames of the loop's stack.                                             *)

CbKinds == {"active", "read", "readComplete", "writability", "flushComplete",
            "exception", "inactive"}

Cb(kind)     == [op |-> "cb", kind |-> kind]
CloseFrame   == [op |-> "close"]       \* Close, past closeWritability
DoCloseFrame == [op |-> "doClose"]     \* a caller about to call Close

CoreFrame == {Cb(kind) : kind \in CbKinds} \cup {CloseFrame, DoCloseFrame}

Running(op) == stack # <<>> /\ Head(stack).op = op

(* Code outside the endpoint runs: a task of the loop or a handler.        *)
CanCall == stack = <<>> \/ Running("cb")

-----------------------------------------------------------------------------
(* fireException(err) followed by Close, as every error path does.         *)
FailAndClose(rest) == <<Cb("exception"), DoCloseFrame>> \o rest

(* Seeded defects of updateWritability: the high watermark compared with > *)
(* instead of >=, and an endpoint that never turns writable again.         *)
NextWritableOffByOne(bytes) == ~closed /\ (IF writable THEN bytes <= High ELSE bytes <= Low)
NextWritableSticky(bytes)   == ~closed /\ writable /\ bytes < High

(* updateWritability's decision, closeWritability when closed. *)
NextWritable(bytes) == ~closed /\ (IF writable THEN bytes < High ELSE bytes <= Low)

UpdateWritability(bytes, rest) ==
  /\ outboundBytes' = bytes
  /\ writable' = NextWritable(bytes)
  /\ stack' = IF writable' # writable THEN <<Cb("writability")>> \o rest ELSE rest

(* Seeded defect: the branch of enqueue for an empty queue forgets to      *)
(* count the datagram.                                                     *)
EnqueueFirstUncounted(d) ==
  /\ queue' = Append(queue, d)
  /\ UpdateWritability(IF queue = <<>> THEN outboundBytes ELSE outboundBytes + d.size, stack)

Enqueue(d) ==
  /\ queue' = Append(queue, d)
  /\ UpdateWritability(outboundBytes + d.size, stack)

(* Seeded defects of dequeue: the payload is not released; its size is     *)
(* taken off twice and the clamp is missing.                               *)
DequeueKeepingPayload(rest) ==
  IF queue = <<>>
  THEN stack' = rest /\ UNCHANGED queueVars
  ELSE /\ queue' = Tail(queue)
       /\ UpdateWritability(outboundBytes - Head(queue).size, rest)
       /\ UNCHANGED refs

DequeueCountingTwice(rest) ==
  IF queue = <<>>
  THEN stack' = rest /\ UNCHANGED queueVars
  ELSE /\ queue' = Tail(queue)
       /\ refs' = [refs EXCEPT ![Head(queue).id] = @ - 1]
       /\ UpdateWritability(outboundBytes - 2 * Head(queue).size, rest)

(* dequeue: release the head, then updateWritability; nothing when empty.  *)
Dequeue(rest) ==
  IF queue = <<>>
  THEN stack' = rest /\ UNCHANGED queueVars
  ELSE LET pending == outboundBytes - Head(queue).size
       IN  /\ queue' = Tail(queue)
           /\ refs' = [refs EXCEPT ![Head(queue).id] = @ - 1]
           /\ UpdateWritability(IF pending < 0 THEN 0 ELSE pending, rest)

(* Write takes over one reference to the payload. A message that is not a  *)
(* valid datagram, or any message once closed, is released and refused.    *)
CoreWrite(size, addrOK, valid) ==
  /\ CanCall
  /\ lastId < MaxWrites
  /\ lastId' = lastId + 1
  /\ IF valid /\ ~closed
     THEN /\ Enqueue([id |-> lastId + 1, size |-> size, addrOK |-> addrOK])
          /\ refs' = [refs EXCEPT ![lastId + 1] = @ + 1]
     ELSE UNCHANGED <<queueVars, stack>>
  /\ UNCHANGED <<closeVars, wire>>

(* Close up to its first callback: the swap of closed, closeWritability.   *)
CloseCall(rest) ==
  /\ closed' = TRUE
  /\ writable' = IF closed THEN writable ELSE FALSE
  /\ stack' = CASE closed               -> rest
                [] ~closed /\ writable  -> <<Cb("writability"), CloseFrame>> \o rest
                [] ~closed /\ ~writable -> <<CloseFrame>> \o rest
  /\ UNCHANGED <<queue, outboundBytes, refs, fdOpen, allocOpen, inactiveFired, lastId, wire>>

(* Seeded defect: Close without releaseOutbound. *)
CloseStepKeepingQueue ==
  /\ Running("close")
  /\ fdOpen' = FALSE
  /\ allocOpen' = FALSE
  /\ inactiveFired' = TRUE
  /\ stack' = (IF inactiveFired THEN <<>> ELSE <<Cb("inactive")>>) \o Tail(stack)
  /\ UNCHANGED <<queueVars, closed, lastId, wire>>

(* Seeded defect: ChannelInactive before closeFD and alloc.Close. *)
CloseStepInactiveFirst ==
  /\ Running("close")
  /\ IF queue # <<>> \/ inactiveFired
     THEN /\ IF queue # <<>> THEN Dequeue(stack) ELSE stack' = Tail(stack) /\ UNCHANGED queueVars
          /\ fdOpen' = (fdOpen /\ queue # <<>>)
          /\ allocOpen' = (allocOpen /\ queue # <<>>)
          /\ UNCHANGED inactiveFired
     ELSE /\ inactiveFired' = TRUE
          /\ stack' = <<Cb("inactive")>> \o stack
          /\ UNCHANGED <<queueVars, fdOpen, allocOpen>>
  /\ UNCHANGED <<closed, lastId, wire>>

(* The rest of Close: releaseOutbound; then closeFD, alloc.Close and       *)
(* fireInactiveOnce, whose callback is the first since the queue was empty.*)
CloseStep ==
  /\ Running("close")
  /\ IF queue # <<>>
     THEN /\ Dequeue(stack)
          /\ UNCHANGED <<fdOpen, allocOpen, inactiveFired>>
     ELSE /\ fdOpen' = FALSE
          /\ allocOpen' = FALSE
          /\ inactiveFired' = TRUE
          /\ stack' = (IF inactiveFired THEN <<>> ELSE <<Cb("inactive")>>) \o Tail(stack)
          /\ UNCHANGED queueVars
  /\ UNCHANGED <<closed, lastId, wire>>

CoreClose == CanCall /\ Len(stack) < MaxDepth /\ CloseCall(stack)

DoClose == Running("doClose") /\ CloseCall(Tail(stack))

(* The handler returns to the method that fired it. *)
CbReturn ==
  /\ Running("cb")
  /\ stack' = Tail(stack)
  /\ UNCHANGED <<queueVars, closeVars, lastId, wire>>

(* The endpoint in the registration closure of Bind or Dial: registered,   *)
(* FireChannelActive running. `rest' is what the closure still has to do.  *)
CoreInit(rest) ==
  /\ queue = <<>>
  /\ outboundBytes = 0
  /\ writable = TRUE
  /\ closed = FALSE
  /\ fdOpen = TRUE
  /\ allocOpen = TRUE
  /\ inactiveFired = FALSE
  /\ lastId = 0
  /\ refs = [id \in Ids |-> 0]
  /\ wire = <<>>
  /\ stack = <<Cb("active")>> \o rest

CoreTypeOK ==
  /\ queue \in Seq(Datagram)
  /\ outboundBytes \in Nat
  /\ writable \in BOOLEAN
  /\ closed \in BOOLEAN
  /\ fdOpen \in BOOLEAN
  /\ allocOpen \in BOOLEAN
  /\ inactiveFired \in BOOLEAN
  /\ lastId \in 0 .. MaxWrites
  /\ refs \in [Ids -> Int]
  /\ wire \in Seq(Ids)

-----------------------------------------------------------------------------
(* Properties of the shared part.                                          *)

(* Back-pressure hysteresis (updateWritability): while the endpoint is     *)
(* open it is writable only below the high watermark and unwritable only   *)
(* above the low one, at every callback and between all calls.             *)
WatermarkHysteresis ==
  ~closed => /\ writable => outboundBytes < High
             /\ ~writable => outboundBytes > Low

(* PendingOutboundBytes is exactly the size of the queued datagrams, so    *)
(* the clamp at zero in dequeue never hides a drift.                       *)
BytesMatchQueue ==
  outboundBytes = FoldLeft(LAMBDA sum, d : sum + d.size, 0, queue)

(* Close is complete when it returns to the loop, however it was nested in *)
(* callbacks: queue released, counters cleared, descriptor and allocator   *)
(* closed, ChannelInactive fired, channel unwritable.                      *)
ClosedIsFinal ==
  closed /\ stack = <<>> =>
    /\ queue = <<>> /\ outboundBytes = 0 /\ ~writable
    /\ ~fdOpen /\ ~allocOpen /\ inactiveFired

(* Close works in order: by the time the descriptor or the allocator is    *)
(* closed or ChannelInactive is fired, the endpoint is marked closed and   *)
(* every queued payload has been released, and no Write from a callback    *)
(* queues another one; and the handlers of ChannelInactive find descriptor *)
(* and allocator closed.                                                   *)
ReleasedBeforeClosed ==
  /\ ~fdOpen \/ ~allocOpen \/ inactiveFired => closed /\ queue = <<>>
  /\ inactiveFired => ~fdOpen /\ ~allocOpen

(* Inductive, with CoreTypeOK, for WatermarkHysteresis and                 *)
(* ReleasedBeforeClosed.                                                   *)
CoreInv ==
  /\ CoreTypeOK
  /\ WatermarkHysteresis
  /\ ReleasedBeforeClosed
  /\ closed => ~writable

StrictlyIncreasing(s) == \A i, j \in DOMAIN s : i < j => s[i] < s[j]

(* At-most-once, in-order submission: however Flush, write-ready events,   *)
(* would-blocks and handlers interleave, the socket takes the datagrams in *)
(* the order of the Write calls and none of them twice.                    *)
WireInOrder == StrictlyIncreasing(wire)

OnWire(id) == \E i \in DOMAIN wire : wire[i] = id
Queued(id) == \E i \in DOMAIN queue : queue[i].id = id

(* A datagram that Write accepted leaves the outbound queue only once the  *)
(* socket has it or Close has begun: dequeue never drops one unsent.       *)
NoUnsentDrop ==
  [][\A i \in DOMAIN queue :
       \/ \E j \in DOMAIN queue' : queue'[j].id = queue[i].id
       \/ OnWire(queue[i].id)
       \/ closed]_coreVars

(* The place in the queue of the last entry that the socket already has.   *)
LastSent ==
  CHOOSE k \in 0 .. Len(queue) :
    /\ k > 0 => OnWire(queue[k].id)
    /\ \A i \in k + 1 .. Len(queue) : ~OnWire(queue[i].id)

(* The queue without the entries that the socket already has and that a    *)
(* method, interrupted by a writability callback, has still to dequeue.    *)
Unsent == [i \in 1 .. Len(queue) - LastSent |-> queue[LastSent + i].id]

Channel == INSTANCE DatagramChannel WITH pending <- Unsent, open <- ~closed

(* The endpoint implements DatagramChannel: a queued datagram is pending   *)
(* until the call that gives it to the socket, even though dequeue runs    *)
(* later, with handlers in between.                                        *)
ImplementsChannel == Channel!ChanSpec
=============================================================================
