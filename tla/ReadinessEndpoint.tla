------------------------- MODULE ReadinessEndpoint -------------------------
(***************************************************************************)
(* endpoint on a readiness poller: HandleEvent, Flush through              *)
(* flushOutbound, Read and ready events through readReady, on the batch    *)
(* reader and the batch writer of the platform.                            *)
(***************************************************************************)
EXTENDS EndpointCore, FiniteSets

CONSTANTS
  Platforms,       \* "linux" has recvmmsg and sendmmsg, "linuxSingle" (linux/386 and
                   \* linux/s390x) sendmmsg and recvfrom, "other" sends and receives
                   \* one datagram at a time
  MaxBatch,        \* maxDatagramWriteBatch
  ReadBatch,       \* maxDatagramReadBatch
  MaxMessages,     \* OptionMaxMessagesPerRead
  AutoReadModes,   \* values of OptionAutoRead to consider
  Faults,          \* system calls, allocations and the poller may fail
  ReentrantFlush,  \* handlers call Flush while flushOutbound is dequeuing a batch
  ReentrantRead,   \* handlers call Read while readReady is delivering a batch
  MaxArrivals      \* bound: datagrams that reach the socket

ASSUME BatchAssumption ==
  /\ MaxBatch \in Nat \ {0}
  /\ ReadBatch \in Nat \ {0}
  /\ MaxMessages \in Int
  /\ MaxArrivals \in Nat
ASSUME ModeAssumption ==
  /\ AutoReadModes \subseteq BOOLEAN
  /\ Platforms \subseteq {"linux", "linuxSingle", "other"}
  /\ {Faults, ReentrantFlush, ReentrantRead} \subseteq BOOLEAN

VARIABLES
  writeInterest,
  interest,     \* what the poller watches the descriptor for
  autoRead,
  platform,
  arrived,      \* number of the latest datagram that reached the socket
  rx,           \* the socket's receive queue
  inBatch,      \* messages array of the batch reader, kept between calls
  held,         \* received payloads acquired and neither delivered nor released
  delivered     \* history: payloads fired into the pipeline, in order

interestVars == <<writeInterest, interest>>
inVars == <<arrived, rx, inBatch, held, delivered>>
vars   == <<coreVars, interestVars, inVars, autoRead, platform>>

Nil == 0                             \* a receivedDatagram{} slot
Slots == 1 .. ReadBatch
MinOf(a, b) == IF a <= b THEN a ELSE b

(* flushOutbound: `left' dequeues of a sent batch to go, then stop for     *)
(* write interest if `more'. ev: the caller is HandleEvent, not Flush.     *)
FlushFrame(left, more, ev) == [op |-> "flush", left |-> left, more |-> more, ev |-> ev]

(* readReady: `batch' is true while messages[i .. n] are being fired. A    *)
(* datagram of receiveSingleDatagram is in `single'.                       *)
ReadFrame(remaining, read) ==
  [op |-> "read", remaining |-> remaining, read |-> read, batch |-> FALSE,
   single |-> Nil, i |-> 1, n |-> 0, drained |-> FALSE, err |-> FALSE]

Frame ==
  CoreFrame
    \cup [op : {"flush"}, left : Nat, more : BOOLEAN, ev : BOOLEAN]
    \cup [op : {"read"}, remaining : Int, read : BOOLEAN, batch : BOOLEAN,
          single : 0 .. MaxArrivals, i : 1 .. ReadBatch + 1, n : 0 .. ReadBatch,
          drained : BOOLEAN, err : BOOLEAN]

-----------------------------------------------------------------------------
(* Outbound.                                                               *)

(* A result of a batch write: how many datagrams the kernel took, whether  *)
(* the socket would block, whether the call failed. AllConvert(batch, k):  *)
(* the first k addresses have a sockaddr form.                             *)
AllConvert(batch, k) == \A i \in 1 .. k : batch[i].addrOK

(* sendmmsg, or sendto for one datagram: all addresses are converted       *)
(* before the call; a short count means that the socket would block.       *)
SystemSends(batch) ==
  {r \in [sent : 0 .. Len(batch), again : BOOLEAN, err : BOOLEAN] :
     IF r.err
     THEN r.sent = 0 /\ ~r.again /\ (Faults \/ ~AllConvert(batch, Len(batch)))
     ELSE AllConvert(batch, Len(batch)) /\ r.again = (r.sent < Len(batch))}

(* One datagram after the other: those before a would-block, a failure or  *)
(* a bad address have been sent.                                           *)
FallbackSends(batch) ==
  {r \in [sent : 0 .. Len(batch), again : BOOLEAN, err : BOOLEAN] :
     /\ AllConvert(batch, r.sent)
     /\ r.sent = Len(batch) => ~r.again /\ ~r.err
     /\ r.sent < Len(batch) => /\ r.again # r.err
                               /\ r.again => batch[r.sent + 1].addrOK
                               /\ r.err => Faults \/ ~batch[r.sent + 1].addrOK}

SendResults(batch) == IF platform = "other" THEN FallbackSends(batch) ELSE SystemSends(batch)

CopyOutboundBatch == SubSeq(queue, 1, MinOf(Len(queue), MaxBatch))

(* An error of flushOutbound closes the endpoint when HandleEvent called   *)
(* it; Flush hands it to its caller and the endpoint stays open.           *)
FlushFailed(rest, ev) == IF ev THEN FailAndClose(rest) ELSE rest

(* Poller.Modify. On a closed descriptor it fails or changes nothing of    *)
(* this endpoint's.                                                        *)
Modify(mask, ok) ==
  /\ ok \/ Faults \/ ~fdOpen
  /\ interest' = IF ok /\ fdOpen THEN mask ELSE interest

FlushDequeue ==
  /\ Running("flush") /\ Head(stack).left > 0
  /\ Dequeue(<<[Head(stack) EXCEPT !.left = @ - 1]>> \o Tail(stack))
  /\ UNCHANGED <<closeVars, lastId, wire, interestVars, inVars, autoRead, platform>>

(* Seeded defect: the whole batch is dequeued, not the part that was sent. *)
FlushSendDequeuingAll ==
  /\ Running("flush") /\ Head(stack).left = 0 /\ ~Head(stack).more
  /\ queue # <<>>
  /\ \E r \in SendResults(CopyOutboundBatch) :
       /\ wire' = wire \o [i \in 1 .. r.sent |-> queue[i].id]
       /\ stack' = IF r.err
                   THEN FlushFailed(Tail(stack), Head(stack).ev)
                   ELSE <<FlushFrame(Len(CopyOutboundBatch), r.again, Head(stack).ev)>>
                          \o Tail(stack)
  /\ UNCHANGED <<queueVars, closeVars, lastId, interestVars, inVars, autoRead, platform>>

FlushSend ==
  /\ Running("flush") /\ Head(stack).left = 0 /\ ~Head(stack).more
  /\ queue # <<>>
  /\ \E r \in SendResults(CopyOutboundBatch) :
       /\ wire' = wire \o [i \in 1 .. r.sent |-> queue[i].id]
       /\ stack' = IF r.err
                   THEN FlushFailed(Tail(stack), Head(stack).ev)
                   ELSE <<FlushFrame(r.sent, r.again \/ r.sent < Len(CopyOutboundBatch),
                                     Head(stack).ev)>> \o Tail(stack)
  /\ UNCHANGED <<queueVars, closeVars, lastId, interestVars, inVars, autoRead, platform>>

(* Seeded defect: write interest is noted but the poller is not told. *)
FlushBlockedUnregistered ==
  /\ Running("flush") /\ Head(stack).left = 0 /\ Head(stack).more
  /\ writeInterest' = TRUE
  /\ stack' = Tail(stack)
  /\ UNCHANGED <<queueVars, closeVars, lastId, wire, interest, inVars, autoRead, platform>>

(* enableWriteInterest *)
FlushBlocked ==
  /\ Running("flush") /\ Head(stack).left = 0 /\ Head(stack).more
  /\ IF writeInterest
     THEN stack' = Tail(stack) /\ UNCHANGED <<writeInterest, interest>>
     ELSE /\ writeInterest' = TRUE
          /\ \E ok \in BOOLEAN :
               /\ Modify({"read", "write"}, ok)
               /\ stack' = IF ok THEN Tail(stack) ELSE FlushFailed(Tail(stack), Head(stack).ev)
  /\ UNCHANGED <<queueVars, closeVars, lastId, wire, inVars, autoRead, platform>>

(* disableWriteInterest, then FireFlushComplete. *)
FlushDone ==
  /\ Running("flush") /\ Head(stack).left = 0 /\ ~Head(stack).more
  /\ queue = <<>>
  /\ writeInterest' = FALSE
  /\ \E ok \in BOOLEAN :
       /\ IF writeInterest THEN Modify({"read"}, ok) ELSE ok /\ UNCHANGED interest
       /\ stack' = IF ok THEN <<Cb("flushComplete")>> \o Tail(stack)
                         ELSE FlushFailed(Tail(stack), Head(stack).ev)
  /\ UNCHANGED <<queueVars, closeVars, lastId, wire, inVars, autoRead, platform>>

(* A flushOutbound below on the stack still has datagrams of a sent batch  *)
(* to dequeue.                                                             *)
FlushInterrupted == \E i \in DOMAIN stack : stack[i].op = "flush" /\ stack[i].left > 0

Flush ==
  /\ CanCall /\ Len(stack) < MaxDepth
  /\ ~closed
  /\ ReentrantFlush \/ ~FlushInterrupted
  /\ stack' = <<FlushFrame(0, FALSE, FALSE)>> \o stack
  /\ UNCHANGED <<queueVars, closeVars, lastId, wire, interestVars, inVars, autoRead, platform>>

-----------------------------------------------------------------------------
(* Inbound.                                                                *)

(* A result of a read with a limit: `take' datagrams leave the socket, the *)
(* first `n' are returned, the rest of the prepared buffers are released.  *)
(* readReady does not look at `drained' after an error.                    *)
Receipts(m) == [n : 0 .. m, take : 0 .. m, drained : BOOLEAN, err : BOOLEAN]

(* recvmmsg, or recvfrom for one datagram. An unusable source address is   *)
(* an error after the datagrams before it; any other error comes first.    *)
SystemReceives(limit) ==
  {r \in Receipts(MinOf(limit, Len(rx))) :
     \/ ~r.err /\ r.n = r.take /\ (r.take > 0 \/ rx = <<>>) /\ r.drained = (r.take < limit)
     \/ Faults /\ r.err /\ ~r.drained /\ (r.n < r.take \/ r.n + r.take = 0)}

(* One datagram after the other. An unusable source address is an error on *)
(* Linux, elsewhere it ends the batch as if the socket were empty; another *)
(* failure leaves the later datagrams there.                               *)
FallbackReceives(limit) ==
  LET m == MinOf(limit, Len(rx))
  IN  {r \in Receipts(m) :
         \/ ~r.err /\ r.n = m /\ r.take = m /\ r.drained = (m < limit)
         \/ Faults /\ r.take = r.n + 1 /\ r.drained = ~r.err /\ r.err = (platform # "other")
         \/ Faults /\ r.err /\ r.n = r.take /\ r.take < limit /\ ~r.drained}

ReceiveResults(limit) ==
  IF platform = "linux" THEN SystemReceives(limit) ELSE FallbackReceives(limit)

(* datagramBatchReader.unpack: the n received payloads enter the array.    *)
(* The seeded defect leaves the last one out.                              *)
UnpackShort(n) == [s \in Slots |-> IF s < n THEN rx[s] ELSE inBatch[s]]
Unpack(n)      == [s \in Slots |-> IF s <= n THEN rx[s] ELSE inBatch[s]]

(* The condition of readReady's loop, and a seeded defect that ignores a   *)
(* Close from a handler.                                                   *)
ReadContinuesWhenClosed(f) == f.remaining > 0
ReadContinues(f)           == f.remaining > 0 /\ ~closed

(* receiveInbound: the batch goes to the reader's message array, a single  *)
(* datagram to a slot of its own.                                          *)
ReadReceive ==
  /\ Running("read") /\ ~Head(stack).batch /\ ReadContinues(Head(stack))
  /\ LET limit == MinOf(Head(stack).remaining, ReadBatch)
     IN  \E r \in ReceiveResults(limit) :
           /\ rx' = SubSeq(rx, r.take + 1, Len(rx))
           /\ inBatch' = IF Head(stack).remaining > 1 THEN Unpack(r.n) ELSE inBatch
           /\ held' = held + r.n
           /\ stack' = <<[Head(stack) EXCEPT
                            !.batch = TRUE, !.i = 1, !.n = r.n,
                            !.single = IF Head(stack).remaining <= 1 /\ r.n = 1 THEN rx[1] ELSE Nil,
                            !.drained = r.drained, !.err = r.err]>> \o Tail(stack)
  /\ UNCHANGED <<queueVars, closeVars, lastId, wire, interestVars, arrived, delivered,
                 autoRead, platform>>

(* readReady looks at closed before each message; the seeded defect does   *)
(* not.                                                                    *)
NeverAbandoned == FALSE
ReadAbandoned  == closed

(* The next message is taken out of its slot and fired. *)
ReadFire ==
  /\ Running("read") /\ Head(stack).batch /\ Head(stack).i <= Head(stack).n
  /\ ~ReadAbandoned
  /\ LET f       == Head(stack)
         payload == IF f.single # Nil THEN f.single ELSE inBatch[f.i]
     IN  /\ inBatch' = IF f.single # Nil THEN inBatch ELSE [inBatch EXCEPT ![f.i] = Nil]
         /\ held' = IF payload # Nil THEN held - 1 ELSE held
         /\ delivered' = Append(delivered, payload)
         /\ stack' = <<Cb("read"), [f EXCEPT !.i = @ + 1, !.single = Nil, !.read = TRUE]>>
                       \o Tail(stack)
  /\ UNCHANGED <<queueVars, closeVars, lastId, wire, interestVars, arrived, rx, autoRead, platform>>

(* Seeded defect: the remaining messages are not released. *)
ReadDiscardLeaking ==
  /\ Running("read") /\ Head(stack).batch /\ Head(stack).i <= Head(stack).n
  /\ ReadAbandoned
  /\ stack' = <<[Head(stack) EXCEPT !.i = Head(stack).n + 1]>> \o Tail(stack)
  /\ UNCHANGED <<queueVars, closeVars, lastId, wire, interestVars, inVars, autoRead, platform>>

(* A handler closed the endpoint: releaseReceivedDatagrams(messages[i:]).  *)
ReadDiscard ==
  /\ Running("read") /\ Head(stack).batch /\ Head(stack).i <= Head(stack).n
  /\ ReadAbandoned
  /\ LET f    == Head(stack)
         full == {s \in f.i .. f.n : inBatch[s] # Nil}
     IN  /\ inBatch' = [s \in Slots |-> IF s \in f.i .. f.n THEN Nil ELSE inBatch[s]]
         /\ held' = held - Cardinality(full)
         /\ stack' = <<[f EXCEPT !.i = f.n + 1]>> \o Tail(stack)
  /\ UNCHANGED <<queueVars, closeVars, lastId, wire, interestVars, arrived, rx, delivered,
                 autoRead, platform>>

ReadFinish(read) == (IF read THEN <<Cb("readComplete")>> ELSE <<>>) \o Tail(stack)

(* After a batch: its error closes the endpoint, a drained socket or an    *)
(* empty batch ends the loop.                                              *)
ReadBatchDone ==
  /\ Running("read") /\ Head(stack).batch /\ Head(stack).i > Head(stack).n
  /\ LET f == Head(stack)
     IN  stack' = CASE f.err -> FailAndClose(Tail(stack))
                    [] ~f.err /\ (f.drained \/ f.n = 0) -> ReadFinish(f.read)
                    [] OTHER -> <<ReadFrame(f.remaining - f.n, f.read)>> \o Tail(stack)
  /\ UNCHANGED <<queueVars, closeVars, lastId, wire, interestVars, inVars, autoRead, platform>>

ReadExit ==
  /\ Running("read") /\ ~Head(stack).batch /\ ~ReadContinues(Head(stack))
  /\ stack' = ReadFinish(Head(stack).read)
  /\ UNCHANGED <<queueVars, closeVars, lastId, wire, interestVars, inVars, autoRead, platform>>

StartRead == ReadFrame(IF MaxMessages <= 0 THEN 1 ELSE MaxMessages, FALSE)

(* A readReady below on the stack still has messages of its batch to fire. *)
ReadInterrupted ==
  \E i \in DOMAIN stack : stack[i].op = "read" /\ stack[i].batch /\ stack[i].i <= stack[i].n

Read ==
  /\ CanCall /\ Len(stack) < MaxDepth
  /\ ~closed
  /\ ReentrantRead \/ ~ReadInterrupted
  /\ stack' = <<StartRead>> \o stack
  /\ UNCHANGED <<queueVars, closeVars, lastId, wire, interestVars, inVars, autoRead, platform>>

-----------------------------------------------------------------------------
(* Poller events. The read part of an event runs before its write part,    *)
(* which does not look at closed again.                                    *)

HandleReady(read, write) ==
  /\ stack = <<>> /\ ~closed
  /\ read \/ write
  /\ read => "read" \in interest
  /\ write => "write" \in interest
  /\ stack' = (IF read /\ autoRead THEN <<StartRead>> ELSE <<>>)
                 \o (IF write THEN <<FlushFrame(0, FALSE, TRUE)>> ELSE <<>>)
  /\ UNCHANGED <<queueVars, closeVars, lastId, wire, interestVars, inVars, autoRead, platform>>

HandleError ==
  /\ Faults /\ stack = <<>> /\ ~closed
  /\ stack' = FailAndClose(<<>>)
  /\ UNCHANGED <<queueVars, closeVars, lastId, wire, interestVars, inVars, autoRead, platform>>

HandleHangup ==
  /\ Faults /\ stack = <<>> /\ ~closed
  /\ CloseCall(<<>>)
  /\ UNCHANGED <<interestVars, inVars, autoRead, platform>>

(* A datagram reaches the socket. *)
Arrive ==
  /\ arrived < MaxArrivals /\ fdOpen
  /\ arrived' = arrived + 1
  /\ rx' = Append(rx, arrived + 1)
  /\ UNCHANGED <<coreVars, interestVars, inBatch, held, delivered, autoRead, platform>>

-----------------------------------------------------------------------------
Write(size, addrOK, valid) ==
  CoreWrite(size, addrOK, valid) /\ UNCHANGED <<interestVars, inVars, autoRead, platform>>

Close == CoreClose /\ UNCHANGED <<interestVars, inVars, autoRead, platform>>

Closing == (DoClose \/ CloseStep) /\ UNCHANGED <<interestVars, inVars, autoRead, platform>>

HandlerReturn == CbReturn /\ UNCHANGED <<interestVars, inVars, autoRead, platform>>

Init ==
  /\ CoreInit(<<>>)
  /\ autoRead \in AutoReadModes
  /\ platform \in Platforms
  /\ writeInterest = FALSE
  /\ interest = IF autoRead THEN {"read"} ELSE {}      \* InitialInterest
  /\ arrived = 0
  /\ rx = <<>>
  /\ inBatch = [s \in Slots |-> Nil]
  /\ held = 0
  /\ delivered = <<>>

(* A step of the method on top of the stack. *)
MethodStep ==
  \/ FlushDequeue \/ FlushSend \/ FlushBlocked \/ FlushDone
  \/ ReadReceive \/ ReadFire \/ ReadDiscard \/ ReadBatchDone \/ ReadExit
  \/ Closing

Next ==
  \/ \E size \in Sizes, addrOK \in AddrKinds, valid \in BOOLEAN : Write(size, addrOK, valid)
  \/ Flush
  \/ Read
  \/ Close
  \/ HandlerReturn
  \/ MethodStep
  \/ \E read, write \in BOOLEAN : HandleReady(read, write)
  \/ HandleError
  \/ HandleHangup
  \/ Arrive

Spec == Init /\ [][Next]_vars

TypeOK ==
  /\ CoreTypeOK
  /\ stack \in Seq(IF closed THEN Frame ELSE Frame \ {CloseFrame})
  /\ writeInterest \in BOOLEAN
  /\ interest \subseteq {"read", "write"}
  /\ autoRead \in BOOLEAN
  /\ platform \in {"linux", "linuxSingle", "other"}
  /\ arrived \in 0 .. MaxArrivals
  /\ rx \in Seq(1 .. MaxArrivals)
  /\ inBatch \in [Slots -> 0 .. MaxArrivals]
  /\ held \in Int
  /\ delivered \in Seq(0 .. MaxArrivals)

-----------------------------------------------------------------------------
(* Outbound properties.                                                    *)

(* The endpoint answers for exactly one reference of every payload in its  *)
(* queue and for none of any other, at every callback: no payload is       *)
(* leaked or released twice by Write, flushOutbound and Close.             *)
PayloadOwnedWhileQueued ==
  \A id \in Ids : refs[id] = IF Queued(id) THEN 1 ELSE 0

(* The socket and the allocator are not used once Close has closed them,   *)
(* although methods that a callback interrupted go on after a handler      *)
(* closed the endpoint.                                                    *)
NoIOAfterClose ==
  [][/\ wire' # wire => fdOpen
     /\ rx' # rx /\ Len(rx') < Len(rx) => fdOpen /\ allocOpen]_vars

-----------------------------------------------------------------------------
(* Inbound properties.                                                     *)

(* Datagrams reach the pipeline in the order in which the socket held      *)
(* them, at most once, and never as an empty message slot: the reused      *)
(* batch array is not read after its payload was handed out.               *)
DeliveredInOrder == StrictlyIncreasing(delivered) /\ Nil \notin Range(delivered)

(* Every received payload that was neither delivered nor released is still *)
(* in a slot from which readReady will deliver or release it, and the      *)
(* slots outside a running batch are empty: no payload leaks.              *)
BuffersReachable ==
  LET live == {i \in DOMAIN stack : stack[i].op = "read" /\ stack[i].batch}
      slots == UNION {stack[i].i .. stack[i].n : i \in {j \in live : stack[j].single = Nil}}
      singles == {i \in live : stack[i].single # Nil}
  IN  /\ held = Cardinality({s \in slots : inBatch[s] # Nil}) + Cardinality(singles)
      /\ \A s \in Slots : inBatch[s] # Nil => s \in slots

(* A handler that has seen ChannelInactive sees no ChannelRead after it:   *)
(* readReady stops delivering when a handler closes the endpoint.          *)
NoReadAfterInactive == [][delivered' # delivered => ~inactiveFired]_vars
=============================================================================
