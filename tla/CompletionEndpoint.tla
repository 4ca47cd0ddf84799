------------------------- MODULE CompletionEndpoint -------------------------
(***************************************************************************)
(* endpoint on a completion poller (IOCP, io_uring): Read and Flush submit *)
(* requests, handleCompletion takes their results. At most one read and    *)
(* one write are outstanding; the write is always that of the queue head.  *)
(*                                                                         *)
(* The poller is external. It keeps a reference of its own to the buffer   *)
(* of a request it accepted and passes that reference on in the completion *)
(* event, which the loop delivers even after the endpoint was closed.      *)
(***************************************************************************)
EXTENDS EndpointCore

CONSTANTS
  AutoReadModes,   \* values of OptionAutoRead to consider
  Faults,          \* allocations, Submit and requests may fail
  MaxReads         \* bound: reads completed while the endpoint is open

ASSUME CompletionAssumption ==
  /\ AutoReadModes \subseteq BOOLEAN
  /\ Faults \in BOOLEAN
  /\ MaxReads \in Nat

VARIABLES
  readPending,
  writePending,
  readsInFlight,    \* read requests the poller has not completed
  writesInFlight,   \* datagrams of the write requests it has not completed
  readRefs,         \* references to receive buffers held by endpoint and poller
  reads,            \* reads completed while the endpoint was open
  autoRead,
  armFailed         \* the registration closure could not submit the first read

readVars  == <<readPending, readsInFlight, readRefs, reads>>
writeVars == <<writePending, writesInFlight>>
modeVars  == <<autoRead, armFailed>>
vars      == <<coreVars, readVars, writeVars, modeVars>>

(* The registration closure, about to submit the first read.               *)
ArmFrame == [op |-> "arm"]
(* handleReadCompletion, with ReadComplete still to be fired or not.       *)
RearmFrame(complete) == [op |-> "rearm", complete |-> complete]
(* handleWriteCompletion, before and after dequeue.                        *)
WrittenFrame(dequeued) == [op |-> "written", dequeued |-> dequeued]

Frame ==
  CoreFrame \cup {ArmFrame}
    \cup [op : {"rearm"}, complete : BOOLEAN]
    \cup [op : {"written"}, dequeued : BOOLEAN]

-----------------------------------------------------------------------------
(* submitReadCompletion goes on with `rest', or with `failed' on an error. *)
(* The endpoint's own reference to the buffer ends with the call, so an    *)
(* accepted request leaves one, the poller's.                              *)
SubmitRead(rest, failed) ==
  IF closed \/ readPending
  THEN stack' = rest /\ UNCHANGED readVars
  ELSE \/ /\ readPending' = TRUE
          /\ readsInFlight' = readsInFlight + 1
          /\ readRefs' = readRefs + 1
          /\ stack' = rest
          /\ UNCHANGED reads
       \/ /\ Faults
          /\ stack' = failed
          /\ UNCHANGED readVars

(* The early return of submitWriteCompletion; the seeded defect forgets    *)
(* the outstanding request.                                                *)
NothingQueued  == closed \/ queue = <<>>
NoWriteToStart == closed \/ writePending \/ queue = <<>>

(* submitWriteCompletion: the request takes a reference to the payload of  *)
(* the queue head. An address that cannot be converted fails.              *)
SubmitWrite(rest, failed) ==
  IF NoWriteToStart
  THEN stack' = rest /\ UNCHANGED <<writeVars, refs>>
  ELSE \/ /\ Head(queue).addrOK
          /\ writePending' = TRUE
          /\ writesInFlight' = Append(writesInFlight, Head(queue).id)
          /\ refs' = [refs EXCEPT ![Head(queue).id] = @ + 1]
          /\ stack' = rest
       \/ /\ Faults \/ ~Head(queue).addrOK
          /\ stack' = failed
          /\ UNCHANGED <<writeVars, refs>>

-----------------------------------------------------------------------------
Flush ==
  /\ CanCall /\ Len(stack) < MaxDepth
  /\ ~closed
  /\ SubmitWrite(stack, stack)
  /\ UNCHANGED <<queue, outboundBytes, writable, closeVars, lastId, wire, readVars, modeVars>>

Read ==
  /\ CanCall /\ Len(stack) < MaxDepth
  /\ ~closed
  /\ SubmitRead(stack, stack)
  /\ UNCHANGED <<queueVars, closeVars, lastId, wire, writeVars, modeVars>>

(* The last step of the registration closure. When it fails, Bind or Dial  *)
(* learns of it and closes the endpoint later; the loop goes on meanwhile. *)
Arm ==
  /\ Running("arm")
  /\ IF autoRead
     THEN /\ SubmitRead(Tail(stack), Tail(stack))
          /\ armFailed' = (~closed /\ ~readPending')
     ELSE stack' = Tail(stack) /\ UNCHANGED <<readVars, armFailed>>
  /\ UNCHANGED <<queueVars, closeVars, lastId, wire, writeVars, autoRead>>

-----------------------------------------------------------------------------
(* Completion events.                                                      *)

(* A read completes with a datagram, with nothing to deliver (no bytes or  *)
(* an unusable source address), or with an error. The buffer goes to the   *)
(* pipeline or is released; a closed endpoint only releases it.            *)
ReadOutcomes == {"datagram", "nothing"} \cup (IF Faults THEN {"error"} ELSE {})

(* What handleReadCompletion still does; the seeded defect returns early   *)
(* when there is nothing to deliver.                                       *)
AfterReadReturning(outcome) ==
  CASE outcome = "datagram" -> <<Cb("read"), RearmFrame(TRUE)>>
    [] outcome = "nothing"  -> <<>>
    [] outcome = "error"    -> FailAndClose(<<>>)
AfterRead(outcome) ==
  CASE outcome = "datagram" -> <<Cb("read"), RearmFrame(TRUE)>>
    [] outcome = "nothing"  -> <<RearmFrame(FALSE)>>
    [] outcome = "error"    -> FailAndClose(<<>>)

HandleReadCompletion(outcome) ==
  /\ stack = <<>> /\ readsInFlight > 0
  /\ closed \/ reads < MaxReads
  /\ reads' = IF closed THEN reads ELSE reads + 1
  /\ readsInFlight' = readsInFlight - 1
  /\ readRefs' = readRefs - 1
  /\ readPending' = (closed /\ readPending)
  /\ stack' = IF closed THEN stack ELSE AfterRead(outcome)
  /\ UNCHANGED <<queueVars, closeVars, lastId, wire, writeVars, modeVars>>

(* ReadComplete, then another read if AutoRead still wants one.            *)
Rearm ==
  /\ Running("rearm")
  /\ IF Head(stack).complete
     THEN /\ stack' = <<Cb("readComplete"), RearmFrame(FALSE)>> \o Tail(stack)
          /\ UNCHANGED readVars
     ELSE IF autoRead
          THEN SubmitRead(Tail(stack), FailAndClose(Tail(stack)))
          ELSE stack' = Tail(stack) /\ UNCHANGED readVars
  /\ UNCHANGED <<queueVars, closeVars, lastId, wire, writeVars, modeVars>>

(* The event's reference is released by handleWriteCompletion, and by      *)
(* releasePollEvent when closed; the seeded defect forgets the latter.     *)
ReleaseEventWhenOpen(id) ==
  refs' = IF closed THEN refs ELSE [refs EXCEPT ![id] = @ - 1]
ReleaseEvent(id) == refs' = [refs EXCEPT ![id] = @ - 1]

(* What handleWriteCompletion still does; the seeded defect takes a failed *)
(* write for a finished one.                                               *)
AfterWriteIgnoringError(err) == <<WrittenFrame(FALSE)>>
AfterWrite(err) == IF err THEN FailAndClose(<<>>) ELSE <<WrittenFrame(FALSE)>>

(* A write completes: its reference is released first, also when closed.   *)
(* After a failed write the endpoint is still open while ExceptionCaught   *)
(* runs, and a handler may submit the same datagram again.                 *)
HandleWriteCompletion(err) ==
  /\ stack = <<>> /\ writesInFlight # <<>>
  /\ err => Faults
  /\ writesInFlight' = Tail(writesInFlight)
  /\ ReleaseEvent(Head(writesInFlight))
  /\ writePending' = (closed /\ writePending)
  /\ stack' = IF closed THEN stack ELSE AfterWrite(err)
  /\ wire' = IF closed \/ err THEN wire ELSE Append(wire, Head(writesInFlight))
  /\ UNCHANGED <<queue, outboundBytes, writable, closeVars, lastId, readVars, modeVars>>

WrittenDequeue ==
  /\ Running("written") /\ ~Head(stack).dequeued
  /\ Dequeue(<<WrittenFrame(TRUE)>> \o Tail(stack))
  /\ UNCHANGED <<closeVars, lastId, wire, writeVars, readVars, modeVars>>

(* Seeded defect: the flush ends after one datagram. *)
WrittenNextStopping ==
  /\ Running("written") /\ Head(stack).dequeued
  /\ stack' = <<Cb("flushComplete")>> \o Tail(stack)
  /\ UNCHANGED <<queueVars, closeVars, lastId, wire, writeVars, readVars, modeVars>>

(* The next datagram is submitted, or the flush is complete.               *)
WrittenNext ==
  /\ Running("written") /\ Head(stack).dequeued
  /\ IF queue # <<>>
     THEN SubmitWrite(Tail(stack), FailAndClose(Tail(stack)))
     ELSE /\ stack' = <<Cb("flushComplete")>> \o Tail(stack)
          /\ UNCHANGED <<writeVars, refs>>
  /\ UNCHANGED <<queue, outboundBytes, writable, closeVars, lastId, wire, readVars, modeVars>>

(* The poller reports that the descriptor was closed. *)
HandleCloseCompletion ==
  /\ Faults /\ stack = <<>> /\ ~closed
  /\ CloseCall(<<>>)
  /\ UNCHANGED <<readVars, writeVars, modeVars>>

-----------------------------------------------------------------------------
Write(size, addrOK, valid) ==
  CoreWrite(size, addrOK, valid) /\ UNCHANGED <<readVars, writeVars, modeVars>>

Close == CoreClose /\ UNCHANGED <<readVars, writeVars, modeVars>>

Closing == (DoClose \/ CloseStep) /\ UNCHANGED <<readVars, writeVars, modeVars>>

HandlerReturn == CbReturn /\ UNCHANGED <<readVars, writeVars, modeVars>>

Init ==
  /\ CoreInit(<<ArmFrame>>)
  /\ autoRead \in AutoReadModes
  /\ armFailed = FALSE
  /\ readPending = FALSE
  /\ writePending = FALSE
  /\ readsInFlight = 0
  /\ writesInFlight = <<>>
  /\ readRefs = 0
  /\ reads = 0

(* A step of the method on top of the stack. *)
MethodStep == Arm \/ Rearm \/ WrittenDequeue \/ WrittenNext \/ Closing

Next ==
  \/ \E size \in Sizes, addrOK \in AddrKinds, valid \in BOOLEAN : Write(size, addrOK, valid)
  \/ Flush
  \/ Read
  \/ Close
  \/ HandlerReturn
  \/ MethodStep
  \/ \E outcome \in ReadOutcomes : HandleReadCompletion(outcome)
  \/ \E err \in BOOLEAN : HandleWriteCompletion(err)
  \/ HandleCloseCompletion

Spec == Init /\ [][Next]_vars

TypeOK ==
  /\ CoreTypeOK
  /\ stack \in Seq(IF closed THEN Frame ELSE Frame \ {CloseFrame})
  /\ readPending \in BOOLEAN
  /\ writePending \in BOOLEAN
  /\ readsInFlight \in Nat
  /\ writesInFlight \in Seq(Ids)
  /\ readRefs \in Int
  /\ reads \in 0 .. MaxReads
  /\ autoRead \in BOOLEAN
  /\ armFailed \in BOOLEAN

-----------------------------------------------------------------------------
(* Properties.                                                             *)

(* The pending flags mirror the poller: while the endpoint is open a flag  *)
(* is set exactly when one request is outstanding, so a failed Submit or a *)
(* Flush from a handler in the middle of handleWriteCompletion neither     *)
(* loses the flag nor doubles the request. The outstanding write is that   *)
(* of the queue head: the dequeue after its completion removes it and not  *)
(* another datagram.                                                       *)
RequestsMatchFlags ==
  ~closed =>
    /\ readsInFlight = IF readPending THEN 1 ELSE 0
    /\ Len(writesInFlight) = IF writePending THEN 1 ELSE 0
    /\ writePending => queue # <<>> /\ Head(queue).id = Head(writesInFlight)

Once(b) == IF b THEN 1 ELSE 0

(* The references of a payload are the queue's and the poller's, and those *)
(* of receive buffers are the poller's, also when Close overtakes requests *)
(* in flight: after their late completions nothing is left, and nothing is *)
(* released twice.                                                         *)
BuffersAccounted ==
  /\ \A id \in Ids : refs[id] = Once(Queued(id)) + Once(\E i \in DOMAIN writesInFlight :
                                                          writesInFlight[i] = id)
  /\ readRefs = readsInFlight

(* With AutoRead an open endpoint never stops listening: whenever its loop *)
(* is between two tasks, a read is outstanding, whatever the handlers did  *)
(* and however the last read ended. Only an endpoint whose first read was  *)
(* refused may be without one, until Bind or Dial closes it.               *)
ReadArmed == ~closed /\ autoRead /\ ~armFailed /\ stack = <<>> => readPending
=============================================================================
