----------------------- MODULE CompletionChannelProofs -----------------------
(***************************************************************************)
(* The outbound queue and the buffers of CompletionEndpoint, for every     *)
(* value of the constants: what is referenced by whom, that Close runs to  *)
(* its end, that a read stays armed, and that the endpoint implements      *)
(* DatagramChannel.                                                        *)
(***************************************************************************)
EXTENDS CompletionProofs

-----------------------------------------------------------------------------
(* What a step does to the queue, the write requests and the wire.         *)

Quiet == QueueKept /\ closed' \in {closed, TRUE} /\ UNCHANGED <<refs, wire, writesInFlight>>

Submitted ==
  /\ ~closed /\ ~writePending /\ queue # <<>>
  /\ writesInFlight' = Append(writesInFlight, Head(queue).id)
  /\ refs' = [refs EXCEPT ![Head(queue).id] = @ + 1]
  /\ UNCHANGED <<queue, outboundBytes, lastId, wire, closed>>

Finished ==
  /\ stack = <<>> /\ writesInFlight # <<>>
  /\ writesInFlight' = Tail(writesInFlight)
  /\ refs' = [refs EXCEPT ![Head(writesInFlight)] = @ - 1]
  /\ UNCHANGED <<queue, outboundBytes, lastId, closed>>

Sent == ~closed /\ wire' = Append(wire, Head(writesInFlight)) /\ stack' = <<ToDequeue>>

(* `Busy' says that the loop is not before the dequeue of a datagram that  *)
(* the socket has.                                                         *)
Move ==
  \/ Accepted /\ Busy /\ Busy' /\ UNCHANGED writesInFlight
  \/ /\ Dropped /\ Busy' /\ UNCHANGED <<closed, writesInFlight>>
     /\ closed \/ stack = <<ToDequeue>>
  \/ Quiet /\ (stack' = stack \/ (Busy' /\ (Busy \/ queue = <<>>)))
  \/ Submitted /\ Busy /\ Busy'
  \/ Finished /\ (Sent \/ (Busy' /\ UNCHANGED wire))

(* A busy stack is off that point. *)
LEMMA BusyIsOff == Busy => stack # <<ToDequeue>>
  <1> SUFFICES ASSUME Busy, stack = <<ToDequeue>>
               PROVE  FALSE
    OBVIOUS
  <1>1. Head(stack) \in BusyFrame /\ Head(stack) = ToDequeue
    BY DEF Busy
  <1> QED
    BY <1>1 DEF BusyFrame

(* The same in the next state. *)
LEMMA BusyIsOffNext == (Busy => stack # <<ToDequeue>>)'
  BY BusyIsOff, PTL

(* submitWriteCompletion submits the head or leaves everything.            *)
LEMMA SubmitMoves ==
  ASSUME NEW rest, NEW failed, SubmitWrite(rest, failed), Busy, Busy',
         UNCHANGED <<queue, outboundBytes, lastId, wire, closed>>
  PROVE  Move
  BY DEF SubmitWrite, NoWriteToStart, writeVars, Move, Submitted, Quiet, QueueKept

(* Every step is one of those moves. *)
LEMMA Moves ==
  ASSUME Inv, [Next]_vars
  PROVE  Move
  <1>1. stack # <<ToDequeue>> => Busy
    BY StackIsBusy
  <1>2. ASSUME NEW size \in Sizes, NEW addrOK \in AddrKinds, NEW valid \in BOOLEAN,
               Write(size, addrOK, valid)
        PROVE  Move
    <2>1. CoreWrite(size, addrOK, valid) /\ UNCHANGED <<writesInFlight, closed, wire>> /\ CanCall
      BY <1>2 DEF Write, writeVars, CoreWrite, closeVars
    <2>2. Busy /\ Busy'
      BY <1>1, <1>2, <2>1, OffDequeue, WriteStep
    <2>3. Accepted \/ (QueueKept /\ UNCHANGED <<refs, stack>>)
      BY <2>1, WriteMoves DEF Inv
    <2> QED
      BY <2>1, <2>2, <2>3 DEF Move, Quiet
  <1>3. CASE Flush
    <2>1. /\ SubmitWrite(stack, stack) /\ CanCall
          /\ UNCHANGED <<queue, outboundBytes, lastId, wire, closed>>
      BY <1>3 DEF Flush, closeVars
    <2>2. Busy /\ Busy'
      BY <1>1, <1>3, <2>1, OffDequeue, FlushStep
    <2> QED
      BY <2>1, <2>2, SubmitMoves
  <1>4. UNCHANGED <<queueVars, lastId, wire, closed, writesInFlight>> => Quiet
    BY DEF Quiet, QueueKept, queueVars
  <1>5. CASE Read \/ Arm \/ Rearm \/ HandlerReturn
    <2>1. UNCHANGED <<queueVars, lastId, wire, closed, writesInFlight>>
      BY <1>5 DEF Read, Arm, Rearm, HandlerReturn, CbReturn, closeVars, writeVars
    <2>2. CanCall \/ Running("arm") \/ Running("rearm") \/ Running("cb")
      BY <1>5 DEF Read, Arm, Rearm, HandlerReturn, CbReturn
    <2>3. Busy /\ Busy'
      BY <1>1, <1>5, <2>2, OffDequeue, ReadCallStep, ArmStep, RearmStep, ReturnStep
    <2> QED
      BY <1>4, <2>1, <2>3 DEF Move
  <1>6. CASE Close \/ Closing \/ HandleCloseCompletion
    <2>1. UNCHANGED <<wire, writesInFlight>>
      BY <1>6 DEF Close, Closing, HandleCloseCompletion, CoreClose, DoClose, CloseStep, CloseCall,
                  writeVars
    <2>2. CanCall \/ Running("doClose") \/ Running("close")
      BY <1>6 DEF Close, Closing, HandleCloseCompletion, CoreClose, DoClose, CloseStep, CanCall
    <2>3. Busy /\ Busy'
      BY <1>1, <1>6, <2>2, OffDequeue, ClosingSteps
    <2>4. CASE CloseStep /\ queue # <<>>
      <3>1. closed' = closed /\ Dequeue(stack) /\ UNCHANGED <<lastId, wire>>
        BY <2>4 DEF CloseStep
      <3>2. closed
        <4>1. UNCHANGED <<readVars, writeVars, modeVars>>
          BY <1>6, <2>4 DEF Close, Closing, HandleCloseCompletion
        <4> QED
          BY <2>4, ClosedWhenClosing
      <3>3. Dropped
        BY <2>4, <3>1, DequeueMoves DEF Dequeue, Dropped, UpdateWritability
      <3> QED
        BY <2>1, <2>3, <3>1, <3>2, <3>3 DEF Move
    <2>5. CASE CloseStep /\ queue = <<>>
      <3>1. Quiet
        BY <1>4, <2>1, <2>5 DEF CloseStep
      <3> QED
        BY <2>3, <3>1 DEF Move
    <2>6. ASSUME NEW rest, CloseCall(rest)
          PROVE  Move
      <3>1. Quiet
        BY <2>1, <2>6 DEF CloseCall, Quiet, QueueKept
      <3> QED
        BY <2>3, <3>1 DEF Move
    <2> QED
      BY <1>6, <2>4, <2>5, <2>6 DEF Close, CoreClose, Closing, DoClose, HandleCloseCompletion
  <1>7. CASE WrittenDequeue
    <2>1. /\ Dequeue(<<WrittenFrame(TRUE)>> \o Tail(stack))
          /\ UNCHANGED <<lastId, wire, closed, writesInFlight>>
      BY <1>7 DEF WrittenDequeue, closeVars, writeVars
    <2>2. Busy' /\ stack = <<ToDequeue>>
      <3>1. Running("written") /\ ~Head(stack).dequeued
        BY <1>7 DEF WrittenDequeue
      <3> QED
        BY <1>7, <3>1, WrittenDequeueStep, AtDequeue
    <2>3. CASE queue = <<>>
      <3>1. Quiet
        BY <1>4, <2>1, <2>3 DEF Dequeue
      <3> QED
        BY <2>2, <2>3, <3>1 DEF Move
    <2>4. CASE queue # <<>>
      <3>1. Dropped
        BY <2>1, <2>4 DEF Dequeue, Dropped, UpdateWritability
      <3> QED
        BY <2>1, <2>2, <3>1 DEF Move
    <2> QED
      BY <2>3, <2>4
  <1>8. CASE WrittenNext
    <2>1. UNCHANGED <<queue, outboundBytes, lastId, wire, closed>> /\ Head(stack).dequeued
      BY <1>8 DEF WrittenNext, closeVars
    <2>2. stack # <<ToDequeue>>
      BY <2>1 DEF ToDequeue, WrittenFrame
    <2>3. Busy /\ Busy'
      BY <1>1, <1>8, <2>2, WrittenNextStep
    <2>4. CASE queue = <<>>
      <3>1. UNCHANGED <<refs, writesInFlight>>
        BY <1>8, <2>4 DEF WrittenNext, writeVars
      <3> QED
        BY <2>1, <2>3, <3>1 DEF Move, Quiet, QueueKept
    <2>5. CASE queue # <<>>
      BY <1>8, <2>1, <2>3, <2>5, SubmitMoves DEF WrittenNext
    <2> QED
      BY <2>4, <2>5
  <1>9. ASSUME NEW outcome \in ReadOutcomes, HandleReadCompletion(outcome)
        PROVE  Move
    <2>1. UNCHANGED <<queueVars, lastId, wire, closed, writesInFlight>> /\ CanCall
      BY <1>9 DEF HandleReadCompletion, closeVars, writeVars, CanCall
    <2>2. Busy /\ Busy'
      BY <1>1, <1>9, <2>1, OffDequeue, ReadCompletionStep
    <2> QED
      BY <1>4, <2>1, <2>2 DEF Move
  <1>10. ASSUME NEW err \in BOOLEAN, HandleWriteCompletion(err)
         PROVE  Move
    <2>1. Finished
      BY <1>10 DEF HandleWriteCompletion, ReleaseEvent, Finished, closeVars
    <2>2. CASE closed \/ err
      <3>1. UNCHANGED wire
        BY <1>10, <2>2 DEF HandleWriteCompletion
      <3>2. Busy'
        BY <1>10, <2>2, WriteCompletionStep
      <3> QED
        BY <2>1, <3>1, <3>2 DEF Move
    <2>3. CASE ~(closed \/ err)
      <3>1. Sent
        BY <1>10, <2>3 DEF HandleWriteCompletion, AfterWrite, Sent, ToDequeue
      <3> QED
        BY <2>1, <3>1 DEF Move
    <2> QED
      BY <2>2, <2>3
  <1>11. CASE UNCHANGED vars
    BY <1>4, <1>11 DEF vars, coreVars, closeVars, writeVars, Move
  <1> QED
    BY <1>2, <1>3, <1>5, <1>6, <1>7, <1>8, <1>9, <1>10, <1>11
    DEF Next, MethodStep
-----------------------------------------------------------------------------
(* References. *)

InFlight(id) == \E i \in DOMAIN writesInFlight : writesInFlight[i] = id

(* Also after Close at most one write is with the poller.                  *)
OneWrite == Len(writesInFlight) <= 1

RefsCounted == \A id \in Ids : refs[id] = Once(Queued(id)) + Once(InFlight(id))

(* The requests before and after a submission and a completion.            *)
LEMMA SubmittedRequest ==
  ASSUME Inv, Submitted
  PROVE  /\ Head(queue).id \in Ids /\ ~InFlight(Head(queue).id)
         /\ OneWrite'
         /\ \A id : InFlight(id)' <=> InFlight(id) \/ id = Head(queue).id
  <1> DEFINE h == Head(queue).id
  <1>1. queue \in Seq(Datagram) /\ queue # <<>>
    BY DEF Inv, CoreInv, CoreTypeOK, Submitted
  <1>2. h \in Ids
    <2>1. Head(queue) \in Datagram
      BY <1>1
    <2> QED
      BY <2>1 DEF Datagram
  <1>3. writesInFlight = <<>>
    BY DEF Inv, WriteTypes, WriteMatches, Submitted
  <1>4. writesInFlight' = <<h>>
    BY <1>3 DEF Submitted
  <1> HIDE DEF h
  <1>5. \A id : ~InFlight(id)
    BY <1>3 DEF InFlight
  <1>6. \A id : InFlight(id)' <=> id = h
    <2>1. DOMAIN writesInFlight' = {1} /\ writesInFlight'[1] = h
      BY <1>4
    <2> QED
      BY <2>1 DEF InFlight
  <1>7. OneWrite'
    BY <1>4 DEF OneWrite
  <1> QED
    BY <1>2, <1>5, <1>6, <1>7 DEF h

LEMMA FinishedRequest ==
  ASSUME Inv, OneWrite, Finished
  PROVE  /\ Head(writesInFlight) \in Ids /\ InFlight(Head(writesInFlight))
         /\ OneWrite'
         /\ \A id : InFlight(id)' <=> InFlight(id) /\ id # Head(writesInFlight)
  <1>1. writesInFlight \in Seq(Ids) /\ writesInFlight # <<>> /\ writesInFlight' = Tail(writesInFlight)
    BY DEF Inv, WriteTypes, Finished
  <1>2. Len(writesInFlight) = 1 /\ Head(writesInFlight) = writesInFlight[1]
    BY <1>1 DEF OneWrite
  <1>3. Head(writesInFlight) \in Ids
    BY <1>1
  <1>4. DOMAIN writesInFlight = {1}
    BY <1>1, <1>2
  <1>5. writesInFlight' = <<>>
    BY <1>1, <1>2
  <1>6. \A id : ~InFlight(id)'
    BY <1>5 DEF InFlight
  <1>7. \A id : InFlight(id) <=> id = Head(writesInFlight)
    BY <1>2, <1>4 DEF InFlight
  <1> QED
    BY <1>3, <1>5, <1>6, <1>7 DEF OneWrite

(* Each of the moves keeps the count.                                      *)
LEMMA RefsStep ==
  ASSUME Inv, QueueInv, OneWrite, RefsCounted, Move
  PROVE  RefsCounted' /\ OneWrite'
  <1>1. refs \in [Ids -> Int] /\ CoreInv
    BY DEF Inv, CoreInv, CoreTypeOK
  <1>2. \A id \in Ids : refs[id] = Once(Queued(id)) + Once(InFlight(id))
    BY DEF RefsCounted
  <1>3. \A b : b \in BOOLEAN => Once(b) \in Int
    BY DEF Once
  <1>4. Once(TRUE) = 1 /\ Once(FALSE) = 0
    BY DEF Once
  <1>5. \A id : Queued(id) \in BOOLEAN /\ Queued(id)' \in BOOLEAN
                /\ InFlight(id) \in BOOLEAN /\ InFlight(id)' \in BOOLEAN
    BY Zenon DEF Queued, InFlight
  <1>6. CASE Accepted /\ UNCHANGED writesInFlight
    <2>1. /\ lastId + 1 \in Ids
          /\ refs' = [refs EXCEPT ![lastId + 1] = @ + 1]
          /\ ~Queued(lastId + 1)
          /\ \A id : Queued(id)' <=> Queued(id) \/ id = lastId + 1
      BY <1>1, <1>6, QueuedAfterAccept
    <2>2. ASSUME NEW id \in Ids
          PROVE  refs'[id] = Once(Queued(id)') + Once(InFlight(id)')
      <3>1. InFlight(id)' = InFlight(id)
        BY <1>6 DEF InFlight
      <3>2. refs'[id] = IF id = lastId + 1 THEN refs[id] + 1 ELSE refs[id]
        BY <1>1, <2>1
      <3>3. refs[id] = Once(Queued(id)) + Once(InFlight(id))
        BY <1>2
      <3>4. Queued(id)' = (Queued(id) \/ id = lastId + 1)
        BY <1>5, <2>1
      <3> QED
        BY <1>3, <1>4, <1>5, <2>1, <3>1, <3>2, <3>3, <3>4 DEF Once
    <2> QED
      BY <1>6, <2>2 DEF RefsCounted, OneWrite
  <1>7. CASE Dropped /\ UNCHANGED writesInFlight
    <2> DEFINE h == Head(queue).id
    <2>1. /\ h \in Ids
          /\ refs' = [refs EXCEPT ![h] = @ - 1]
          /\ Queued(h)
          /\ \A id : Queued(id)' <=> Queued(id) /\ id # h
      BY <1>1, <1>7, QueuedAfterDrop
    <2> HIDE DEF h
    <2>2. ASSUME NEW id \in Ids
          PROVE  refs'[id] = Once(Queued(id)') + Once(InFlight(id)')
      <3>1. InFlight(id)' = InFlight(id)
        BY <1>7 DEF InFlight
      <3>2. refs'[id] = IF id = h THEN refs[id] - 1 ELSE refs[id]
        BY <1>1, <2>1
      <3>3. refs[id] = Once(Queued(id)) + Once(InFlight(id))
        BY <1>2
      <3>4. Queued(id)' = (Queued(id) /\ id # h)
        BY <1>5, <2>1
      <3> QED
        BY <1>3, <1>4, <1>5, <2>1, <3>1, <3>2, <3>3, <3>4 DEF Once
    <2> QED
      BY <1>7, <2>2 DEF RefsCounted, OneWrite
  <1>8. CASE Quiet
    BY <1>8 DEF Quiet, QueueKept, RefsCounted, OneWrite, Queued, InFlight
  <1>9. CASE Submitted
    <2> DEFINE h == Head(queue).id
    <2>1. /\ h \in Ids /\ ~InFlight(h) /\ OneWrite'
          /\ \A id : InFlight(id)' <=> InFlight(id) \/ id = h
      BY <1>9, SubmittedRequest
    <2>2. refs' = [refs EXCEPT ![h] = @ + 1] /\ queue' = queue
      BY <1>9 DEF Submitted
    <2> HIDE DEF h
    <2>3. ASSUME NEW id \in Ids
          PROVE  refs'[id] = Once(Queued(id)') + Once(InFlight(id)')
      <3>1. Queued(id)' = Queued(id)
        BY <2>2 DEF Queued
      <3>2. refs'[id] = IF id = h THEN refs[id] + 1 ELSE refs[id]
        BY <1>1, <2>1, <2>2
      <3>3. refs[id] = Once(Queued(id)) + Once(InFlight(id))
        BY <1>2
      <3>4. InFlight(id)' = (InFlight(id) \/ id = h)
        BY <1>5, <2>1
      <3> QED
        BY <1>3, <1>4, <1>5, <2>1, <3>1, <3>2, <3>3, <3>4 DEF Once
    <2> QED
      BY <2>1, <2>3 DEF RefsCounted
  <1>10. CASE Finished
    <2> DEFINE h == Head(writesInFlight)
    <2>1. /\ h \in Ids /\ InFlight(h) /\ OneWrite'
          /\ \A id : InFlight(id)' <=> InFlight(id) /\ id # h
      BY <1>10, FinishedRequest
    <2>2. refs' = [refs EXCEPT ![h] = @ - 1] /\ queue' = queue
      BY <1>10 DEF Finished
    <2> HIDE DEF h
    <2>3. ASSUME NEW id \in Ids
          PROVE  refs'[id] = Once(Queued(id)') + Once(InFlight(id)')
      <3>1. Queued(id)' = Queued(id)
        BY <2>2 DEF Queued
      <3>2. refs'[id] = IF id = h THEN refs[id] - 1 ELSE refs[id]
        BY <1>1, <2>1, <2>2
      <3>3. refs[id] = Once(Queued(id)) + Once(InFlight(id))
        BY <1>2
      <3>4. InFlight(id)' = (InFlight(id) /\ id # h)
        BY <1>5, <2>1
      <3> QED
        BY <1>3, <1>4, <1>5, <2>1, <3>1, <3>2, <3>3, <3>4 DEF Once
    <2> QED
      BY <2>1, <2>3 DEF RefsCounted
  <1> QED
    BY <1>6, <1>7, <1>8, <1>9, <1>10 DEF Move

(* Every receive buffer that is referenced is that of a request.           *)
LEMMA ReadRefsStep ==
  ASSUME Inv, readRefs = readsInFlight, [Next]_vars
  PROVE  readRefs' = readsInFlight'
  <1>1. UNCHANGED readVars => readRefs' = readsInFlight'
    BY DEF readVars
  <1>2. ASSUME NEW rest, NEW failed, SubmitRead(rest, failed)
        PROVE  readRefs' = readsInFlight'
    BY <1>2 DEF SubmitRead, readVars
  <1>3. ASSUME NEW size \in Sizes, NEW addrOK \in AddrKinds, NEW valid \in BOOLEAN,
               Write(size, addrOK, valid)
        PROVE  readRefs' = readsInFlight'
    BY <1>1, <1>3 DEF Write
  <1>4. CASE Flush \/ Close \/ HandlerReturn \/ WrittenDequeue \/ WrittenNext \/ Closing
               \/ HandleCloseCompletion
    BY <1>1, <1>4 DEF Flush, Close, HandlerReturn, WrittenDequeue, WrittenNext, Closing,
                      HandleCloseCompletion
  <1>5. CASE Read \/ Arm \/ Rearm
    BY <1>1, <1>2, <1>5 DEF Read, Arm, Rearm
  <1>6. ASSUME NEW outcome \in ReadOutcomes, HandleReadCompletion(outcome)
        PROVE  readRefs' = readsInFlight'
    BY <1>6 DEF HandleReadCompletion
  <1>7. ASSUME NEW err \in BOOLEAN, HandleWriteCompletion(err)
        PROVE  readRefs' = readsInFlight'
    BY <1>1, <1>7 DEF HandleWriteCompletion
  <1>8. CASE UNCHANGED vars
    BY <1>1, <1>8 DEF vars
  <1> QED
    BY <1>3, <1>4, <1>5, <1>6, <1>7, <1>8 DEF Next, MethodStep

-----------------------------------------------------------------------------
(* Close. *)

(* Only Close and what it leaves on the stack move an endpoint that is     *)
(* being closed.                                                           *)
LEMMA ClosingMove ==
  ASSUME Inv, ClosingInv, [Next]_vars
  PROVE  ClosingInv'
  <1>1. stack \in Seq(Frame) /\ CoreFrame \subseteq Frame /\ CoreInv
    <2>1. stack \in Seq(Frame)
      <3>1. stack \in Seq(Frame) \/ stack \in Seq(Frame \ {CloseFrame})
        BY StackIsFrames
      <3> QED
        BY <3>1
    <2> QED
      BY <2>1 DEF Inv, Frame
  <1>2. ASSUME UNCHANGED <<queue, closeVars>>,
               \/ ~closed
               \/ \E op : op \notin {"cb", "close"} /\ Running(op)
               \/ stack' = stack
               \/ stack = <<>>
        PROVE  ClosingInv'
    <2>1. Released => queue' = <<>>
      BY <1>2 DEF Released
    <2> QED
      BY <1>1, <1>2, <2>1, ClosingKept
  <1>3. ASSUME NEW size \in Sizes, NEW addrOK \in AddrKinds, NEW valid \in BOOLEAN,
               Write(size, addrOK, valid)
        PROVE  ClosingInv'
    BY <1>1, <1>3, ClosingWrite DEF Write
  <1>4. CASE Flush \/ Read
    BY <1>2, <1>4 DEF Flush, Read, queueVars
  <1>5. CASE Close
    <2>1. CloseCall(stack)
      BY <1>5 DEF Close, CoreClose
    <2> QED
      BY <1>1, <2>1, ClosingCall
  <1>6. CASE HandlerReturn
    BY <1>1, <1>6, ClosingReturn DEF HandlerReturn
  <1>7. CASE WrittenDequeue
    <2>1. ~closed
      BY <1>7, AtDequeue DEF WrittenDequeue
    <2>2. UNCHANGED closeVars /\ (Released => queue' = <<>>)
      BY <1>7 DEF WrittenDequeue, Released, Dequeue, queueVars
    <2> QED
      BY <1>1, <2>1, <2>2, ClosingKept
  <1>8. CASE Arm \/ Rearm \/ WrittenNext
    <2>1. /\ Running("arm") \/ Running("rearm") \/ Running("written")
          /\ UNCHANGED <<queue, closeVars>>
      BY <1>8 DEF Arm, Rearm, WrittenNext, queueVars
    <2>2. "arm" \notin {"cb", "close"} /\ "rearm" \notin {"cb", "close"}
          /\ "written" \notin {"cb", "close"}
      OBVIOUS
    <2> QED
      BY <1>2, <2>1, <2>2
  <1>9. CASE Closing
    <2>1. CASE DoClose
      <3>1. Running("doClose") /\ CloseCall(Tail(stack))
        BY <2>1 DEF DoClose
      <3>2. Tail(stack) \in Seq(Frame)
        BY <1>1, <3>1, PopFrame
      <3> QED
        BY <1>1, <3>1, <3>2, ClosingCall
    <2>2. CASE CloseStep
      BY <1>1, <2>2, ClosedWhenClosing, ClosingStep
    <2> QED
      BY <1>9, <2>1, <2>2 DEF Closing
  <1>10. ASSUME NEW outcome \in ReadOutcomes, HandleReadCompletion(outcome)
         PROVE  ClosingInv'
    BY <1>2, <1>10 DEF HandleReadCompletion, queueVars
  <1>11. ASSUME NEW err \in BOOLEAN, HandleWriteCompletion(err)
         PROVE  ClosingInv'
    BY <1>2, <1>11 DEF HandleWriteCompletion
  <1>12. CASE HandleCloseCompletion
    <2>1. CloseCall(<<>>) /\ stack = <<>> /\ <<>> \in Seq(Frame)
      BY <1>12 DEF HandleCloseCompletion
    <2> QED
      BY <1>1, <2>1, ClosingCall
  <1>13. CASE UNCHANGED vars
    BY <1>2, <1>13 DEF vars, coreVars, queueVars
  <1> QED
    BY <1>3, <1>4, <1>5, <1>6, <1>7, <1>8, <1>9, <1>10, <1>11, <1>12, <1>13
    DEF Next, MethodStep
-----------------------------------------------------------------------------
(* The read that stays armed. *)

(* Frames that will submit a read, or close.                               *)
Rearming == {ArmFrame, RearmFrame(TRUE), RearmFrame(FALSE), DoCloseFrame}

Due(s) == \E i \in 1 .. Len(s) : s[i] \in Rearming

(* An open endpoint without an outstanding read has such a frame on its    *)
(* stack.                                                                  *)
Armed == ~closed /\ autoRead /\ ~armFailed /\ ~readPending => Due(stack)

(* What is due on a stack that grew or was popped.                         *)
LEMMA DueBelow ==
  ASSUME NEW F, NEW p \in Seq(F), NEW s \in Seq(F), Due(p) \/ Due(s)
  PROVE  Due(p \o s)
  <1>1. /\ Len(p) \in Nat /\ Len(s) \in Nat /\ Len(p \o s) = Len(p) + Len(s)
        /\ \A i \in 1 .. Len(p) : (p \o s)[i] = p[i]
        /\ \A i \in 1 .. Len(s) : (p \o s)[Len(p) + i] = s[i]
    OBVIOUS
  <1>2. CASE Due(p)
    <2>1. PICK i \in 1 .. Len(p) : p[i] \in Rearming
      BY <1>2 DEF Due
    <2>2. i \in 1 .. Len(p) + Len(s)
      BY <1>1
    <2> QED
      BY <1>1, <2>1, <2>2 DEF Due
  <1>3. CASE Due(s)
    <2>1. PICK i \in 1 .. Len(s) : s[i] \in Rearming
      BY <1>3 DEF Due
    <2>2. Len(p) + i \in 1 .. Len(p) + Len(s)
      BY <1>1
    <2> QED
      BY <1>1, <2>1, <2>2 DEF Due
  <1> QED
    BY <1>2, <1>3

LEMMA DuePopped ==
  ASSUME NEW F, NEW s \in Seq(F), s # <<>>, Due(s), Head(s) \notin Rearming
  PROVE  Due(Tail(s))
  <1>1. PICK i \in 1 .. Len(s) : s[i] \in Rearming
    BY DEF Due
  <1>2. /\ Len(s) \in Nat \ {0} /\ Len(Tail(s)) = Len(s) - 1
        /\ \A j \in 1 .. Len(s) - 1 : Tail(s)[j] = s[j + 1]
        /\ Head(s) = s[1]
    BY TailElements
  <1>3. i - 1 \in 1 .. Len(s) - 1 /\ i - 1 + 1 = i
    BY <1>1, <1>2
  <1>4. Tail(s)[i - 1] = s[i]
    BY <1>2, <1>3
  <1> QED
    BY <1>1, <1>2, <1>3, <1>4 DEF Due

(* A frame on top that is due. *)
LEMMA DueOnTop ==
  ASSUME NEW F, NEW s \in Seq(F), NEW f \in F \cap Rearming
  PROVE  Due(<<f>> \o s)
  <1>1. <<f>> \in Seq(F) /\ Due(<<f>>)
    BY DEF Due
  <1> QED
    BY <1>1, DueBelow

(* FailAndClose leaves a Close that is due.                                *)
LEMMA DueAfterFailure ==
  ASSUME NEW F, PlainFrame \subseteq F, NEW s \in Seq(F)
  PROVE  Due(FailAndClose(s))
  <1> DEFINE f == Cb("exception")
             g == DoCloseFrame
  <1>1. f \in F /\ g \in F /\ g \in Rearming
    BY PlainFrames DEF CbKinds, Rearming
  <1>2. FailAndClose(s) = <<f, g>> \o s
    BY DEF FailAndClose
  <1> HIDE DEF f, g
  <1>3. <<f, g>> \in Seq(F) /\ Due(<<f, g>>)
    BY <1>1 DEF Due
  <1> QED
    BY <1>2, <1>3, DueBelow

(* updateWritability, and dequeue with it, only push a handler.            *)
LEMMA DueAfterUpdate ==
  ASSUME NEW F, PlainFrame \subseteq F, NEW s \in Seq(F), Due(s),
         stack' = s \/ stack' = <<Cb("writability")>> \o s
  PROVE  Due(stack')
  <1> DEFINE f == Cb("writability")
  <1>1. f \in F
    BY PlainFrames DEF CbKinds
  <1> HIDE DEF f
  <1>2. <<f>> \in Seq(F)
    BY <1>1
  <1>3. Due(<<f>> \o s)
    BY <1>2, DueBelow
  <1> QED
    BY <1>3 DEF f

(* A frame of another method than those is not due. *)
LEMMA NotDue ==
  ASSUME Running("cb") \/ Running("written")
  PROVE  Head(stack) \notin Rearming
  BY DEF Running, Rearming, ArmFrame, RearmFrame, DoCloseFrame

(* A read completes, its next one is submitted, or a handler runs: while   *)
(* the endpoint is open the read is outstanding or due.                    *)
LEMMA ArmedStep ==
  ASSUME Inv, Armed, [Next]_vars
  PROVE  Armed'
  <1> SUFFICES ASSUME ~closed', autoRead', ~armFailed', ~readPending'
               PROVE  Due(stack')
    BY DEF Armed
  <1>1. FrameSet(BusyFrame) /\ PlainFrame \subseteq BusyFrame
    BY MethodFrames DEF FrameSet, OpenFrame
  <1>2. stack # <<ToDequeue>> => stack \in Seq(BusyFrame)
    BY StackIsBusy DEF Busy
  <1>3. UNCHANGED <<readPending, closed, modeVars>> => Due(stack)
    BY DEF modeVars, Armed
  <1>4. ASSUME NEW size \in Sizes, NEW addrOK \in AddrKinds, NEW valid \in BOOLEAN,
               Write(size, addrOK, valid)
        PROVE  Due(stack')
    <2>1. Due(stack)
      BY <1>3, <1>4 DEF Write, CoreWrite, readVars, closeVars
    <2>2. stack \in Seq(BusyFrame)
      BY <1>2, <1>4, OffDequeue DEF Write, CoreWrite
    <2>3. stack' = stack \/ stack' = <<Cb("writability")>> \o stack
      BY <1>4 DEF Write, CoreWrite, Enqueue, UpdateWritability
    <2> QED
      BY <1>1, <2>1, <2>2, <2>3, DueAfterUpdate
  <1>5. CASE Flush
    <2>1. stack' = stack
      BY <1>5 DEF Flush, SubmitWrite
    <2> QED
      BY <1>3, <1>5, <2>1 DEF Flush, readVars, closeVars
  <1>6. CASE Read
    <2>1. stack' = stack /\ readPending' = readPending
      BY <1>6 DEF Read, SubmitRead, readVars
    <2> QED
      BY <1>3, <1>6, <2>1 DEF Read, closeVars
  <1>7. CASE Arm
    BY <1>7 DEF Arm, closeVars
  <1>8. CASE Rearm
    <2>1. stack \in Seq(BusyFrame) /\ Running("rearm")
      BY <1>2, <1>8, OffDequeue DEF Rearm
    <2>2. Tail(stack) \in Seq(BusyFrame)
      BY <2>1, PopFrame
    <2>3. autoRead /\ ~closed
      BY <1>8 DEF Rearm, modeVars, closeVars
    <2>4. CASE Head(stack).complete
      <3> DEFINE f == Cb("readComplete")
                 g == RearmFrame(FALSE)
      <3>1. stack' = <<f, g>> \o Tail(stack)
        BY <1>8, <2>4 DEF Rearm
      <3>2. f \in BusyFrame /\ g \in BusyFrame /\ g \in Rearming
        BY <1>1, MethodFrames, PlainFrames DEF CbKinds, Rearming
      <3> HIDE DEF f, g
      <3>3. <<f, g>> \in Seq(BusyFrame) /\ Due(<<f, g>>)
        BY <3>2 DEF Due
      <3> QED
        BY <2>2, <3>1, <3>3, DueBelow
    <2>5. CASE ~Head(stack).complete
      <3>1. SubmitRead(Tail(stack), FailAndClose(Tail(stack)))
        BY <1>8, <2>3, <2>5 DEF Rearm
      <3>2. readPending => readPending'
        BY <3>1 DEF SubmitRead, readVars
      <3>3. stack' = FailAndClose(Tail(stack))
        BY <2>3, <3>1, <3>2 DEF SubmitRead
      <3> QED
        BY <1>1, <2>2, <3>3, DueAfterFailure
    <2> QED
      BY <2>4, <2>5
  <1>9. CASE Close \/ Closing \/ HandleCloseCompletion
    <2>1. closed'
      <3>1. ASSUME NEW rest, CloseCall(rest)
            PROVE  closed'
        BY <3>1 DEF CloseCall
      <3>2. CASE CloseStep
        BY <3>2, ClosedWhenClosing DEF CloseStep
      <3> QED
        BY <1>9, <3>1, <3>2 DEF Close, CoreClose, Closing, DoClose, HandleCloseCompletion
    <2> QED
      BY <2>1
  <1>10. CASE HandlerReturn
    <2>1. Due(stack) /\ Running("cb") /\ stack' = Tail(stack)
      BY <1>3, <1>10 DEF HandlerReturn, CbReturn, readVars, closeVars
    <2>2. stack \in Seq(BusyFrame) /\ stack # <<>>
      BY <1>2, <2>1, OffDequeue DEF Running
    <2> QED
      BY <2>1, <2>2, NotDue, DuePopped
  <1>11. CASE WrittenDequeue
    <2>1. stack = <<ToDequeue>>
      BY <1>11, AtDequeue DEF WrittenDequeue
    <2>2. Due(stack)
      BY <1>3, <1>11 DEF WrittenDequeue, readVars, closeVars
    <2>3. ToDequeue \in Rearming
      BY <2>1, <2>2 DEF Due
    <2> QED
      BY <2>3 DEF ToDequeue, WrittenFrame, Rearming, ArmFrame, RearmFrame, DoCloseFrame
  <1>12. CASE WrittenNext
    <2>1. Due(stack) /\ Running("written") /\ Head(stack).dequeued
      BY <1>3, <1>12 DEF WrittenNext, readVars, closeVars
    <2>2. stack # <<ToDequeue>>
      BY <2>1 DEF ToDequeue, WrittenFrame
    <2>3. stack \in Seq(BusyFrame) /\ stack # <<>>
      BY <1>2, <2>1, <2>2 DEF Running
    <2>4. Due(Tail(stack)) /\ Tail(stack) \in Seq(BusyFrame)
      BY <2>1, <2>3, NotDue, DuePopped, PopFrame
    <2>5. \/ stack' = Tail(stack)
          \/ stack' = FailAndClose(Tail(stack))
          \/ stack' = <<Cb("flushComplete")>> \o Tail(stack)
      BY <1>12 DEF WrittenNext, SubmitWrite
    <2>6. Due(<<Cb("flushComplete")>> \o Tail(stack))
      <3> DEFINE f == Cb("flushComplete")
      <3>1. f \in BusyFrame
        BY <1>1, PlainFrames DEF CbKinds
      <3> HIDE DEF f
      <3>2. <<f>> \in Seq(BusyFrame)
        BY <3>1
      <3>3. Due(<<f>> \o Tail(stack))
        BY <2>4, <3>2, DueBelow
      <3> QED
        BY <3>3 DEF f
    <2>7. Due(FailAndClose(Tail(stack)))
      BY <1>1, <2>4, DueAfterFailure
    <2> QED
      BY <2>4, <2>5, <2>6, <2>7
  <1>13. ASSUME NEW outcome \in ReadOutcomes, HandleReadCompletion(outcome)
         PROVE  Due(stack')
    <2>1. stack' = AfterRead(outcome)
      BY <1>13 DEF HandleReadCompletion, closeVars
    <2>2. outcome \in {"datagram", "nothing", "error"}
      BY <1>13 DEF ReadOutcomes
    <2>3. Due(FailAndClose(<<>>))
      <3>1. <<>> \in Seq(BusyFrame)
        OBVIOUS
      <3> QED
        BY <1>1, <3>1, DueAfterFailure
    <2> DEFINE f == Cb("read")
               g == RearmFrame(TRUE)
               h == RearmFrame(FALSE)
    <2>4. \/ AfterRead(outcome) = <<f, g>>
          \/ AfterRead(outcome) = <<h>>
          \/ AfterRead(outcome) = FailAndClose(<<>>)
      BY <2>2, Zenon DEF AfterRead
    <2>5. g \in Rearming /\ h \in Rearming
      BY DEF Rearming
    <2> HIDE DEF f, g, h
    <2>6. Due(<<f, g>>) /\ Due(<<h>>)
      BY <2>5 DEF Due
    <2> QED
      BY <2>1, <2>3, <2>4, <2>6
  <1>14. ASSUME NEW err \in BOOLEAN, HandleWriteCompletion(err)
         PROVE  Due(stack')
    <2>1. Due(stack) /\ stack = <<>>
      BY <1>3, <1>14 DEF HandleWriteCompletion, readVars, closeVars
    <2> QED
      BY <2>1 DEF Due
  <1>15. CASE UNCHANGED vars
    BY <1>3, <1>15 DEF vars, coreVars, readVars, closeVars
  <1> QED
    BY <1>4, <1>5, <1>6, <1>7, <1>8, <1>9, <1>10, <1>11, <1>12, <1>13, <1>14, <1>15
    DEF Next, MethodStep

-----------------------------------------------------------------------------
(* The refinement. *)

(* Between a completed write and its dequeue the socket has the head.      *)
SentInv == IF stack = <<ToDequeue>> THEN SentPrefix(1) ELSE SentPrefix(0)

(* Each move is a step of the channel or leaves it alone.                  *)
LEMMA ChannelStep ==
  ASSUME Inv, Inv', QueueInv, WireInv, SentInv, Move
  PROVE  SentInv' /\ WireInv' /\ (Channel!ChanNext \/ UNCHANGED <<Unsent, wire, closed>>)
  <1>1. CoreInv /\ CoreInv' /\ (Busy => stack # <<ToDequeue>>) /\ (Busy' => stack' # <<ToDequeue>>)
    BY BusyIsOff, BusyIsOffNext DEF Inv
  <1>2. CASE Accepted /\ Busy /\ Busy'
    <2>1. SentPrefix(0)
      BY <1>1, <1>2 DEF SentInv
    <2>2. SentPrefix(0)' /\ WireInv' /\ Channel!ChanNext
      BY <1>1, <1>2, <2>1, ChannelAccepts
    <2> QED
      BY <1>1, <1>2, <2>2 DEF SentInv
  <1>3. CASE Dropped /\ Busy' /\ UNCHANGED closed /\ (closed \/ stack = <<ToDequeue>>)
    <2>1. CASE stack = <<ToDequeue>>
      <3>1. SentPrefix(1)
        BY <2>1 DEF SentInv
      <3>2. /\ SentPrefix(0)' /\ WireInv'
            /\ Channel!ChanNext \/ UNCHANGED <<Unsent, wire, closed>>
        BY <1>1, <1>3, <3>1, ChannelDrops
      <3> QED
        BY <1>1, <1>3, <3>2 DEF SentInv
    <2>2. CASE stack # <<ToDequeue>>
      <3>1. SentPrefix(0) /\ closed
        BY <1>3, <2>2 DEF SentInv
      <3>2. /\ SentPrefix(0)' /\ WireInv'
            /\ Channel!ChanNext \/ UNCHANGED <<Unsent, wire, closed>>
        BY <1>1, <1>3, <3>1, ChannelDrops
      <3> QED
        BY <1>1, <1>3, <3>2 DEF SentInv
    <2> QED
      BY <2>1, <2>2
  <1>4. ASSUME UNCHANGED <<queue, wire>>, lastId' \in {lastId, lastId + 1},
               closed' \in {closed, TRUE}, NEW k, SentPrefix(k)
        PROVE  /\ SentPrefix(k)' /\ WireInv'
               /\ Channel!ChanNext \/ UNCHANGED <<Unsent, wire, closed>>
    BY <1>1, <1>4, ChannelRests
  <1>5. CASE Quiet /\ (stack' = stack \/ (Busy' /\ (Busy \/ queue = <<>>)))
    <2>1. /\ UNCHANGED <<queue, wire>> /\ lastId' \in {lastId, lastId + 1}
          /\ closed' \in {closed, TRUE}
      BY <1>5 DEF Quiet, QueueKept
    <2>2. CASE stack = <<ToDequeue>>
      <3>1. SentPrefix(1)
        BY <2>2 DEF SentInv
      <3>2. queue # <<>>
        BY <3>1 DEF SentPrefix
      <3>3. stack' = stack
        BY <1>1, <1>5, <2>2, <3>2
      <3> QED
        BY <1>4, <2>1, <2>2, <3>1, <3>3 DEF SentInv
    <2>3. CASE stack # <<ToDequeue>>
      <3>1. SentPrefix(0)
        BY <2>3 DEF SentInv
      <3>2. stack' # <<ToDequeue>>
        BY <1>1, <1>5, <2>3
      <3> QED
        BY <1>4, <2>1, <3>1, <3>2 DEF SentInv
    <2> QED
      BY <2>2, <2>3
  <1>6. CASE Submitted /\ Busy /\ Busy'
    <2>1. /\ UNCHANGED <<queue, wire>> /\ lastId' \in {lastId, lastId + 1}
          /\ closed' \in {closed, TRUE}
      BY <1>6 DEF Submitted
    <2>2. SentPrefix(0)
      BY <1>1, <1>6 DEF SentInv
    <2>3. /\ SentPrefix(0)' /\ WireInv'
          /\ Channel!ChanNext \/ UNCHANGED <<Unsent, wire, closed>>
      BY <1>4, <2>1, <2>2
    <2> QED
      BY <1>1, <1>6, <2>3 DEF SentInv
  <1>7. CASE Finished /\ Busy' /\ UNCHANGED wire
    <2>1. /\ UNCHANGED <<queue, wire>> /\ lastId' \in {lastId, lastId + 1}
          /\ closed' \in {closed, TRUE} /\ stack # <<ToDequeue>>
      BY <1>7 DEF Finished
    <2>2. SentPrefix(0)
      BY <2>1 DEF SentInv
    <2>3. /\ SentPrefix(0)' /\ WireInv'
          /\ Channel!ChanNext \/ UNCHANGED <<Unsent, wire, closed>>
      BY <1>4, <2>1, <2>2
    <2> QED
      BY <1>1, <1>7, <2>3 DEF SentInv
  <1>8. CASE Finished /\ Sent
    <2>1. /\ ~closed /\ stack # <<ToDequeue>> /\ stack' = <<ToDequeue>>
          /\ UNCHANGED <<queue, lastId, closed>>
          /\ wire' = Append(wire, Head(writesInFlight))
      BY <1>8 DEF Finished, Sent
    <2>2. SentPrefix(0)
      BY <2>1 DEF SentInv
    <2>3. queue # <<>> /\ Head(queue).id = Head(writesInFlight)
      <3>1. Len(writesInFlight) # 0
        BY <1>8 DEF Finished, Inv, WriteTypes
      <3>2. writePending
        BY <2>1, <3>1 DEF Inv, WriteMatches
      <3> QED
        BY <2>1, <3>2 DEF Inv, WriteMatches
    <2>4. 1 \in 1 .. Len(queue) /\ queue[1].id = Head(writesInFlight)
      BY <1>1, <2>3 DEF CoreInv, CoreTypeOK
    <2>5. wire' = wire \o [i \in 1 .. 1 |-> queue[i].id]
      <3> DEFINE t == [i \in 1 .. 1 |-> queue[i].id]
                 h == Head(writesInFlight)
      <3>1. t = <<h>>
        BY <2>4
      <3>2. wire \in Seq(Ids) /\ h \in Ids
        <4>1. Len(queue) \in Nat /\ queue[1].id \in Ids
          BY <1>1, <2>4, Numbers DEF Numbered
        <4> QED
          BY <1>1, <2>4, <4>1 DEF CoreInv, CoreTypeOK
      <3> HIDE DEF t, h
      <3>3. Append(wire, h) = wire \o <<h>>
        BY <3>2, AppendIsConcat
      <3> QED
        BY <2>1, <3>1, <3>3 DEF h, t
    <2>6. SentPrefix(1)' /\ WireInv' /\ Channel!ChanNext
      BY <1>1, <2>1, <2>2, <2>4, <2>5, ChannelTransmits
    <2> QED
      BY <2>1, <2>6 DEF SentInv
  <1> QED
    BY <1>2, <1>3, <1>5, <1>6, <1>7, <1>8 DEF Move

-----------------------------------------------------------------------------
(* The invariant of the queue and of the buffers. *)

OutInv ==
  /\ Inv /\ QueueInv /\ ClosingInv /\ Armed
  /\ OneWrite /\ RefsCounted /\ readRefs = readsInFlight
  /\ WireInv /\ SentInv

LEMMA OutInvInit == Init => OutInv /\ Channel!ChanInit
  <1> SUFFICES ASSUME Init
               PROVE  OutInv /\ Channel!ChanInit
    OBVIOUS
  <1>1. CoreInit(<<ArmFrame>>) /\ writesInFlight = <<>> /\ readRefs = readsInFlight
    BY DEF Init
  <1>2. RefsCounted /\ OneWrite
    BY <1>1 DEF CoreInit, RefsCounted, Queued, InFlight, Once, OneWrite
  <1>3. ClosingInv
    BY <1>1 DEF CoreInit, ClosingInv
  <1>4. Inv /\ QueueInv /\ SentPrefix(0) /\ WireInv /\ Channel!ChanInit
    BY <1>1, InvInit, QueueInitInv, ChannelStarts
  <1>5. Len(stack) = 2 /\ stack[2] = ArmFrame
    BY <1>1 DEF CoreInit
  <1>6. Armed
    <2>1. 2 \in 1 .. Len(stack) /\ ArmFrame \in Rearming
      BY <1>5 DEF Rearming
    <2> QED
      BY <1>5, <2>1 DEF Armed, Due
  <1>7. SentInv
    <2>1. Len(<<ToDequeue>>) = 1
      OBVIOUS
    <2> QED
      BY <1>4, <1>5, <2>1 DEF SentInv
  <1> QED
    BY <1>1, <1>2, <1>3, <1>4, <1>6, <1>7 DEF OutInv

(* Each step keeps it and is a step of the channel. *)
LEMMA OutInvNext ==
  OutInv /\ [Next]_vars => OutInv' /\ (Channel!ChanNext \/ UNCHANGED <<Unsent, wire, closed>>)
  <1> SUFFICES ASSUME OutInv, [Next]_vars
               PROVE  OutInv' /\ (Channel!ChanNext \/ UNCHANGED <<Unsent, wire, closed>>)
    OBVIOUS
  <1>1. /\ Inv /\ QueueInv /\ ClosingInv /\ Armed /\ OneWrite /\ RefsCounted
        /\ readRefs = readsInFlight /\ WireInv /\ SentInv /\ CoreInv
    BY DEF OutInv, Inv
  <1>2. Inv'
    BY <1>1, InvNext
  <1>3. Move
    BY <1>1, Moves
  <1>4. QueueInv'
    <2>1. Accepted \/ Dropped \/ QueueKept
      BY <1>3 DEF Move, Quiet, Submitted, Finished, QueueKept
    <2> QED
      BY <1>1, <2>1, QueueStep
  <1>5. RefsCounted' /\ OneWrite'
    BY <1>1, <1>3, RefsStep
  <1>6. ClosingInv' /\ Armed' /\ readRefs' = readsInFlight'
    BY <1>1, ClosingMove, ArmedStep, ReadRefsStep
  <1>7. SentInv' /\ WireInv' /\ (Channel!ChanNext \/ UNCHANGED <<Unsent, wire, closed>>)
    BY <1>1, <1>2, <1>3, ChannelStep
  <1> QED
    BY <1>2, <1>4, <1>5, <1>6, <1>7 DEF OutInv

(* Every reachable state satisfies the invariant. *)
THEOREM OutInvariance == Spec => []OutInv
  BY OutInvInit, OutInvNext, PTL DEF Spec

(* No buffer is leaked or released twice: a payload has a reference of the *)
(* queue while queued and one of the poller while its request is in        *)
(* flight, a receive buffer one per request, also when Close overtakes     *)
(* the requests and their completions come late.                           *)
THEOREM ReferencesAccounted == Spec => []BuffersAccounted
  <1>1. OutInv => BuffersAccounted
    BY DEF OutInv, RefsCounted, InFlight, BuffersAccounted
  <1> QED
    BY <1>1, OutInvariance, PTL

(* With AutoRead an open endpoint whose loop is between two tasks has a    *)
(* read outstanding.                                                       *)
THEOREM ReadStaysArmed == Spec => []ReadArmed
  <1>1. OutInv => ReadArmed
    <2> SUFFICES ASSUME OutInv, ~closed, autoRead, ~armFailed, stack = <<>>, ~readPending
                 PROVE  FALSE
      BY DEF ReadArmed
    <2>1. Due(stack) /\ Len(stack) = 0
      BY DEF OutInv, Armed
    <2> QED
      BY <2>1 DEF Due
  <1> QED
    BY <1>1, OutInvariance, PTL

(* PendingOutboundBytes is the sum of the sizes of the queued datagrams.   *)
THEOREM BytesNeverDrift == Spec => []BytesMatchQueue
  <1>1. OutInv => BytesMatchQueue
    BY BytesFollow DEF OutInv, Inv
  <1> QED
    BY <1>1, OutInvariance, PTL

(* Close is complete when it returns to the loop.                          *)
THEOREM CloseCompletes == Spec => []ClosedIsFinal
  <1>1. OutInv => ClosedIsFinal
    BY ClosedFollows DEF OutInv, Inv
  <1> QED
    BY <1>1, OutInvariance, PTL

(* The endpoint on a completion poller implements DatagramChannel: what    *)
(* Write accepted goes to the socket in order and at most once, and leaves *)
(* the queue unsent only after Close, however completions, failures,       *)
(* handlers and Close interleave.                                          *)
THEOREM CompletionImplementsChannel == Spec => ImplementsChannel
  <1>1. Init => Channel!ChanInit
    BY OutInvInit
  <1>2. OutInv /\ [Next]_vars => [Channel!ChanNext]_<<Unsent, wire, ~closed>>
    <2>1. UNCHANGED <<Unsent, wire, closed>> => UNCHANGED <<Unsent, wire, ~closed>>
      OBVIOUS
    <2> QED
      BY <2>1, OutInvNext
  <1> QED
    BY <1>1, <1>2, OutInvariance, PTL
    DEF Spec, ImplementsChannel, Channel!ChanSpec, Channel!chanVars
=============================================================================
