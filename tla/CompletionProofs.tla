-------------------------- MODULE CompletionProofs --------------------------
(***************************************************************************)
(* Type correctness of CompletionEndpoint, and that its pending flags      *)
(* mirror the requests the poller holds, for every interleaving of         *)
(* completions, handlers and Close.                                        *)
(*                                                                         *)
(* Between the two halves of handleWriteCompletion (before dequeue) no     *)
(* handler can run and no write is outstanding; Inv says so by keeping     *)
(* the frame of that point alone on the stack.                             *)
(***************************************************************************)
EXTENDS CompletionEndpoint, EndpointCoreProofs, SequenceTheorems

ToDequeue == WrittenFrame(FALSE)
BusyFrame == Frame \ {ToDequeue}
OpenFrame == BusyFrame \ {CloseFrame}

FrameSet(F) == OpenFrame \subseteq F /\ F \subseteq BusyFrame

StackInv ==
  \/ stack = <<ToDequeue>> /\ ~closed /\ ~writePending
  \/ stack \in Seq(IF closed THEN BusyFrame ELSE OpenFrame)

Busy == stack \in Seq(BusyFrame)

ReadTypes ==
  /\ readPending \in BOOLEAN
  /\ readsInFlight \in Nat
  /\ readRefs \in Int
  /\ reads \in 0 .. MaxReads

WriteTypes ==
  /\ writePending \in BOOLEAN
  /\ writesInFlight \in Seq(Ids)

ModeTypes == autoRead \in BOOLEAN /\ armFailed \in BOOLEAN

(* RequestsMatchFlags, apart for the two kinds of requests.                *)
ReadMatches == ~closed => readsInFlight = IF readPending THEN 1 ELSE 0
WriteMatches ==
  ~closed => /\ Len(writesInFlight) = IF writePending THEN 1 ELSE 0
             /\ writePending => queue # <<>> /\ Head(queue).id = Head(writesInFlight)

Inv ==
  /\ CoreInv /\ StackInv
  /\ ReadTypes /\ WriteTypes /\ ModeTypes
  /\ ReadMatches /\ WriteMatches

-----------------------------------------------------------------------------
(* Frames. *)

(* A frame that may run on an open endpoint, other than that of the point  *)
(* before dequeue, is in every set of frames.                              *)
LEMMA MethodFrames ==
  ASSUME NEW F, FrameSet(F)
  PROVE  /\ PlainFrame \subseteq F
         /\ ArmFrame \in F
         /\ RearmFrame(TRUE) \in F /\ RearmFrame(FALSE) \in F
         /\ WrittenFrame(TRUE) \in F
  <1>1. PlainFrame \subseteq OpenFrame
    BY DEF PlainFrame, OpenFrame, BusyFrame, Frame, ToDequeue, WrittenFrame, CoreFrame, Cb,
           CloseFrame, DoCloseFrame
  <1>2. ArmFrame \in OpenFrame
    BY DEF ArmFrame, OpenFrame, BusyFrame, Frame, ToDequeue, WrittenFrame, CloseFrame
  <1>3. RearmFrame(TRUE) \in OpenFrame /\ RearmFrame(FALSE) \in OpenFrame
    BY DEF RearmFrame, OpenFrame, BusyFrame, Frame, ToDequeue, WrittenFrame, CloseFrame
  <1>4. WrittenFrame(TRUE) \in OpenFrame
    <2>1. WrittenFrame(TRUE) \in Frame
      BY DEF WrittenFrame, Frame
    <2>2. WrittenFrame(TRUE).dequeued = TRUE /\ ToDequeue.dequeued = FALSE
      BY DEF WrittenFrame, ToDequeue
    <2>3. WrittenFrame(TRUE) # CloseFrame
      BY DEF WrittenFrame, CloseFrame
    <2> QED
      BY <2>1, <2>2, <2>3 DEF OpenFrame, BusyFrame
  <1> QED
    BY <1>1, <1>2, <1>3, <1>4 DEF FrameSet

(* A busy frame of handleWriteCompletion is past its dequeue.              *)
LEMMA CoreFrames == CoreFrame \subseteq BusyFrame
  BY DEF BusyFrame, Frame, ToDequeue, WrittenFrame, CoreFrame, Cb, CloseFrame, DoCloseFrame

(* Off the point before dequeue the stack is made of other frames.         *)
LEMMA Settled ==
  ASSUME Inv, stack # <<ToDequeue>>
  PROVE  stack \in Seq(IF closed THEN BusyFrame ELSE OpenFrame)
  BY DEF Inv, StackInv

(* Where a task, a handler or a method other than handleWriteCompletion    *)
(* runs is off that point.                                                 *)
LEMMA OffDequeue ==
  ASSUME CanCall \/ Running("cb") \/ Running("arm") \/ Running("rearm") \/ Running("close")
           \/ Running("doClose")
  PROVE  stack # <<ToDequeue>>
  <1> SUFFICES ASSUME stack = <<ToDequeue>>
               PROVE  FALSE
    OBVIOUS
  <1>1. stack # <<>> /\ Head(stack).op = "written"
    BY DEF ToDequeue, WrittenFrame
  <1> QED
    BY <1>1 DEF CanCall, Running

(* The busy frames bound the stack off that point. *)
LEMMA StackIsBusy ==
  ASSUME Inv, stack # <<ToDequeue>>
  PROVE  Busy
  <1>1. CASE closed
    BY <1>1, Settled DEF Busy
  <1>2. CASE ~closed
    <2>1. stack \in Seq(OpenFrame)
      BY <1>2, Settled
    <2> QED
      BY <2>1 DEF OpenFrame, Busy
  <1>3. closed \in BOOLEAN
    BY DEF Inv, CoreInv, CoreTypeOK
  <1> QED
    BY <1>1, <1>2

(* A step that leaves closed alone and starts off that point stays off it  *)
(* when it stays within the set of frames it started from.                 *)
LEMMA StackKept ==
  ASSUME Inv, closed' = closed, stack # <<ToDequeue>>,
         \A F : FrameSet(F) /\ stack \in Seq(F) => stack' \in Seq(F)
  PROVE  StackInv' /\ Busy'
  <1>1. FrameSet(BusyFrame) /\ FrameSet(OpenFrame)
    BY DEF FrameSet, OpenFrame
  <1>2. stack \in Seq(IF closed THEN BusyFrame ELSE OpenFrame)
    BY Settled
  <1>3. stack' \in Seq(IF closed' THEN BusyFrame ELSE OpenFrame)
    BY <1>1, <1>2
  <1>4. stack' \in Seq(BusyFrame)
    BY <1>1, StackIsBusy DEF Busy
  <1> QED
    BY <1>3, <1>4 DEF StackInv, Busy

-----------------------------------------------------------------------------
(* Requests. *)

(* submitReadCompletion keeps the flag and the number of read requests in  *)
(* step, whether the poller takes the request or not.                      *)
LEMMA SubmitReadStep ==
  ASSUME Inv, NEW F, NEW rest \in Seq(F), NEW failed \in Seq(F), SubmitRead(rest, failed),
         closed' = closed
  PROVE  stack' \in Seq(F) /\ ReadTypes' /\ ReadMatches'
  <1>1. CASE closed \/ readPending
    <2>1. stack' = rest /\ UNCHANGED readVars
      BY <1>1 DEF SubmitRead
    <2> QED
      BY <2>1 DEF readVars, Inv, ReadTypes, ReadMatches
  <1>2. CASE ~(closed \/ readPending)
    <2>1. CASE UNCHANGED readVars /\ stack' = failed
      BY <2>1 DEF readVars, Inv, ReadTypes, ReadMatches
    <2>2. CASE /\ readPending' = TRUE
               /\ readsInFlight' = readsInFlight + 1
               /\ readRefs' = readRefs + 1
               /\ stack' = rest
               /\ UNCHANGED reads
      <3>1. readsInFlight = 0
        BY <1>2 DEF Inv, ReadMatches
      <3> QED
        BY <2>2, <3>1 DEF Inv, ReadTypes, ReadMatches
    <2> QED
      BY <1>2, <2>1, <2>2 DEF SubmitRead
  <1> QED
    BY <1>1, <1>2

(* submitWriteCompletion likewise; the request is that of the queue head.  *)
LEMMA SubmitWriteStep ==
  ASSUME Inv, NEW F, NEW rest \in Seq(F), NEW failed \in Seq(F), SubmitWrite(rest, failed),
         UNCHANGED <<queue, outboundBytes, writable, closeVars, lastId, wire>>
  PROVE  stack' \in Seq(F) /\ WriteTypes' /\ WriteMatches' /\ CoreInv'
  <1>1. closed' = closed /\ queue' = queue
    BY DEF closeVars
  <1>2. CASE UNCHANGED <<writeVars, refs>> /\ stack' \in {rest, failed}
    <2>1. CoreInv'
      BY <1>2, CoreUntouched DEF queueVars, Inv, CoreInv, CoreTypeOK
    <2> QED
      BY <1>1, <1>2, <2>1 DEF writeVars, Inv, WriteTypes, WriteMatches
  <1>3. CASE /\ ~NoWriteToStart
             /\ writePending' = TRUE
             /\ writesInFlight' = Append(writesInFlight, Head(queue).id)
             /\ refs' = [refs EXCEPT ![Head(queue).id] = @ + 1]
             /\ stack' = rest
    <2>1. ~closed /\ ~writePending /\ queue # <<>>
      BY <1>3 DEF NoWriteToStart
    <2>2. Head(queue).id \in Ids
      <3>1. queue \in Seq(Datagram)
        BY DEF Inv, CoreInv, CoreTypeOK
      <3>2. Head(queue) \in Datagram
        BY <2>1, <3>1
      <3> QED
        BY <3>2 DEF Datagram
    <2>3. writesInFlight = <<>>
      BY <2>1 DEF Inv, WriteTypes, WriteMatches
    <2>4. writesInFlight' = <<Head(queue).id>>
      BY <1>3, <2>3
    <2>5. refs' \in [Ids -> Int]
      <3>1. refs \in [Ids -> Int]
        BY DEF Inv, CoreInv, CoreTypeOK
      <3>2. refs[Head(queue).id] + 1 \in Int
        BY <2>2, <3>1
      <3> QED
        BY <1>3, <2>2, <3>1, <3>2
    <2>6. CoreInv'
      BY <2>5 DEF Inv, CoreInv, CoreTypeOK, closeVars, WatermarkHysteresis, ReleasedBeforeClosed
    <2>7. WriteTypes' /\ WriteMatches'
      <3> DEFINE id == Head(queue).id
      <3>1. writesInFlight' = <<id>> /\ id \in Ids
        BY <2>2, <2>4
      <3> HIDE DEF id
      <3>2. writesInFlight' \in Seq(Ids) /\ Len(writesInFlight') = 1 /\ Head(writesInFlight') = id
        BY <3>1
      <3>3. Head(queue').id = id /\ queue' # <<>>
        BY <1>1, <2>1 DEF id
      <3> QED
        BY <1>3, <3>2, <3>3 DEF WriteTypes, WriteMatches
    <2> QED
      BY <1>3, <2>6, <2>7
  <1> QED
    BY <1>2, <1>3 DEF SubmitWrite

(* A step that leaves the requests of one kind and the queue alone.        *)
LEMMA ReadsUntouched ==
  ASSUME Inv, UNCHANGED readVars, closed' = closed \/ closed'
  PROVE  ReadTypes' /\ ReadMatches'
  BY DEF Inv, ReadTypes, ReadMatches, readVars

LEMMA WritesUntouched ==
  ASSUME Inv, UNCHANGED writeVars, (closed' = closed /\ queue' = queue) \/ closed'
  PROVE  WriteTypes' /\ WriteMatches'
  BY DEF Inv, WriteTypes, WriteMatches, writeVars

-----------------------------------------------------------------------------
(* Steps of the requests. *)

LEMMA FlushStep ==
  ASSUME Inv, Flush
  PROVE  Inv' /\ Busy'
  <1>1. /\ SubmitWrite(stack, stack)
        /\ UNCHANGED <<queue, outboundBytes, writable, closeVars, lastId, wire, readVars, modeVars>>
        /\ CanCall
    BY DEF Flush
  <1>2. closed' = closed /\ stack # <<ToDequeue>>
    BY <1>1, OffDequeue DEF closeVars
  <1>3. ASSUME NEW F, FrameSet(F), stack \in Seq(F)
        PROVE  stack' \in Seq(F) /\ WriteTypes' /\ WriteMatches' /\ CoreInv'
    BY <1>1, <1>3, SubmitWriteStep
  <1>4. WriteTypes' /\ WriteMatches' /\ CoreInv'
    BY <1>2, <1>3, StackIsBusy DEF Busy, FrameSet, OpenFrame
  <1>5. StackInv' /\ Busy'
    BY <1>2, <1>3, StackKept
  <1>6. ReadTypes' /\ ReadMatches' /\ ModeTypes'
    BY <1>1, <1>2, ReadsUntouched DEF modeVars, Inv, ModeTypes
  <1> QED
    BY <1>4, <1>5, <1>6 DEF Inv

(* Every step that only submits a read, from Read, from the registration   *)
(* closure or after a completion.                                          *)
LEMMA SubmitOnlyStep ==
  ASSUME Inv, UNCHANGED <<queueVars, closeVars, lastId, wire, writeVars>>, ModeTypes',
         stack # <<ToDequeue>>,
         \A F : FrameSet(F) /\ stack \in Seq(F) => stack' \in Seq(F),
         ReadTypes', ReadMatches'
  PROVE  Inv' /\ Busy'
  <1>1. closed' = closed /\ queue' = queue
    BY DEF closeVars, queueVars
  <1>2. CoreInv'
    BY CoreUntouched DEF Inv, CoreInv, CoreTypeOK
  <1>3. WriteTypes' /\ WriteMatches'
    BY <1>1, WritesUntouched
  <1>4. StackInv' /\ Busy'
    BY <1>1, StackKept
  <1> QED
    BY <1>2, <1>3, <1>4 DEF Inv

LEMMA ReadCallStep ==
  ASSUME Inv, Read
  PROVE  Inv' /\ Busy'
  <1>1. /\ SubmitRead(stack, stack)
        /\ UNCHANGED <<queueVars, closeVars, lastId, wire, writeVars, modeVars>>
        /\ CanCall
    BY DEF Read
  <1>2. closed' = closed /\ stack # <<ToDequeue>> /\ ModeTypes'
    BY <1>1, OffDequeue DEF closeVars, modeVars, Inv, ModeTypes
  <1>3. ASSUME NEW F, FrameSet(F), stack \in Seq(F)
        PROVE  stack' \in Seq(F) /\ ReadTypes' /\ ReadMatches'
    BY <1>1, <1>2, <1>3, SubmitReadStep
  <1>4. ReadTypes' /\ ReadMatches'
    BY <1>2, <1>3, StackIsBusy DEF Busy, FrameSet, OpenFrame
  <1> QED
    BY <1>1, <1>2, <1>3, <1>4, SubmitOnlyStep

LEMMA ArmStep ==
  ASSUME Inv, Arm
  PROVE  Inv' /\ Busy'
  <1>1. Running("arm") /\ UNCHANGED <<queueVars, closeVars, lastId, wire, writeVars, autoRead>>
    BY DEF Arm
  <1>2. closed' = closed /\ stack # <<ToDequeue>>
    BY <1>1, OffDequeue DEF closeVars
  <1>3. ModeTypes'
    <2>1. armFailed' \in BOOLEAN
      BY DEF Arm, Inv, ModeTypes, readVars
    <2> QED
      BY <1>1, <2>1 DEF Inv, ModeTypes
  <1>4. ASSUME NEW F, FrameSet(F), stack \in Seq(F)
        PROVE  stack' \in Seq(F) /\ ReadTypes' /\ ReadMatches'
    <2>1. Tail(stack) \in Seq(F)
      BY <1>1, <1>4, PopFrame
    <2>2. CASE autoRead
      BY <1>2, <2>1, <2>2, SubmitReadStep DEF Arm
    <2>3. CASE ~autoRead
      <3>1. stack' = Tail(stack) /\ UNCHANGED readVars
        BY <2>3 DEF Arm
      <3> QED
        BY <1>2, <2>1, <3>1, ReadsUntouched
    <2> QED
      BY <2>2, <2>3
  <1>5. ReadTypes' /\ ReadMatches'
    BY <1>2, <1>4, StackIsBusy DEF Busy, FrameSet, OpenFrame
  <1> QED
    BY <1>1, <1>2, <1>3, <1>4, <1>5, SubmitOnlyStep

LEMMA RearmStep ==
  ASSUME Inv, Rearm
  PROVE  Inv' /\ Busy'
  <1>1. Running("rearm") /\ UNCHANGED <<queueVars, closeVars, lastId, wire, writeVars, modeVars>>
    BY DEF Rearm
  <1>2. closed' = closed /\ stack # <<ToDequeue>> /\ ModeTypes'
    BY <1>1, OffDequeue DEF closeVars, modeVars, Inv, ModeTypes
  <1>3. ASSUME NEW F, FrameSet(F), stack \in Seq(F)
        PROVE  stack' \in Seq(F) /\ ReadTypes' /\ ReadMatches'
    <2>1. Tail(stack) \in Seq(F)
      BY <1>1, <1>3, PopFrame
    <2>2. PlainFrame \subseteq F /\ RearmFrame(FALSE) \in F
      BY <1>3, MethodFrames
    <2>3. CASE Head(stack).complete
      <3> DEFINE f == RearmFrame(FALSE)
                 g == Cb("readComplete")
      <3>1. stack' = <<g, f>> \o Tail(stack) /\ UNCHANGED readVars
        BY <2>3 DEF Rearm
      <3>2. f \in F /\ g \in F
        BY <2>2, PlainFrames DEF CbKinds
      <3> HIDE DEF f, g
      <3>3. stack' \in Seq(F)
        BY <2>1, <3>1, <3>2
      <3> QED
        BY <1>2, <3>1, <3>3, ReadsUntouched
    <2>4. CASE ~Head(stack).complete /\ autoRead
      <3>1. FailAndClose(Tail(stack)) \in Seq(F)
        BY <2>1, <2>2, FailAndCloseType
      <3> QED
        BY <1>2, <2>1, <2>4, <3>1, SubmitReadStep DEF Rearm
    <2>5. CASE ~Head(stack).complete /\ ~autoRead
      <3>1. stack' = Tail(stack) /\ UNCHANGED readVars
        BY <2>5 DEF Rearm
      <3> QED
        BY <1>2, <2>1, <3>1, ReadsUntouched
    <2> QED
      BY <2>3, <2>4, <2>5
  <1>4. ReadTypes' /\ ReadMatches'
    BY <1>2, <1>3, StackIsBusy DEF Busy, FrameSet, OpenFrame
  <1> QED
    BY <1>1, <1>2, <1>3, <1>4, SubmitOnlyStep

(* What handleReadCompletion goes on with is a stack of plain frames and   *)
(* of its own.                                                             *)
LEMMA AfterReadType ==
  ASSUME NEW F, FrameSet(F), NEW outcome \in ReadOutcomes
  PROVE  AfterRead(outcome) \in Seq(F)
  <1> DEFINE f == RearmFrame(TRUE)
             g == RearmFrame(FALSE)
             h == Cb("read")
  <1>1. f \in F /\ g \in F /\ h \in F
    BY MethodFrames, PlainFrames DEF CbKinds
  <1>2. FailAndClose(<<>>) \in Seq(F)
    <2>1. <<>> \in Seq(F)
      OBVIOUS
    <2> QED
      BY <2>1, MethodFrames, FailAndCloseType
  <1>3. outcome \in {"datagram", "nothing", "error"}
    BY DEF ReadOutcomes
  <1>4. \/ AfterRead(outcome) = <<h, f>>
        \/ AfterRead(outcome) = <<g>>
        \/ AfterRead(outcome) = FailAndClose(<<>>)
    BY <1>3, Zenon DEF AfterRead
  <1> HIDE DEF f, g, h
  <1>5. <<h, f>> \in Seq(F) /\ <<g>> \in Seq(F)
    BY <1>1
  <1> QED
    BY <1>2, <1>4, <1>5

LEMMA ReadCompletionStep ==
  ASSUME Inv, NEW outcome \in ReadOutcomes, HandleReadCompletion(outcome)
  PROVE  Inv' /\ Busy'
  <1>1. /\ stack = <<>> /\ readsInFlight > 0
        /\ closed \/ reads < MaxReads
        /\ reads' = IF closed THEN reads ELSE reads + 1
        /\ readsInFlight' = readsInFlight - 1
        /\ readRefs' = readRefs - 1
        /\ readPending' = (closed /\ readPending)
        /\ UNCHANGED <<queueVars, closeVars, lastId, wire, writeVars, modeVars>>
    BY DEF HandleReadCompletion
  <1>2. stack' = IF closed THEN stack ELSE AfterRead(outcome)
    BY DEF HandleReadCompletion
  <1>3. closed' = closed /\ stack # <<ToDequeue>> /\ ModeTypes'
    BY <1>1 DEF closeVars, modeVars, Inv, ModeTypes
  <1>4. ReadTypes'
    <2>1. readPending' \in BOOLEAN
      BY <1>1
    <2>2. readsInFlight' \in Nat /\ readRefs' \in Int /\ reads' \in 0 .. MaxReads
      BY <1>1, CompletionAssumption DEF Inv, ReadTypes
    <2> QED
      BY <2>1, <2>2 DEF ReadTypes
  <1>5. ReadMatches'
    <2>1. CASE closed
      BY <1>3, <2>1 DEF ReadMatches
    <2>2. CASE ~closed
      <3>1. readsInFlight = IF readPending THEN 1 ELSE 0
        BY <2>2 DEF Inv, ReadMatches
      <3>2. readsInFlight = 1
        BY <1>1, <3>1
      <3>3. ~readPending'
        BY <1>1, <2>2
      <3>4. readsInFlight' = 0
        BY <1>1, <3>2
      <3> QED
        BY <3>3, <3>4 DEF ReadMatches
    <2> QED
      BY <2>1, <2>2
  <1>6. ASSUME NEW F, FrameSet(F), stack \in Seq(F)
        PROVE  stack' \in Seq(F)
    BY <1>2, <1>6, AfterReadType
  <1> QED
    BY <1>1, <1>3, <1>4, <1>5, <1>6, SubmitOnlyStep

LEMMA WriteCompletionStep ==
  ASSUME Inv, NEW err \in BOOLEAN, HandleWriteCompletion(err)
  PROVE  Inv' /\ (closed \/ err => Busy')
  <1>1. /\ stack = <<>> /\ writesInFlight # <<>>
        /\ writesInFlight' = Tail(writesInFlight)
        /\ writePending' = (closed /\ writePending)
        /\ UNCHANGED <<queue, outboundBytes, writable, closeVars, lastId, readVars, modeVars>>
    BY DEF HandleWriteCompletion
  <1>2. /\ refs' = [refs EXCEPT ![Head(writesInFlight)] = @ - 1]
        /\ stack' = IF closed THEN stack ELSE AfterWrite(err)
        /\ wire' = IF closed \/ err THEN wire ELSE Append(wire, Head(writesInFlight))
    BY DEF HandleWriteCompletion, ReleaseEvent
  <1>3. closed' = closed /\ queue' = queue /\ stack # <<ToDequeue>>
    BY <1>1 DEF closeVars
  <1>4. Head(writesInFlight) \in Ids /\ Tail(writesInFlight) \in Seq(Ids)
    BY <1>1 DEF Inv, WriteTypes
  <1>5. CoreInv'
    <2>1. refs \in [Ids -> Int] /\ wire \in Seq(Ids)
      BY DEF Inv, CoreInv, CoreTypeOK
    <2>2. refs[Head(writesInFlight)] - 1 \in Int
      BY <1>4, <2>1
    <2>3. refs' \in [Ids -> Int]
      BY <1>2, <1>4, <2>1, <2>2
    <2>4. wire' \in Seq(Ids)
      BY <1>2, <1>4, <2>1
    <2> QED
      BY <1>1, <2>3, <2>4
      DEF Inv, CoreInv, CoreTypeOK, closeVars, WatermarkHysteresis, ReleasedBeforeClosed
  <1>6. writePending' \in BOOLEAN /\ (~closed => ~writePending')
    BY <1>1
  <1>7. WriteTypes'
    BY <1>1, <1>4, <1>6 DEF WriteTypes
  <1>8. WriteMatches'
    <2>1. CASE closed
      BY <1>3, <2>1 DEF WriteMatches
    <2>2. CASE ~closed
      <3>1. Len(writesInFlight) = 1
        <4>1. Len(writesInFlight) = IF writePending THEN 1 ELSE 0
          BY <2>2 DEF Inv, WriteMatches
        <4>2. Len(writesInFlight) # 0
          BY <1>1 DEF Inv, WriteTypes
        <4> QED
          BY <4>1, <4>2
      <3>2. Len(writesInFlight') = 0
        BY <1>1, <3>1 DEF Inv, WriteTypes
      <3> QED
        BY <1>6, <2>2, <3>2 DEF WriteMatches
    <2> QED
      BY <2>1, <2>2
  <1>9. StackInv' /\ (closed \/ err => Busy')
    <2>1. CASE closed \/ err
      <3>1. ASSUME NEW F, FrameSet(F), stack \in Seq(F)
            PROVE  stack' \in Seq(F)
        BY <1>2, <2>1, <3>1, MethodFrames, FailAndCloseType, <1>1 DEF AfterWrite
      <3> QED
        BY <1>3, <3>1, StackKept
    <2>2. CASE ~(closed \/ err)
      <3>1. stack' = <<ToDequeue>>
        BY <1>2, <2>2 DEF AfterWrite, ToDequeue
      <3> QED
        BY <1>3, <1>6, <2>2, <3>1 DEF StackInv
    <2> QED
      BY <2>1, <2>2
  <1>10. ReadTypes' /\ ReadMatches' /\ ModeTypes'
    BY <1>1, <1>3, ReadsUntouched DEF modeVars, Inv, ModeTypes
  <1> QED
    BY <1>5, <1>7, <1>8, <1>9, <1>10 DEF Inv

(* Where that point is on the stack it is alone there.                     *)
LEMMA AtDequeue ==
  ASSUME Inv, Running("written"), ~Head(stack).dequeued
  PROVE  stack = <<ToDequeue>> /\ ~closed /\ ~writePending
  <1> SUFFICES ASSUME stack \in Seq(IF closed THEN BusyFrame ELSE OpenFrame)
               PROVE  FALSE
    BY DEF Inv, StackInv
  <1>1. stack \in Seq(BusyFrame)
    <2>1. CASE closed
      BY <2>1
    <2>2. CASE ~closed
      <3>1. stack \in Seq(OpenFrame)
        BY <2>2
      <3> QED
        BY <3>1 DEF OpenFrame
    <2> QED
      BY <2>1, <2>2
  <1>2. Head(stack) \in BusyFrame /\ Head(stack).op = "written"
    BY <1>1 DEF Running
  <1>3. Head(stack) \in [op : {"written"}, dequeued : BOOLEAN]
    BY <1>2
    DEF BusyFrame, Frame, CoreFrame, Cb, CloseFrame, DoCloseFrame, ArmFrame, RearmFrame
  <1>4. Head(stack) = WrittenFrame(FALSE)
    <2>1. Head(stack).dequeued = FALSE
      BY <1>3
    <2> QED
      BY <1>3, <2>1 DEF WrittenFrame
  <1> QED
    BY <1>2, <1>4 DEF BusyFrame, ToDequeue

(* dequeue after a completion: no write is outstanding, so the head that   *)
(* it removes is not that of another request.                              *)
LEMMA WrittenDequeueStep ==
  ASSUME Inv, WrittenDequeue
  PROVE  Inv' /\ Busy'
  <1> DEFINE f == WrittenFrame(TRUE)
             rest == <<f>> \o Tail(stack)
  <1>1. /\ Running("written") /\ ~Head(stack).dequeued
        /\ UNCHANGED <<closeVars, lastId, wire, writeVars, readVars, modeVars>>
    BY DEF WrittenDequeue
  <1>2. Dequeue(rest)
    BY DEF WrittenDequeue
  <1>3. stack = <<ToDequeue>> /\ ~closed /\ ~writePending
    BY <1>1, AtDequeue
  <1>4. closed' = closed
    BY <1>1 DEF closeVars
  <1>5. rest \in Seq(OpenFrame)
    <2>1. f \in OpenFrame
      BY MethodFrames, Zenon DEF FrameSet, OpenFrame
    <2>2. Tail(stack) = <<>>
      BY <1>3
    <2>3. <<>> \in Seq(OpenFrame)
      OBVIOUS
    <2>4. Tail(stack) \in Seq(OpenFrame)
      BY <2>2, <2>3, Zenon
    <2> HIDE DEF f
    <2> QED
      BY <2>1, <2>4, PushFrame
  <1>6. CoreInv' /\ stack' \in Seq(OpenFrame)
    <2>1. PlainFrame \subseteq OpenFrame
      BY MethodFrames DEF FrameSet, OpenFrame
    <2> HIDE DEF rest
    <2> QED
      BY <1>1, <1>2, <1>5, <2>1, DequeuePreserves DEF Inv
  <1>7. StackInv' /\ Busy'
    BY <1>3, <1>4, <1>6 DEF StackInv, Busy, OpenFrame
  <1>8. WriteTypes' /\ WriteMatches'
    BY <1>1, <1>3, <1>4 DEF writeVars, Inv, WriteTypes, WriteMatches
  <1>9. ReadTypes' /\ ReadMatches' /\ ModeTypes'
    BY <1>1, <1>4, ReadsUntouched DEF modeVars, Inv, ModeTypes
  <1> QED
    BY <1>6, <1>7, <1>8, <1>9 DEF Inv

LEMMA WrittenNextStep ==
  ASSUME Inv, WrittenNext
  PROVE  Inv' /\ Busy'
  <1>1. /\ Running("written") /\ Head(stack).dequeued
        /\ UNCHANGED <<queue, outboundBytes, writable, closeVars, lastId, wire, readVars, modeVars>>
    BY DEF WrittenNext
  <1>2. closed' = closed /\ stack # <<ToDequeue>>
    <2>1. stack # <<ToDequeue>>
      BY <1>1 DEF ToDequeue, WrittenFrame
    <2> QED
      BY <1>1, <2>1 DEF closeVars
  <1>3. ASSUME NEW F, FrameSet(F), stack \in Seq(F)
        PROVE  stack' \in Seq(F) /\ WriteTypes' /\ WriteMatches' /\ CoreInv'
    <2>1. Tail(stack) \in Seq(F)
      BY <1>1, <1>3, PopFrame
    <2>2. PlainFrame \subseteq F
      BY <1>3, MethodFrames
    <2>3. CASE queue # <<>>
      <3>1. FailAndClose(Tail(stack)) \in Seq(F)
        BY <2>1, <2>2, FailAndCloseType
      <3>2. SubmitWrite(Tail(stack), FailAndClose(Tail(stack)))
        BY <2>3 DEF WrittenNext
      <3> QED
        BY <1>1, <2>1, <3>1, <3>2, SubmitWriteStep
    <2>4. CASE queue = <<>>
      <3> DEFINE g == Cb("flushComplete")
      <3>1. stack' = <<g>> \o Tail(stack) /\ UNCHANGED <<writeVars, refs>>
        BY <2>4 DEF WrittenNext
      <3>2. g \in F
        BY <2>2, PlainFrames DEF CbKinds
      <3> HIDE DEF g
      <3>3. stack' \in Seq(F)
        BY <2>1, <3>1, <3>2
      <3>4. CoreInv'
        BY <1>1, <3>1, CoreUntouched DEF queueVars, Inv, CoreInv, CoreTypeOK
      <3> QED
        BY <1>1, <1>2, <3>1, <3>3, <3>4, WritesUntouched
    <2> QED
      BY <2>3, <2>4
  <1>4. WriteTypes' /\ WriteMatches' /\ CoreInv'
    BY <1>2, <1>3, StackIsBusy DEF Busy, FrameSet, OpenFrame
  <1>5. StackInv' /\ Busy'
    BY <1>2, <1>3, StackKept
  <1>6. ReadTypes' /\ ReadMatches' /\ ModeTypes'
    BY <1>1, <1>2, ReadsUntouched DEF modeVars, Inv, ModeTypes
  <1> QED
    BY <1>4, <1>5, <1>6 DEF Inv

-----------------------------------------------------------------------------
(* Steps of the shared part. *)

LEMMA WriteStep ==
  ASSUME Inv, NEW size \in Sizes, NEW addrOK \in AddrKinds, NEW valid \in BOOLEAN,
         Write(size, addrOK, valid)
  PROVE  Inv' /\ Busy'
  <1>1. CoreWrite(size, addrOK, valid) /\ UNCHANGED <<readVars, writeVars, modeVars>>
    BY DEF Write
  <1>2. UNCHANGED <<closeVars, wire>> /\ CanCall
    BY <1>1 DEF CoreWrite
  <1>3. closed' = closed /\ stack # <<ToDequeue>>
    BY <1>2, OffDequeue DEF closeVars
  <1>4. ASSUME NEW F, FrameSet(F), stack \in Seq(F)
        PROVE  CoreInv' /\ stack' \in Seq(F)
    BY <1>1, <1>4, MethodFrames, CoreWritePreserves DEF Inv
  <1>5. CoreInv'
    BY <1>3, <1>4, StackIsBusy DEF Busy, FrameSet, OpenFrame
  <1>6. StackInv' /\ Busy'
    BY <1>3, <1>4, StackKept
  <1>7. WriteTypes' /\ WriteMatches'
    <2>1. queue # <<>> => queue' # <<>> /\ Head(queue') = Head(queue)
      <3>1. queue \in Seq(Datagram)
        BY DEF Inv, CoreInv, CoreTypeOK
      <3>2. queue' = queue \/ \E d : queue' = Append(queue, d)
        BY <1>1 DEF CoreWrite, Enqueue, queueVars
      <3> QED
        BY <3>1, <3>2
    <2> QED
      BY <1>1, <1>3, <2>1 DEF writeVars, Inv, WriteTypes, WriteMatches
  <1>8. ReadTypes' /\ ReadMatches' /\ ModeTypes'
    BY <1>1, <1>3, ReadsUntouched DEF modeVars, Inv, ModeTypes
  <1> QED
    BY <1>5, <1>6, <1>7, <1>8 DEF Inv

(* Every call of Close. *)
LEMMA CloseCallStep ==
  ASSUME Inv, NEW rest \in Seq(BusyFrame), CloseCall(rest),
         UNCHANGED <<readVars, writeVars, modeVars>>
  PROVE  Inv' /\ Busy'
  <1>1. closed' = TRUE
    BY DEF CloseCall
  <1>2. CoreInv' /\ stack' \in Seq(BusyFrame)
    BY CoreFrames, CloseCallPreserves DEF Inv
  <1>3. StackInv' /\ Busy'
    BY <1>1, <1>2 DEF StackInv, Busy
  <1>4. /\ WriteTypes' /\ WriteMatches' /\ ReadTypes' /\ ReadMatches'
        /\ ModeTypes'
    BY <1>1, ReadsUntouched, WritesUntouched DEF modeVars, Inv, ModeTypes
  <1> QED
    BY <1>2, <1>3, <1>4 DEF Inv

(* The rest of Close runs on a closed endpoint only.                       *)
LEMMA ClosedWhenClosing ==
  ASSUME Inv, CloseStep
  PROVE  closed
  <1> SUFFICES ASSUME ~closed
               PROVE  FALSE
    OBVIOUS
  <1>1. stack \in Seq(OpenFrame)
    BY OffDequeue, Settled DEF CloseStep
  <1>2. Head(stack) \in OpenFrame /\ Head(stack).op = "close"
    BY <1>1, PopFrame DEF Running, CloseStep
  <1>3. Head(stack) = CloseFrame
    BY <1>2
    DEF OpenFrame, BusyFrame, Frame, CoreFrame, Cb, CloseFrame, DoCloseFrame, ArmFrame
  <1> QED
    BY <1>2, <1>3 DEF OpenFrame

(* The rest of Close, a released datagram or the end at a time.            *)
LEMMA CloseRestStep ==
  ASSUME Inv, CloseStep, UNCHANGED <<readVars, writeVars, modeVars>>
  PROVE  Inv' /\ Busy'
  <1>1. Running("close") /\ closed' = closed
    BY DEF CloseStep
  <1>2. stack # <<ToDequeue>>
    BY <1>1, OffDequeue
  <1>3. closed
    BY ClosedWhenClosing
  <1>4. PlainFrame \subseteq BusyFrame
    BY CoreFrames DEF PlainFrame
  <1>5. CoreInv' /\ stack' \in Seq(BusyFrame)
    BY <1>2, <1>3, <1>4, StackIsBusy, CloseStepPreserves DEF Inv, Busy
  <1>6. StackInv' /\ Busy'
    BY <1>1, <1>3, <1>5 DEF StackInv, Busy
  <1>7. /\ WriteTypes' /\ WriteMatches' /\ ReadTypes' /\ ReadMatches'
        /\ ModeTypes'
    BY <1>1, <1>3, ReadsUntouched, WritesUntouched DEF modeVars, Inv, ModeTypes
  <1> QED
    BY <1>5, <1>6, <1>7 DEF Inv

(* Close, however it is called, and what it leaves on the stack.           *)
LEMMA ClosingSteps ==
  ASSUME Inv, Close \/ Closing \/ HandleCloseCompletion
  PROVE  Inv' /\ Busy'
  <1>1. CASE Close
    <2>1. /\ CanCall /\ CloseCall(stack)
          /\ UNCHANGED <<readVars, writeVars, modeVars>>
      BY <1>1 DEF Close, CoreClose
    <2>2. stack \in Seq(BusyFrame)
      BY <2>1, OffDequeue, StackIsBusy DEF Busy
    <2> QED
      BY <2>1, <2>2, CloseCallStep
  <1>2. CASE Closing
    <2>1. UNCHANGED <<readVars, writeVars, modeVars>>
      BY <1>2 DEF Closing
    <2>2. CASE DoClose
      <3>1. Running("doClose") /\ CloseCall(Tail(stack))
        BY <2>2 DEF DoClose
      <3>2. Tail(stack) \in Seq(BusyFrame)
        BY <3>1, OffDequeue, StackIsBusy, PopFrame DEF Busy
      <3> QED
        BY <2>1, <3>1, <3>2, CloseCallStep
    <2>3. CASE CloseStep
      BY <2>1, <2>3, CloseRestStep
    <2> QED
      BY <1>2, <2>2, <2>3 DEF Closing
  <1>3. CASE HandleCloseCompletion
    <2>1. CloseCall(<<>>) /\ UNCHANGED <<readVars, writeVars, modeVars>>
      BY <1>3 DEF HandleCloseCompletion
    <2>2. <<>> \in Seq(BusyFrame)
      OBVIOUS
    <2> QED
      BY <2>1, <2>2, CloseCallStep
  <1> QED
    BY <1>1, <1>2, <1>3

(* A handler returns. *)
LEMMA ReturnStep ==
  ASSUME Inv, HandlerReturn
  PROVE  Inv' /\ Busy'
  <1>1. /\ Running("cb") /\ stack' = Tail(stack)
        /\ UNCHANGED <<queueVars, closeVars, lastId, wire, readVars, writeVars, modeVars>>
    BY DEF HandlerReturn, CbReturn
  <1>2. closed' = closed /\ queue' = queue /\ stack # <<ToDequeue>>
    BY <1>1, OffDequeue DEF closeVars, queueVars
  <1>3. ASSUME NEW F, FrameSet(F), stack \in Seq(F)
        PROVE  stack' \in Seq(F)
    BY <1>1, <1>3, PopFrame
  <1>4. ReadTypes' /\ ReadMatches' /\ ModeTypes'
    BY <1>1, <1>2, ReadsUntouched DEF modeVars, Inv, ModeTypes
  <1> QED
    BY <1>1, <1>2, <1>3, <1>4, SubmitOnlyStep

-----------------------------------------------------------------------------
(* The invariant. *)

LEMMA InvInit == Init => Inv
  <1> SUFFICES ASSUME Init
               PROVE  Inv
    OBVIOUS
  <1>1. PlainFrame \subseteq OpenFrame /\ ArmFrame \in OpenFrame
    BY MethodFrames DEF FrameSet, OpenFrame
  <1>2. <<ArmFrame>> \in Seq(OpenFrame)
    BY <1>1
  <1>3. CoreInit(<<ArmFrame>>)
    BY DEF Init
  <1>4. CoreInv /\ stack \in Seq(OpenFrame)
    BY <1>1, <1>2, <1>3, CoreInitInv
  <1>5. closed = FALSE
    BY <1>3 DEF CoreInit
  <1>6. StackInv
    BY <1>4, <1>5 DEF StackInv
  <1>7. ReadTypes /\ WriteTypes /\ ModeTypes
    <2>1. ReadTypes
      <3>1. readPending \in BOOLEAN
        BY Zenon DEF Init
      <3>2. readsInFlight \in Nat /\ readRefs \in Int /\ reads \in 0 .. MaxReads
        BY CompletionAssumption DEF Init
      <3> QED
        BY <3>1, <3>2 DEF ReadTypes
    <2>2. WriteTypes
      <3>1. writePending \in BOOLEAN
        BY Zenon DEF Init
      <3>2. writesInFlight \in Seq(Ids)
        BY DEF Init
      <3> QED
        BY <3>1, <3>2 DEF WriteTypes
    <2>3. ModeTypes
      BY CompletionAssumption DEF Init, ModeTypes
    <2> QED
      BY <2>1, <2>2, <2>3
  <1>8. ReadMatches /\ WriteMatches
    BY DEF Init, ReadMatches, WriteMatches
  <1> QED
    BY <1>4, <1>6, <1>7, <1>8 DEF Inv

(* Each action keeps the invariant. *)
LEMMA InvNext == Inv /\ [Next]_vars => Inv'
  <1> SUFFICES ASSUME Inv, [Next]_vars
               PROVE  Inv'
    OBVIOUS
  <1>1. ASSUME NEW size \in Sizes, NEW addrOK \in AddrKinds, NEW valid \in BOOLEAN,
               Write(size, addrOK, valid)
        PROVE  Inv'
    BY <1>1, WriteStep
  <1>2. CASE Flush
    BY <1>2, FlushStep
  <1>3. CASE Read
    BY <1>3, ReadCallStep
  <1>4. CASE Close
    BY <1>4, ClosingSteps
  <1>5. CASE HandlerReturn
    BY <1>5, ReturnStep
  <1>6. CASE Arm
    BY <1>6, ArmStep
  <1>7. CASE Rearm
    BY <1>7, RearmStep
  <1>8. CASE WrittenDequeue
    BY <1>8, WrittenDequeueStep
  <1>9. CASE WrittenNext
    BY <1>9, WrittenNextStep
  <1>10. CASE Closing
    BY <1>10, ClosingSteps
  <1>11. ASSUME NEW outcome \in ReadOutcomes, HandleReadCompletion(outcome)
         PROVE  Inv'
    BY <1>11, ReadCompletionStep
  <1>12. ASSUME NEW err \in BOOLEAN, HandleWriteCompletion(err)
         PROVE  Inv'
    BY <1>12, WriteCompletionStep
  <1>13. CASE HandleCloseCompletion
    BY <1>13, ClosingSteps
  <1>14. CASE UNCHANGED vars
    BY <1>14
    DEF vars, coreVars, queueVars, closeVars, readVars, writeVars, modeVars, Inv, CoreInv,
        CoreTypeOK, WatermarkHysteresis, ReleasedBeforeClosed, StackInv, ReadTypes, WriteTypes,
        ModeTypes, ReadMatches, WriteMatches
  <1> QED
    BY <1>1, <1>2, <1>3, <1>4, <1>5, <1>6, <1>7, <1>8, <1>9, <1>10, <1>11, <1>12, <1>13, <1>14
    DEF Next, MethodStep

(* Every reachable state satisfies the invariant. *)
THEOREM Invariance == Spec => []Inv
  BY InvInit, InvNext, PTL DEF Spec

(* The stack holds frames of the methods only. *)
LEMMA StackIsFrames ==
  ASSUME Inv
  PROVE  stack \in Seq(IF closed THEN Frame ELSE Frame \ {CloseFrame})
  <1>1. CASE stack = <<ToDequeue>> /\ ~closed
    <2>1. ToDequeue \in Frame \ {CloseFrame}
      BY DEF ToDequeue, WrittenFrame, Frame, CloseFrame
    <2> QED
      BY <1>1, <2>1
  <1>2. CASE stack \in Seq(IF closed THEN BusyFrame ELSE OpenFrame)
    <2>1. BusyFrame \subseteq Frame /\ OpenFrame \subseteq Frame \ {CloseFrame}
      BY DEF BusyFrame, OpenFrame
    <2> QED
      BY <1>2, <2>1
  <1> QED
    BY <1>1, <1>2 DEF Inv, StackInv

(* Type correctness: the variables, and the frames of the loop's stack,    *)
(* have the shapes that the code gives them.                               *)
THEOREM TypeCorrect == Spec => []TypeOK
  <1>1. Inv => TypeOK
    BY StackIsFrames DEF Inv, CoreInv, TypeOK, ReadTypes, WriteTypes, ModeTypes
  <1> QED
    BY <1>1, Invariance, PTL

(* The poller never holds more than the one request that a pending flag    *)
(* stands for, nor a write other than that of the queue head, although     *)
(* handlers may call Flush and Read inside a completion, submissions may   *)
(* fail, and requests may.                                                 *)
THEOREM FlagsMirrorRequests == Spec => []RequestsMatchFlags
  <1>1. Inv => RequestsMatchFlags
    BY DEF Inv, ReadMatches, WriteMatches, RequestsMatchFlags
  <1> QED
    BY <1>1, Invariance, PTL

(* Back-pressure keeps its hysteresis on completion pollers too.           *)
THEOREM WatermarksRespected == Spec => []WatermarkHysteresis
  <1>1. Inv => WatermarkHysteresis
    BY DEF Inv, CoreInv
  <1> QED
    BY <1>1, Invariance, PTL
=============================================================================
