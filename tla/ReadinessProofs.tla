--------------------------- MODULE ReadinessProofs ---------------------------
(***************************************************************************)
(* Type correctness and the safety of Close of ReadinessEndpoint, for      *)
(* every platform, batch size, watermark and depth of reentrancy, and the  *)
(* order and ownership of received datagrams when no handler reads into a  *)
(* batch that is being delivered.                                          *)
(*                                                                         *)
(* The stack of an open endpoint holds no frame of a Close in progress, so *)
(* its frames are OpenFrame; closing adds CloseFrame. An action that       *)
(* leaves closed alone is treated for any set F between the two.           *)
(***************************************************************************)
EXTENDS ReadinessEndpoint, EndpointCoreProofs, SequenceTheorems, FiniteSetTheorems

OpenFrame == Frame \ {CloseFrame}

FrameSet(F) == OpenFrame \subseteq F /\ F \subseteq Frame

FlushFrames == [op : {"flush"}, left : Nat, more : BOOLEAN, ev : BOOLEAN]
ReadFrames ==
  [op : {"read"}, remaining : Int, read : BOOLEAN, batch : BOOLEAN,
   single : 0 .. MaxArrivals, i : 1 .. ReadBatch + 1, n : 0 .. ReadBatch,
   drained : BOOLEAN, err : BOOLEAN]

(* A running frame has the fields of its method. *)
LEMMA FrameKinds ==
  ASSUME NEW f \in Frame
  PROVE  /\ f.op = "flush" => f \in FlushFrames
         /\ f.op = "read" => f \in ReadFrames
         /\ f.op = "close" => f = CloseFrame
  BY DEF Frame, CoreFrame, Cb, CloseFrame, DoCloseFrame, FlushFrames, ReadFrames

(* Every frame of a method, and every plain frame, may be on any stack.    *)
LEMMA MethodFrames ==
  ASSUME NEW F, FrameSet(F)
  PROVE  FlushFrames \subseteq F /\ ReadFrames \subseteq F /\ PlainFrame \subseteq F
  <1>1. /\ FlushFrames \subseteq Frame /\ ReadFrames \subseteq Frame
        /\ PlainFrame \subseteq Frame
    BY DEF Frame, FlushFrames, ReadFrames, PlainFrame
  <1>2. CloseFrame \notin FlushFrames \cup ReadFrames \cup PlainFrame
    BY DEF CloseFrame, FlushFrames, ReadFrames, PlainFrame
  <1> QED
    BY <1>1, <1>2 DEF FrameSet, OpenFrame

(* sendDatagramBatch reports no more datagrams than it was given.          *)
LEMMA SendResultsBounds ==
  ASSUME NEW batch, Len(batch) \in Nat, NEW r \in SendResults(batch)
  PROVE  r.sent \in 0 .. Len(batch) /\ r.again \in BOOLEAN /\ r.err \in BOOLEAN
  BY DEF SendResults, SystemSends, FallbackSends

(* A receive call returns no more datagrams than it took off the socket,   *)
(* and takes no more than it was asked for.                                *)
LEMMA ReceiveResultsBounds ==
  ASSUME NEW limit \in Nat, Len(rx) \in Nat, NEW r \in ReceiveResults(limit)
  PROVE  /\ r.n \in 0 .. limit /\ r.n <= Len(rx) /\ r.take \in 0 .. Len(rx)
         /\ r.drained \in BOOLEAN /\ r.err \in BOOLEAN
  <1> DEFINE m == MinOf(limit, Len(rx))
  <1>1. m \in Nat /\ m <= limit /\ m <= Len(rx)
    BY DEF MinOf
  <1>2. r \in [n : 0 .. m, take : 0 .. m, drained : BOOLEAN, err : BOOLEAN]
    BY DEF ReceiveResults, SystemReceives, FallbackReceives, Receipts
  <1> QED
    BY <1>1, <1>2

-----------------------------------------------------------------------------
Inv == TypeOK /\ CoreInv

(* A step of an action that does not change closed keeps the stack's type  *)
(* when it stays within the set of frames it started from.                 *)
LEMMA StackKept ==
  ASSUME Inv, closed' = closed,
         \A F : FrameSet(F) /\ stack \in Seq(F) => stack' \in Seq(F)
  PROVE  stack' \in Seq(IF closed' THEN Frame ELSE OpenFrame)
  <1>1. FrameSet(Frame) /\ FrameSet(OpenFrame)
    BY DEF FrameSet, OpenFrame
  <1>2. stack \in Seq(IF closed THEN Frame ELSE OpenFrame)
    BY DEF Inv, TypeOK, OpenFrame
  <1> QED
    BY <1>1, <1>2

(* The two sets of frames are the extremes. *)
LEMMA StackIsFrames ==
  ASSUME Inv
  PROVE  stack \in Seq(Frame)
  <1>1. stack \in Seq(IF closed THEN Frame ELSE Frame \ {CloseFrame})
    BY DEF Inv, TypeOK
  <1>2. CASE closed
    BY <1>1, <1>2
  <1>3. CASE ~closed
    <2>1. stack \in Seq(Frame \ {CloseFrame})
      BY <1>1, <1>3
    <2> QED
      BY <2>1
  <1> QED
    BY <1>2, <1>3

-----------------------------------------------------------------------------
(* Outbound steps. *)

(* The rest of flushOutbound after an error is a stack of frames.          *)
LEMMA FlushFailedType ==
  ASSUME NEW F, FrameSet(F), NEW rest \in Seq(F), NEW ev \in BOOLEAN
  PROVE  FlushFailed(rest, ev) \in Seq(F)
  BY MethodFrames, FailAndCloseType DEF FlushFailed

(* The part of the state that outbound steps share. *)
OutType ==
  /\ writeInterest \in BOOLEAN
  /\ interest \subseteq {"read", "write"}

LEMMA FlushDequeueStep ==
  ASSUME Inv, FlushDequeue
  PROVE  CoreInv' /\ stack' \in Seq(IF closed' THEN Frame ELSE OpenFrame)
  <1> DEFINE rest == <<[Head(stack) EXCEPT !.left = @ - 1]>> \o Tail(stack)
  <1>1. UNCHANGED <<closeVars, lastId, wire>> /\ Dequeue(rest)
    BY DEF FlushDequeue
  <1>2. ASSUME NEW F, FrameSet(F), stack \in Seq(F)
        PROVE  rest \in Seq(F)
    <2>1. Running("flush") /\ Head(stack).left > 0
      BY DEF FlushDequeue
    <2>2. Head(stack) \in F /\ Tail(stack) \in Seq(F)
      BY <1>2, <2>1, PopFrame
    <2>3. Head(stack) \in FlushFrames
      BY <1>2, <2>1, <2>2, FrameKinds DEF Running, FrameSet
    <2>4. [Head(stack) EXCEPT !.left = @ - 1] \in FlushFrames
      BY <2>1, <2>3 DEF FlushFrames
    <2> QED
      BY <1>2, <2>2, <2>4, MethodFrames
  <1>3. ASSUME NEW F, FrameSet(F), stack \in Seq(F)
        PROVE  CoreInv' /\ stack' \in Seq(F)
    <2>1. PlainFrame \subseteq F
      BY <1>3, MethodFrames
    <2>2. rest \in Seq(F)
      BY <1>2, <1>3
    <2> HIDE DEF rest
    <2> QED
      BY <1>1, <2>1, <2>2, DequeuePreserves DEF Inv
  <1>4. CoreInv'
    BY <1>3, StackIsFrames DEF FrameSet, OpenFrame
  <1>5. closed' = closed
    BY <1>1 DEF closeVars
  <1> QED
    BY <1>3, <1>4, <1>5, StackKept

LEMMA FlushSendStep ==
  ASSUME Inv, FlushSend
  PROVE  /\ CoreInv'
         /\ stack' \in Seq(IF closed' THEN Frame ELSE OpenFrame)
         /\ fdOpen
  <1> DEFINE batch == CopyOutboundBatch
  <1>1. /\ Running("flush") /\ queue # <<>>
        /\ UNCHANGED <<queueVars, closeVars, lastId>>
    BY DEF FlushSend
  <1>2. PICK r \in SendResults(batch) :
          /\ wire' = wire \o [i \in 1 .. r.sent |-> queue[i].id]
          /\ stack' = IF r.err
                      THEN FlushFailed(Tail(stack), Head(stack).ev)
                      ELSE <<FlushFrame(r.sent, r.again \/ r.sent < Len(batch),
                                        Head(stack).ev)>> \o Tail(stack)
    BY DEF FlushSend
  <1>3. queue \in Seq(Datagram) /\ wire \in Seq(Ids)
    BY DEF Inv, CoreInv, CoreTypeOK
  <1>4. Len(batch) \in Nat /\ Len(batch) <= Len(queue)
    BY <1>3, BatchAssumption DEF CopyOutboundBatch, MinOf
  <1> HIDE DEF batch
  <1>5. r.sent \in 0 .. Len(queue) /\ r.again \in BOOLEAN /\ r.err \in BOOLEAN /\ r.sent \in Nat
    BY <1>3, <1>4, SendResultsBounds
  <1>6. [i \in 1 .. r.sent |-> queue[i].id] \in Seq(Ids)
    <2>1. ASSUME NEW i \in 1 .. r.sent
          PROVE  queue[i].id \in Ids
      <3>1. i \in 1 .. Len(queue)
        BY <1>3, <1>5
      <3>2. queue[i] \in Datagram
        BY <1>3, <3>1
      <3> QED
        BY <3>2 DEF Datagram
    <2> QED
      BY <2>1, <1>5
  <1>7. wire' \in Seq(Ids)
    BY <1>2, <1>3, <1>6
  <1>8. CoreInv'
    BY <1>1, <1>7, CoreUntouched DEF Inv
  <1>9. ASSUME NEW F, FrameSet(F), stack \in Seq(F)
        PROVE  stack' \in Seq(F)
    <2>1. Head(stack) \in F /\ Tail(stack) \in Seq(F)
      BY <1>1, <1>9, PopFrame
    <2>2. Head(stack) \in FlushFrames
      BY <1>1, <1>9, <2>1, FrameKinds DEF Running, FrameSet
    <2>3. Head(stack).ev \in BOOLEAN
      BY <2>2 DEF FlushFrames
    <2>4. CASE r.err
      BY <1>2, <1>9, <2>1, <2>3, <2>4, FlushFailedType
    <2>5. CASE ~r.err
      <3>1. FlushFrame(r.sent, r.again \/ r.sent < Len(batch), Head(stack).ev) \in FlushFrames
        BY <1>5, <2>3 DEF FlushFrame, FlushFrames
      <3> QED
        BY <1>2, <1>9, <2>1, <2>5, <3>1, MethodFrames
    <2> QED
      BY <2>4, <2>5
  <1>10. closed' = closed
    BY <1>1 DEF closeVars
  <1>11. fdOpen
    BY <1>1 DEF Inv, CoreInv, ReleasedBeforeClosed
  <1> QED
    BY <1>8, <1>9, <1>10, <1>11, StackKept

(* enableWriteInterest and disableWriteInterest leave the core alone.      *)
LEMMA FlushStopStep ==
  ASSUME Inv, FlushBlocked \/ FlushDone
  PROVE  /\ CoreInv'
         /\ stack' \in Seq(IF closed' THEN Frame ELSE OpenFrame)
         /\ OutType'
  <1>1. UNCHANGED <<queueVars, closeVars, lastId, wire>> /\ Running("flush")
    BY DEF FlushBlocked, FlushDone
  <1>2. CoreInv'
    BY <1>1, CoreUntouched DEF Inv, CoreInv, CoreTypeOK
  <1>3. ASSUME NEW F, FrameSet(F), stack \in Seq(F)
        PROVE  stack' \in Seq(F)
    <2>1. Head(stack) \in F /\ Tail(stack) \in Seq(F)
      BY <1>1, <1>3, PopFrame
    <2>2. Head(stack) \in FlushFrames
      BY <1>1, <1>3, <2>1, FrameKinds DEF Running, FrameSet
    <2>3. FlushFailed(Tail(stack), Head(stack).ev) \in Seq(F)
      BY <1>3, <2>1, <2>2, FlushFailedType DEF FlushFrames
    <2>4. Cb("flushComplete") \in F
      BY <1>3, MethodFrames, PlainFrames DEF CbKinds
    <2>5. <<Cb("flushComplete")>> \o Tail(stack) \in Seq(F)
      BY <2>1, <2>4
    <2>6. stack' \in {Tail(stack), FlushFailed(Tail(stack), Head(stack).ev),
                      <<Cb("flushComplete")>> \o Tail(stack)}
      <3>1. CASE FlushBlocked
        BY <3>1, Zenon DEF FlushBlocked
      <3>2. CASE FlushDone
        BY <3>2, Zenon DEF FlushDone
      <3> QED
        BY <3>1, <3>2
    <2> QED
      BY <2>1, <2>3, <2>5, <2>6
  <1>4. closed' = closed
    BY <1>1 DEF closeVars
  <1>5. OutType'
    BY DEF Inv, TypeOK, OutType, FlushBlocked, FlushDone, Modify
  <1> QED
    BY <1>2, <1>3, <1>4, <1>5, StackKept

-----------------------------------------------------------------------------
(* Inbound steps. *)

(* What the inbound steps of readReady change. *)
InType ==
  /\ rx \in Seq(1 .. MaxArrivals)
  /\ inBatch \in [Slots -> 0 .. MaxArrivals]
  /\ held \in Int
  /\ delivered \in Seq(0 .. MaxArrivals)

(* Steps that only go on with readReady: the core is untouched, and the    *)
(* new top frames are read frames or callbacks.                            *)
LEMMA ReadStep ==
  ASSUME Inv, Running("read"), UNCHANGED <<queueVars, closeVars, lastId, wire>>,
         Head(stack) \in ReadFrames =>
           \/ \E g \in ReadFrames : stack' = <<g>> \o Tail(stack)
           \/ \E g \in ReadFrames : stack' = <<Cb("read"), g>> \o Tail(stack)
           \/ stack' = <<Cb("readComplete")>> \o Tail(stack)
           \/ stack' = Tail(stack)
           \/ stack' = FailAndClose(Tail(stack))
  PROVE  CoreInv' /\ stack' \in Seq(IF closed' THEN Frame ELSE OpenFrame)
  <1>1. CoreInv'
    BY CoreUntouched DEF Inv, CoreInv, CoreTypeOK
  <1>2. ASSUME NEW F, FrameSet(F), stack \in Seq(F)
        PROVE  stack' \in Seq(F)
    <2>1. Head(stack) \in F /\ Tail(stack) \in Seq(F)
      BY <1>2, PopFrame
    <2>2. Head(stack) \in ReadFrames
      BY <1>2, <2>1, FrameKinds DEF Running, FrameSet
    <2>3. ReadFrames \subseteq F /\ PlainFrame \subseteq F
      BY <1>2, MethodFrames
    <2>4. Cb("read") \in F /\ Cb("readComplete") \in F
      BY <2>3, PlainFrames DEF CbKinds
    <2>5. FailAndClose(Tail(stack)) \in Seq(F)
      BY <2>1, <2>3, FailAndCloseType
    <2>6. CASE \E g \in ReadFrames : stack' = <<g>> \o Tail(stack)
      BY <2>1, <2>3, <2>6
    <2>7. CASE \E g \in ReadFrames : stack' = <<Cb("read"), g>> \o Tail(stack)
      <3>1. PICK g \in ReadFrames : stack' = <<Cb("read"), g>> \o Tail(stack)
        BY <2>7
      <3>2. <<Cb("read"), g>> \in Seq(F)
        BY <2>3, <2>4
      <3> QED
        BY <2>1, <3>1, <3>2
    <2>8. CASE stack' = <<Cb("readComplete")>> \o Tail(stack)
      BY <2>1, <2>4, <2>8
    <2>9. CASE stack' = Tail(stack) \/ stack' = FailAndClose(Tail(stack))
      BY <2>1, <2>5, <2>9
    <2> QED
      BY <2>2, <2>6, <2>7, <2>8, <2>9
  <1>3. closed' = closed
    BY DEF closeVars
  <1> QED
    BY <1>1, <1>2, <1>3, StackKept

(* Elements and suffixes of a sequence are typed as it is. *)
LEMMA Element ==
  ASSUME NEW S, NEW q \in Seq(S), NEW k \in 1 .. Len(q)
  PROVE  q[k] \in S
  OBVIOUS

LEMMA Suffix ==
  ASSUME NEW S, NEW q \in Seq(S), NEW k \in 0 .. Len(q)
  PROVE  SubSeq(q, k + 1, Len(q)) \in Seq(S)
  <1>1. k + 1 \in 1 .. Len(q) + 1 /\ Len(q) \in k .. Len(q)
    OBVIOUS
  <1> QED
    BY <1>1, SubSeqProperties

(* A read frame that ReadFrame builds. *)
LEMMA ReadFrameType ==
  ASSUME NEW remaining \in Int, NEW read \in BOOLEAN
  PROVE  ReadFrame(remaining, read) \in ReadFrames
  BY BatchAssumption DEF ReadFrame, ReadFrames, Nil

LEMMA ReadReceiveStep ==
  ASSUME Inv, ReadReceive
  PROVE  /\ CoreInv'
         /\ stack' \in Seq(IF closed' THEN Frame ELSE OpenFrame)
         /\ InType'
         /\ fdOpen /\ allocOpen
  <1> DEFINE f == Head(stack)
             limit == MinOf(f.remaining, ReadBatch)
  <1>1. /\ Running("read") /\ f.remaining > 0 /\ ~closed
        /\ UNCHANGED <<queueVars, closeVars, lastId, wire, delivered>>
    BY DEF ReadReceive, ReadContinues
  <1>2. PICK r \in ReceiveResults(limit) :
          /\ rx' = SubSeq(rx, r.take + 1, Len(rx))
          /\ inBatch' = IF f.remaining > 1 THEN Unpack(r.n) ELSE inBatch
          /\ held' = held + r.n
          /\ stack' = <<[f EXCEPT
                           !.batch = TRUE, !.i = 1, !.n = r.n,
                           !.single = IF f.remaining <= 1 /\ r.n = 1 THEN rx[1] ELSE Nil,
                           !.drained = r.drained, !.err = r.err]>> \o Tail(stack)
    BY DEF ReadReceive
  <1>3. InType
    BY DEF Inv, TypeOK, InType
  <1>4. f \in Frame /\ f.op = "read"
    BY <1>1, StackIsFrames, PopFrame DEF Running
  <1>5. f \in ReadFrames
    BY <1>4, FrameKinds
  <1>6. limit \in Nat /\ limit <= ReadBatch
    BY <1>1, <1>5, BatchAssumption DEF ReadFrames, MinOf
  <1>7. Len(rx) \in Nat
    BY <1>3 DEF InType
  <1> HIDE DEF limit
  <1>8. /\ r.n \in 0 .. ReadBatch /\ r.n <= Len(rx) /\ r.take \in 0 .. Len(rx)
        /\ r.drained \in BOOLEAN /\ r.err \in BOOLEAN
    BY <1>2, <1>6, <1>7, ReceiveResultsBounds, BatchAssumption
  <1>9. rx' \in Seq(1 .. MaxArrivals) /\ held' \in Int
    <2>1. SubSeq(rx, r.take + 1, Len(rx)) \in Seq(1 .. MaxArrivals)
      BY <1>3, <1>8, Suffix DEF InType
    <2> QED
      BY <1>2, <1>3, <1>8, <2>1 DEF InType
  <1>10. ASSUME NEW s \in 1 .. Len(rx)
         PROVE  rx[s] \in 0 .. MaxArrivals
    <2>1. rx[s] \in 1 .. MaxArrivals
      BY <1>3, Element DEF InType
    <2> QED
      BY <2>1, BatchAssumption
  <1>11. inBatch' \in [Slots -> 0 .. MaxArrivals]
    <2>1. Unpack(r.n) \in [Slots -> 0 .. MaxArrivals]
      BY <1>3, <1>8, <1>10 DEF Unpack, InType, Slots
    <2> QED
      BY <1>2, <1>3, <2>1 DEF InType
  <1>12. InType'
    BY <1>1, <1>3, <1>9, <1>11 DEF InType
  <1> DEFINE single == IF f.remaining <= 1 /\ r.n = 1 THEN rx[1] ELSE Nil
             g == [f EXCEPT !.batch = TRUE, !.i = 1, !.n = r.n, !.single = single,
                            !.drained = r.drained, !.err = r.err]
  <1>13. single \in 0 .. MaxArrivals
    BY <1>7, <1>8, <1>10, BatchAssumption DEF Nil
  <1>14. g \in ReadFrames
    <2> DEFINE g1 == [f EXCEPT !.batch = TRUE]
               g2 == [g1 EXCEPT !.i = 1]
               g3 == [g2 EXCEPT !.n = r.n]
               g4 == [g3 EXCEPT !.single = single]
               g5 == [g4 EXCEPT !.drained = r.drained]
               g6 == [g5 EXCEPT !.err = r.err]
    <2>1. g = g6
      OBVIOUS
    <2> HIDE DEF single, f, g
    <2>2. g1 \in ReadFrames
      BY <1>5 DEF ReadFrames
    <2> HIDE DEF g1
    <2>3. g2 \in ReadFrames
      BY <2>2, BatchAssumption DEF ReadFrames
    <2> HIDE DEF g2
    <2>4. g3 \in ReadFrames
      BY <2>3, <1>8 DEF ReadFrames
    <2> HIDE DEF g3
    <2>5. g4 \in ReadFrames
      BY <2>4, <1>13 DEF ReadFrames
    <2> HIDE DEF g4
    <2>6. g5 \in ReadFrames
      BY <2>5, <1>8 DEF ReadFrames
    <2> HIDE DEF g5
    <2>7. g6 \in ReadFrames
      BY <2>6, <1>8 DEF ReadFrames
    <2> QED
      BY <2>1, <2>7
  <1>15. CoreInv' /\ stack' \in Seq(IF closed' THEN Frame ELSE OpenFrame)
    BY <1>1, <1>2, <1>14, ReadStep
  <1>16. fdOpen /\ allocOpen
    BY <1>1 DEF Inv, CoreInv, CoreTypeOK, ReleasedBeforeClosed
  <1> QED
    BY <1>12, <1>15, <1>16

LEMMA ReadFireStep ==
  ASSUME Inv, ReadFire
  PROVE  /\ CoreInv'
         /\ stack' \in Seq(IF closed' THEN Frame ELSE OpenFrame)
         /\ InType'
         /\ ~inactiveFired
  <1> DEFINE f == Head(stack)
             payload == IF f.single # Nil THEN f.single ELSE inBatch[f.i]
             g == [f EXCEPT !.i = @ + 1, !.single = Nil, !.read = TRUE]
  <1>1. /\ Running("read") /\ f.i <= f.n /\ ~closed
        /\ inBatch' = IF f.single # Nil THEN inBatch ELSE [inBatch EXCEPT ![f.i] = Nil]
        /\ held' = IF payload # Nil THEN held - 1 ELSE held
        /\ delivered' = Append(delivered, payload)
        /\ stack' = <<Cb("read"), g>> \o Tail(stack)
        /\ UNCHANGED <<queueVars, closeVars, lastId, wire, rx>>
    BY DEF ReadFire, ReadAbandoned
  <1>2. InType
    BY DEF Inv, TypeOK, InType
  <1>3. f \in Frame /\ f.op = "read"
    BY <1>1, StackIsFrames, PopFrame DEF Running
  <1>4. f \in ReadFrames
    BY <1>3, FrameKinds
  <1>5. f.i \in Slots
    BY <1>1, <1>4, BatchAssumption DEF ReadFrames, Slots
  <1>6. payload \in 0 .. MaxArrivals
    BY <1>2, <1>4, <1>5 DEF ReadFrames, InType
  <1>7. g \in ReadFrames
    <2> DEFINE g1 == [f EXCEPT !.i = f.i + 1]
               g2 == [g1 EXCEPT !.single = Nil]
               g3 == [g2 EXCEPT !.read = TRUE]
    <2>1. g = g3
      OBVIOUS
    <2> HIDE DEF f, g
    <2>2. g1 \in ReadFrames
      <3>1. f.i + 1 \in 1 .. ReadBatch + 1
        BY <1>1, <1>4, BatchAssumption DEF ReadFrames
      <3> QED
        BY <1>4, <3>1 DEF ReadFrames
    <2> HIDE DEF g1
    <2>3. g2 \in ReadFrames
      BY <2>2, BatchAssumption DEF ReadFrames, Nil
    <2> HIDE DEF g2
    <2>4. g3 \in ReadFrames
      BY <2>3 DEF ReadFrames
    <2> QED
      BY <2>1, <2>4
  <1>8. InType'
    <2>1. 0 \in 0 .. MaxArrivals
      BY BatchAssumption
    <2>2. inBatch' \in [Slots -> 0 .. MaxArrivals]
      BY <1>1, <1>2, <1>5, <2>1 DEF InType, Nil
    <2>3. held' \in Int /\ delivered' \in Seq(0 .. MaxArrivals)
      <3> HIDE DEF payload
      <3> QED
        BY <1>1, <1>2, <1>6 DEF InType
    <2> QED
      BY <1>1, <1>2, <2>2, <2>3 DEF InType
  <1>9. CoreInv' /\ stack' \in Seq(IF closed' THEN Frame ELSE OpenFrame)
    BY <1>1, <1>7, ReadStep
  <1>10. ~inactiveFired
    BY <1>1 DEF Inv, CoreInv, ReleasedBeforeClosed
  <1> QED
    BY <1>8, <1>9, <1>10

LEMMA ReadDiscardStep ==
  ASSUME Inv, ReadDiscard
  PROVE  /\ CoreInv'
         /\ stack' \in Seq(IF closed' THEN Frame ELSE OpenFrame)
         /\ InType'
  <1> DEFINE f == Head(stack)
             full == {s \in f.i .. f.n : inBatch[s] # Nil}
             g == [f EXCEPT !.i = f.n + 1]
  <1>1. /\ Running("read")
        /\ inBatch' = [s \in Slots |-> IF s \in f.i .. f.n THEN Nil ELSE inBatch[s]]
        /\ held' = held - Cardinality(full)
        /\ stack' = <<g>> \o Tail(stack)
        /\ UNCHANGED <<queueVars, closeVars, lastId, wire, rx, delivered>>
    BY DEF ReadDiscard
  <1>2. InType
    BY DEF Inv, TypeOK, InType
  <1>3. f \in Frame /\ f.op = "read"
    BY <1>1, StackIsFrames, PopFrame DEF Running
  <1>4. f \in ReadFrames
    BY <1>3, FrameKinds
  <1>5. f.i \in Nat /\ f.n \in 0 .. ReadBatch
    BY <1>4 DEF ReadFrames
  <1>6. Cardinality(full) \in Nat
    <2>1. IsFiniteSet(f.i .. f.n)
      <3>1. f.i \in Int /\ f.n \in Int
        BY <1>5, BatchAssumption
      <3> QED
        BY <3>1, FS_Interval
    <2>2. IsFiniteSet(full)
      BY <2>1, FS_Subset
    <2> QED
      BY <2>2, FS_CardinalityType
  <1>7. InType'
    <2> HIDE DEF full
    <2>1. held' \in Int
      BY <1>1, <1>2, <1>6 DEF InType
    <2>2. inBatch' \in [Slots -> 0 .. MaxArrivals]
      BY <1>1, <1>2, BatchAssumption DEF InType, Nil
    <2> QED
      BY <1>1, <1>2, <2>1, <2>2 DEF InType
  <1>8. g \in ReadFrames
    <2>1. f.n + 1 \in 1 .. ReadBatch + 1
      BY <1>5, BatchAssumption
    <2> HIDE DEF f
    <2> QED
      BY <1>4, <2>1 DEF ReadFrames
  <1>9. CoreInv' /\ stack' \in Seq(IF closed' THEN Frame ELSE OpenFrame)
    BY <1>1, <1>8, ReadStep
  <1> QED
    BY <1>7, <1>9

LEMMA ReadEndStep ==
  ASSUME Inv, ReadBatchDone \/ ReadExit
  PROVE  /\ CoreInv'
         /\ stack' \in Seq(IF closed' THEN Frame ELSE OpenFrame)
  <1> DEFINE f == Head(stack)
  <1>1. Running("read") /\ UNCHANGED <<queueVars, closeVars, lastId, wire>>
    BY DEF ReadBatchDone, ReadExit
  <1>2. ReadFinish(f.read) \in {<<Cb("readComplete")>> \o Tail(stack), <<>> \o Tail(stack)}
    BY DEF ReadFinish
  <1>3. Tail(stack) \in Seq(Frame)
    BY <1>1, StackIsFrames, PopFrame
  <1>4. <<>> \o Tail(stack) = Tail(stack)
    BY <1>3
  <1>5. CASE ReadExit
    <2>1. stack' = ReadFinish(f.read)
      BY <1>5 DEF ReadExit
    <2> QED
      BY <1>1, <1>2, <1>4, <2>1, ReadStep
  <1>6. CASE ReadBatchDone
    <2> DEFINE g == ReadFrame(f.remaining - f.n, f.read)
    <2>1. stack' \in {FailAndClose(Tail(stack)), ReadFinish(f.read), <<g>> \o Tail(stack)}
      BY <1>6, Zenon DEF ReadBatchDone
    <2>2. f \in ReadFrames => g \in ReadFrames
      BY ReadFrameType DEF ReadFrames
    <2> HIDE DEF g, f
    <2>3. stack' \in {FailAndClose(Tail(stack)), <<Cb("readComplete")>> \o Tail(stack),
                      Tail(stack), <<g>> \o Tail(stack)}
      BY <1>2, <1>4, <2>1
    <2> QED
      BY <1>1, <2>2, <2>3, ReadStep DEF f
  <1> QED
    BY <1>5, <1>6

-----------------------------------------------------------------------------
(* Calls and poller events. *)

(* A call or an event pushes frames of methods on the stack.               *)
LEMMA CallStep ==
  ASSUME Inv, UNCHANGED <<queueVars, closeVars, lastId, wire>>,
         \/ Flush \/ Read \/ HandleError
         \/ \E read, write \in BOOLEAN : HandleReady(read, write)
  PROVE  CoreInv' /\ stack' \in Seq(IF closed' THEN Frame ELSE OpenFrame)
  <1>1. CoreInv'
    BY CoreUntouched DEF Inv, CoreInv, CoreTypeOK
  <1>2. FlushFrame(0, FALSE, FALSE) \in FlushFrames /\ FlushFrame(0, FALSE, TRUE) \in FlushFrames
    BY DEF FlushFrame, FlushFrames
  <1>3. StartRead \in ReadFrames
    <2>1. (IF MaxMessages <= 0 THEN 1 ELSE MaxMessages) \in Int
      BY BatchAssumption
    <2> QED
      BY <2>1, ReadFrameType DEF StartRead
  <1>4. ASSUME NEW F, FrameSet(F), stack \in Seq(F)
        PROVE  stack' \in Seq(F)
    <2>1. /\ FlushFrame(0, FALSE, FALSE) \in F
          /\ FlushFrame(0, FALSE, TRUE) \in F
          /\ StartRead \in F
          /\ PlainFrame \subseteq F
      BY <1>2, <1>3, <1>4, MethodFrames
    <2>2. CASE Flush
      <3> DEFINE f == FlushFrame(0, FALSE, FALSE)
      <3>1. stack' = <<f>> \o stack
        BY <2>2 DEF Flush
      <3>2. f \in F
        BY <2>1
      <3> HIDE DEF f
      <3> QED
        BY <1>4, <3>1, <3>2
    <2>3. CASE Read
      BY <1>4, <2>1, <2>3 DEF Read
    <2>4. CASE HandleError
      <3>1. <<>> \in Seq(F)
        OBVIOUS
      <3> QED
        BY <2>1, <2>4, <3>1, FailAndCloseType DEF HandleError
    <2>5. ASSUME NEW read \in BOOLEAN, NEW write \in BOOLEAN, HandleReady(read, write)
          PROVE  stack' \in Seq(F)
      <3> DEFINE a == IF read /\ autoRead THEN <<StartRead>> ELSE <<>>
                 b == IF write THEN <<FlushFrame(0, FALSE, TRUE)>> ELSE <<>>
      <3>1. stack' = a \o b
        BY <2>5 DEF HandleReady
      <3>2. a \in Seq(F)
        BY <2>1
      <3>3. b \in Seq(F)
        <4> DEFINE f == FlushFrame(0, FALSE, TRUE)
        <4>1. b = IF write THEN <<f>> ELSE <<>>
          OBVIOUS
        <4>2. f \in F
          BY <2>1
        <4> HIDE DEF f, b
        <4> QED
          BY <4>1, <4>2
      <3> HIDE DEF a, b
      <3> QED
        BY <3>1, <3>2, <3>3
    <2> QED
      BY <2>2, <2>3, <2>4, <2>5
  <1>5. closed' = closed
    BY DEF closeVars
  <1> QED
    BY <1>1, <1>4, <1>5, StackKept

LEMMA WriteStep ==
  ASSUME Inv, NEW size \in Sizes, NEW addrOK \in AddrKinds, NEW valid \in BOOLEAN,
         Write(size, addrOK, valid)
  PROVE  CoreInv' /\ stack' \in Seq(IF closed' THEN Frame ELSE OpenFrame)
  <1>1. CoreWrite(size, addrOK, valid)
    BY DEF Write
  <1>2. ASSUME NEW F, FrameSet(F), stack \in Seq(F)
        PROVE  CoreInv' /\ stack' \in Seq(F)
    BY <1>1, <1>2, MethodFrames, CoreWritePreserves DEF Inv
  <1>3. CoreInv'
    BY <1>2, StackIsFrames DEF FrameSet, OpenFrame
  <1>4. closed' = closed
    BY <1>1 DEF CoreWrite, closeVars
  <1> QED
    BY <1>2, <1>3, <1>4, StackKept

(* Every call of Close, from a task, a handler, an error path or a hangup. *)
LEMMA CloseCallStep ==
  ASSUME Inv, NEW rest \in Seq(Frame), CloseCall(rest)
  PROVE  CoreInv' /\ stack' \in Seq(IF closed' THEN Frame ELSE OpenFrame)
  <1>1. CoreFrame \subseteq Frame
    BY DEF Frame
  <1>2. CoreInv' /\ stack' \in Seq(Frame)
    BY <1>1, CloseCallPreserves DEF Inv
  <1>3. closed' = TRUE
    BY DEF CloseCall
  <1> QED
    BY <1>2, <1>3

(* The rest of Close runs only on a closed endpoint. *)
LEMMA ClosedWhenClosing ==
  ASSUME Inv, CloseStep
  PROVE  closed
  <1> SUFFICES ASSUME ~closed
               PROVE  FALSE
    OBVIOUS
  <1>1. stack \in Seq(OpenFrame) /\ Running("close")
    BY DEF Inv, TypeOK, OpenFrame, CloseStep
  <1>2. Head(stack) \in OpenFrame /\ Head(stack).op = "close"
    BY <1>1, PopFrame DEF Running
  <1> QED
    BY <1>2, FrameKinds DEF OpenFrame

(* The rest of Close keeps the invariant. *)
LEMMA CloseRestStep ==
  ASSUME Inv, CloseStep
  PROVE  CoreInv' /\ stack' \in Seq(IF closed' THEN Frame ELSE OpenFrame)
  <1>1. Running("close") /\ closed' = closed
    BY DEF CloseStep
  <1>2. closed
    BY ClosedWhenClosing
  <1>3. PlainFrame \subseteq Frame
    BY DEF Frame, PlainFrame
  <1>4. CoreInv' /\ stack' \in Seq(Frame)
    BY <1>2, <1>3, StackIsFrames, CloseStepPreserves DEF Inv
  <1> QED
    BY <1>1, <1>2, <1>4

LEMMA ReturnStep ==
  ASSUME Inv, CbReturn
  PROVE  CoreInv' /\ stack' \in Seq(IF closed' THEN Frame ELSE OpenFrame)
  <1>1. Running("cb") /\ stack' = Tail(stack) /\ UNCHANGED <<queueVars, closeVars, lastId, wire>>
    BY DEF CbReturn
  <1>2. CoreInv'
    BY <1>1, CoreUntouched DEF Inv, CoreInv, CoreTypeOK
  <1>3. ASSUME NEW F, FrameSet(F), stack \in Seq(F)
        PROVE  stack' \in Seq(F)
    BY <1>1, <1>3, PopFrame
  <1>4. closed' = closed
    BY <1>1 DEF closeVars
  <1> QED
    BY <1>2, <1>3, <1>4, StackKept

-----------------------------------------------------------------------------
(* The invariant. *)

LEMMA InvInit == Init => Inv
  <1> SUFFICES ASSUME Init
               PROVE  Inv
    OBVIOUS
  <1>1. PlainFrame \subseteq OpenFrame
    BY DEF Frame, PlainFrame, OpenFrame
  <1>2. CoreInit(<<>>) /\ <<>> \in Seq(OpenFrame)
    BY DEF Init
  <1>3. CoreInv /\ stack \in Seq(OpenFrame)
    BY <1>1, <1>2, CoreInitInv
  <1>4. closed = FALSE
    BY <1>2 DEF CoreInit
  <1>5. InType /\ arrived \in 0 .. MaxArrivals
    BY BatchAssumption DEF Init, InType, Nil
  <1>6. OutType /\ autoRead \in BOOLEAN /\ platform \in {"linux", "linuxSingle", "other"}
    BY ModeAssumption DEF Init, OutType
  <1> QED
    BY <1>3, <1>4, <1>5, <1>6 DEF Inv, CoreInv, TypeOK, InType, OutType, OpenFrame

(* Each action keeps the invariant. *)
LEMMA InvNext == Inv /\ [Next]_vars => Inv'
  <1> SUFFICES ASSUME Inv, [Next]_vars
               PROVE  Inv'
    OBVIOUS
  <1> DEFINE Core == CoreInv' /\ stack' \in Seq(IF closed' THEN Frame ELSE OpenFrame)
  <1>1. ASSUME Core, OutType', InType', UNCHANGED <<arrived, autoRead, platform>>
        PROVE  Inv'
    BY <1>1 DEF Inv, CoreInv, TypeOK, OutType, InType, OpenFrame
  <1>2. UNCHANGED interestVars => OutType'
    BY DEF Inv, TypeOK, OutType, interestVars
  <1>3. UNCHANGED inVars => InType' /\ UNCHANGED arrived
    BY DEF Inv, TypeOK, InType, inVars
  <1> HIDE DEF Core
  <1>4. ASSUME NEW size \in Sizes, NEW addrOK \in AddrKinds, NEW valid \in BOOLEAN,
               Write(size, addrOK, valid)
        PROVE  Inv'
    BY <1>1, <1>2, <1>3, <1>4, WriteStep DEF Write, Core
  <1>5. CASE Flush
    <2>1. UNCHANGED <<queueVars, closeVars, lastId, wire, interestVars, inVars, autoRead, platform>>
      BY <1>5 DEF Flush
    <2> QED
      BY <1>1, <1>2, <1>3, <1>5, <2>1, CallStep DEF Core
  <1>6. CASE Read
    <2>1. UNCHANGED <<queueVars, closeVars, lastId, wire, interestVars, inVars, autoRead, platform>>
      BY <1>6 DEF Read
    <2> QED
      BY <1>1, <1>2, <1>3, <1>6, <2>1, CallStep DEF Core
  <1>7. CASE Close
    <2>1. CloseCall(stack) /\ UNCHANGED <<interestVars, inVars, autoRead, platform>>
      BY <1>7 DEF Close, CoreClose
    <2> QED
      BY <1>1, <1>2, <1>3, <2>1, StackIsFrames, CloseCallStep DEF Core
  <1>8. CASE HandlerReturn
    BY <1>1, <1>2, <1>3, <1>8, ReturnStep DEF HandlerReturn, Core
  <1>9. CASE FlushDequeue
    <2>1. UNCHANGED <<interestVars, inVars, autoRead, platform>>
      BY <1>9 DEF FlushDequeue
    <2> QED
      BY <1>1, <1>2, <1>3, <1>9, <2>1, FlushDequeueStep DEF Core
  <1>10. CASE FlushSend
    <2>1. UNCHANGED <<interestVars, inVars, autoRead, platform>>
      BY <1>10 DEF FlushSend
    <2> QED
      BY <1>1, <1>2, <1>3, <1>10, <2>1, FlushSendStep DEF Core
  <1>11. CASE FlushBlocked \/ FlushDone
    <2>1. UNCHANGED <<inVars, autoRead, platform>>
      BY <1>11 DEF FlushBlocked, FlushDone
    <2> QED
      BY <1>1, <1>3, <1>11, <2>1, FlushStopStep DEF Core
  <1>12. CASE ReadReceive
    <2>1. UNCHANGED <<interestVars, arrived, autoRead, platform>>
      BY <1>12 DEF ReadReceive
    <2> QED
      BY <1>1, <1>2, <1>12, <2>1, ReadReceiveStep DEF Core
  <1>13. CASE ReadFire
    <2>1. UNCHANGED <<interestVars, arrived, autoRead, platform>>
      BY <1>13 DEF ReadFire
    <2> QED
      BY <1>1, <1>2, <1>13, <2>1, ReadFireStep DEF Core
  <1>14. CASE ReadDiscard
    <2>1. UNCHANGED <<interestVars, arrived, autoRead, platform>>
      BY <1>14 DEF ReadDiscard
    <2> QED
      BY <1>1, <1>2, <1>14, <2>1, ReadDiscardStep DEF Core
  <1>15. CASE ReadBatchDone \/ ReadExit
    <2>1. UNCHANGED <<interestVars, inVars, autoRead, platform>>
      BY <1>15 DEF ReadBatchDone, ReadExit
    <2> QED
      BY <1>1, <1>2, <1>3, <1>15, <2>1, ReadEndStep DEF Core
  <1>16. CASE Closing
    <2>1. UNCHANGED <<interestVars, inVars, autoRead, platform>> /\ (DoClose \/ CloseStep)
      BY <1>16 DEF Closing
    <2>2. CASE DoClose
      <3>1. Running("doClose") /\ CloseCall(Tail(stack))
        BY <2>2 DEF DoClose
      <3>2. Tail(stack) \in Seq(Frame)
        BY <3>1, StackIsFrames, PopFrame
      <3> QED
        BY <1>1, <1>2, <1>3, <2>1, <3>1, <3>2, CloseCallStep DEF Core
    <2>3. CASE CloseStep
      BY <1>1, <1>2, <1>3, <2>1, <2>3, CloseRestStep DEF Core
    <2> QED
      BY <2>1, <2>2, <2>3
  <1>17. ASSUME NEW read \in BOOLEAN, NEW write \in BOOLEAN, HandleReady(read, write)
         PROVE  Inv'
    <2>1. UNCHANGED <<queueVars, closeVars, lastId, wire, interestVars, inVars, autoRead, platform>>
      BY <1>17 DEF HandleReady
    <2> QED
      BY <1>1, <1>2, <1>3, <1>17, <2>1, CallStep DEF Core
  <1>18. CASE HandleError
    <2>1. UNCHANGED <<queueVars, closeVars, lastId, wire, interestVars, inVars, autoRead, platform>>
      BY <1>18 DEF HandleError
    <2> QED
      BY <1>1, <1>2, <1>3, <1>18, <2>1, CallStep DEF Core
  <1>19. CASE HandleHangup
    <2>1. CloseCall(<<>>) /\ UNCHANGED <<interestVars, inVars, autoRead, platform>>
      BY <1>19 DEF HandleHangup
    <2>2. <<>> \in Seq(Frame)
      OBVIOUS
    <2> QED
      BY <1>1, <1>2, <1>3, <2>1, <2>2, CloseCallStep DEF Core
  <1>20. CASE Arrive
    <2>1. /\ arrived' = arrived + 1 /\ arrived < MaxArrivals
          /\ rx' = Append(rx, arrived + 1)
          /\ UNCHANGED <<coreVars, interestVars, inBatch, held, delivered, autoRead, platform>>
      BY <1>20 DEF Arrive
    <2>2. arrived \in 0 .. MaxArrivals
      BY DEF Inv, TypeOK
    <2>3. arrived + 1 \in 1 .. MaxArrivals
      BY <2>1, <2>2, BatchAssumption
    <2>4. InType' /\ OutType'
      BY <2>1, <2>3, <1>2 DEF Inv, TypeOK, InType
    <2>5. CoreInv'
      BY <2>1, CoreUntouched DEF coreVars, Inv, CoreInv, CoreTypeOK
    <2>6. stack' = stack /\ closed' = closed
      BY <2>1 DEF coreVars, closeVars
    <2> QED
      BY <2>1, <2>3, <2>4, <2>5, <2>6 DEF Inv, CoreInv, TypeOK, OutType, InType
  <1>21. CASE UNCHANGED vars
    BY <1>21 DEF vars, coreVars, queueVars, closeVars, interestVars, inVars, Inv, TypeOK,
                 CoreInv, CoreTypeOK, WatermarkHysteresis, ReleasedBeforeClosed
  <1> QED
    BY <1>4, <1>5, <1>6, <1>7, <1>8, <1>9, <1>10, <1>11, <1>12, <1>13, <1>14, <1>15, <1>16,
       <1>17, <1>18, <1>19, <1>20, <1>21
    DEF Next, MethodStep

(* Every reachable state satisfies the invariant. *)
THEOREM Invariance == Spec => []Inv
  BY InvInit, InvNext, PTL DEF Spec

(* Type correctness: the variables, and the frames of the loop's stack,    *)
(* have the shapes that the code gives them.                               *)
THEOREM TypeCorrect == Spec => []TypeOK
  <1>1. Inv => TypeOK
    BY DEF Inv
  <1> QED
    BY <1>1, Invariance, PTL

(* Back-pressure: updateWritability keeps IsWritable consistent with the   *)
(* watermarks at every callback, for all watermarks with Low < High.       *)
THEOREM WatermarksRespected == Spec => []WatermarkHysteresis
  <1>1. Inv => WatermarkHysteresis
    BY DEF Inv, CoreInv
  <1> QED
    BY <1>1, Invariance, PTL

(* Close releases the queue before the descriptor, the allocator and the   *)
(* inactive event, and nothing is queued afterwards.                       *)
THEOREM CloseReleasesFirst == Spec => []ReleasedBeforeClosed
  <1>1. Inv => ReleasedBeforeClosed
    BY DEF Inv, CoreInv
  <1> QED
    BY <1>1, Invariance, PTL

-----------------------------------------------------------------------------
(* What a closed endpoint never does again. *)

(* Only four actions touch the socket or deliver a payload.                *)
LEMMA OnlyFourTouch ==
  ASSUME [Next]_vars
  PROVE  \/ UNCHANGED <<wire, rx, delivered>>
         \/ FlushSend \/ ReadReceive \/ ReadFire \/ Arrive
  <1>1. ASSUME NEW size \in Sizes, NEW addrOK \in AddrKinds, NEW valid \in BOOLEAN,
               Write(size, addrOK, valid)
        PROVE  UNCHANGED <<wire, rx, delivered>>
    BY <1>1 DEF Write, CoreWrite, inVars
  <1>2. CASE Flush \/ Read \/ HandleError
    BY <1>2 DEF Flush, Read, HandleError, inVars
  <1>3. CASE Close \/ HandleHangup
    BY <1>3 DEF Close, CoreClose, HandleHangup, CloseCall, inVars
  <1>4. CASE HandlerReturn
    BY <1>4 DEF HandlerReturn, CbReturn, inVars
  <1>5. CASE FlushDequeue \/ FlushBlocked \/ FlushDone
    BY <1>5 DEF FlushDequeue, FlushBlocked, FlushDone, inVars
  <1>6. CASE ReadDiscard \/ ReadBatchDone \/ ReadExit
    BY <1>6 DEF ReadDiscard, ReadBatchDone, ReadExit, inVars
  <1>7. CASE Closing
    BY <1>7 DEF Closing, DoClose, CloseStep, CloseCall, inVars
  <1>8. ASSUME NEW read \in BOOLEAN, NEW write \in BOOLEAN, HandleReady(read, write)
        PROVE  UNCHANGED <<wire, rx, delivered>>
    BY <1>8 DEF HandleReady, inVars
  <1>9. CASE UNCHANGED vars
    BY <1>9 DEF vars, coreVars, inVars
  <1> QED
    BY <1>1, <1>2, <1>3, <1>4, <1>5, <1>6, <1>7, <1>8, <1>9 DEF Next, MethodStep

(* The system calls and the delivery happen on an endpoint that is open:   *)
(* flushOutbound runs them with a datagram in its queue, which a closed    *)
(* endpoint no longer has; readReady looks at closed first.                *)
LEMMA TouchedWhileOpen ==
  ASSUME Inv
  PROVE  /\ FlushSend => fdOpen
         /\ ReadReceive => fdOpen /\ allocOpen
         /\ ReadFire => ~inactiveFired
  <1>1. ~fdOpen \/ ~allocOpen \/ inactiveFired => closed /\ queue = <<>>
    BY DEF Inv, CoreInv, ReleasedBeforeClosed
  <1>2. FlushSend => queue # <<>>
    BY DEF FlushSend
  <1>3. ReadReceive => ~closed
    BY DEF ReadReceive, ReadContinues
  <1>4. ReadFire => ~closed
    BY DEF ReadFire, ReadAbandoned
  <1>5. fdOpen \in BOOLEAN /\ allocOpen \in BOOLEAN /\ inactiveFired \in BOOLEAN
    BY DEF Inv, TypeOK, CoreTypeOK
  <1> QED
    BY <1>1, <1>2, <1>3, <1>4, <1>5

(* The socket and the allocator are not used after Close has closed them,  *)
(* for every nesting of callbacks and methods.                             *)
THEOREM ClosedMeansNoIO == Spec => NoIOAfterClose
  <1>1. Inv /\ [Next]_vars => /\ wire' # wire => fdOpen
                              /\ rx' # rx /\ Len(rx') < Len(rx) => fdOpen /\ allocOpen
    <2> SUFFICES ASSUME Inv, [Next]_vars
                 PROVE  /\ wire' # wire => fdOpen
                        /\ rx' # rx /\ Len(rx') < Len(rx) => fdOpen /\ allocOpen
      OBVIOUS
    <2>1. CASE UNCHANGED <<wire, rx, delivered>>
      BY <2>1
    <2>2. CASE FlushSend
      <3>1. rx' = rx
        BY <2>2 DEF FlushSend, inVars
      <3> QED
        BY <2>2, <3>1, TouchedWhileOpen
    <2>3. CASE ReadReceive
      BY <2>3, TouchedWhileOpen
    <2>4. CASE ReadFire
      <3>1. rx' = rx /\ wire' = wire
        BY <2>4 DEF ReadFire
      <3> QED
        BY <3>1
    <2>5. CASE Arrive
      <3>1. rx' = Append(rx, arrived + 1) /\ wire' = wire
        BY <2>5 DEF Arrive, coreVars
      <3>2. rx \in Seq(1 .. MaxArrivals)
        BY DEF Inv, TypeOK
      <3>3. Len(rx') = Len(rx) + 1 /\ Len(rx) \in Nat
        BY <3>1, <3>2
      <3> QED
        BY <3>1, <3>3
    <2> QED
      BY <2>1, <2>2, <2>3, <2>4, <2>5, OnlyFourTouch
  <1> QED
    BY <1>1, Invariance, PTL DEF Spec, NoIOAfterClose

(* No ChannelRead after ChannelInactive, whichever callback closed the     *)
(* endpoint.                                                               *)
THEOREM InactiveIsLast == Spec => NoReadAfterInactive
  <1>1. Inv /\ [Next]_vars => (delivered' # delivered => ~inactiveFired)
    <2> SUFFICES ASSUME Inv, [Next]_vars
                 PROVE  delivered' # delivered => ~inactiveFired
      OBVIOUS
    <2>1. FlushSend \/ ReadReceive \/ Arrive => delivered' = delivered
      BY DEF FlushSend, ReadReceive, Arrive, inVars
    <2> QED
      BY <2>1, OnlyFourTouch, TouchedWhileOpen
  <1> QED
    BY <1>1, Invariance, PTL DEF Spec, NoReadAfterInactive
-----------------------------------------------------------------------------
(* Where readReady stands: the messages i to n of the topmost readReady on *)
(* the stack are still to be fired, and no other has any, not even a       *)
(* single one.                                                             *)

Resting(f) == f.op = "read" => ~(f.batch /\ f.i <= f.n) /\ f.single = Nil

AllResting(s) == \A k \in 1 .. Len(s) : Resting(s[k])

FiringAt(s, j, i, n) ==
  /\ s[j].op = "read" /\ s[j].batch /\ s[j].i = i /\ s[j].n = n /\ s[j].single = Nil
  /\ i <= n
  /\ \A k \in 1 .. j - 1 : s[k].op # "read"
  /\ \A k \in j + 1 .. Len(s) : Resting(s[k])

FiringIn(s, i, n) == \E j \in 1 .. Len(s) : FiringAt(s, j, i, n)

(* The running readReady is about to fire the single datagram x.           *)
FiringSingle(s, x) ==
  /\ s # <<>> /\ Head(s).op = "read" /\ Head(s).batch
  /\ Head(s).i = 1 /\ Head(s).n = 1 /\ Head(s).single = x /\ x # Nil
  /\ AllResting(Tail(s))

(* What a step that has nothing to do with readReady does to a stack.      *)
Undisturbed(s, t) ==
  /\ AllResting(s) => AllResting(t)
  /\ \A i, n : FiringIn(s, i, n) => FiringIn(t, i, n)

(* The elements of a concatenation. *)
LEMMA ConcatElements ==
  ASSUME NEW F, NEW p \in Seq(F), NEW G, NEW s \in Seq(G)
  PROVE  /\ p \o s \in Seq(F \cup G) /\ Len(p) \in Nat /\ Len(s) \in Nat
         /\ Len(p \o s) = Len(p) + Len(s)
         /\ \A i \in 1 .. Len(p) : (p \o s)[i] = p[i]
         /\ \A i \in 1 .. Len(s) : (p \o s)[Len(p) + i] = s[i]
  <1>1. p \in Seq(F \cup G) /\ s \in Seq(F \cup G)
    OBVIOUS
  <1> QED
    BY <1>1

(* Frames of other methods on top change nothing.                          *)
LEMMA ReadsBelow ==
  ASSUME NEW F, NEW p \in Seq(F), NEW G, NEW s \in Seq(G),
         \A k \in 1 .. Len(p) : p[k].op # "read"
  PROVE  Undisturbed(s, p \o s)
  <1> DEFINE t == p \o s
             m == Len(p)
  <1>1. /\ m \in Nat /\ Len(s) \in Nat /\ Len(t) = m + Len(s)
        /\ \A k \in 1 .. m : t[k] = p[k]
        /\ \A k \in 1 .. Len(s) : t[m + k] = s[k]
    BY ConcatElements
  <1>2. \A k \in 1 .. m : t[k].op # "read"
    BY <1>1
  <1>3. \A k \in m + 1 .. Len(t) : k - m \in 1 .. Len(s) /\ m + (k - m) = k
    BY <1>1
  <1>4. \A k \in m + 1 .. Len(t) : t[k] = s[k - m]
    BY <1>1, <1>3
  <1> HIDE DEF t
  <1>5. ASSUME AllResting(s)
        PROVE  AllResting(t)
    <2> SUFFICES ASSUME NEW k \in 1 .. Len(t)
                 PROVE  Resting(t[k])
      BY DEF AllResting
    <2>1. CASE k <= m
      <3>1. t[k].op # "read"
        BY <1>1, <1>2, <2>1
      <3> QED
        BY <3>1 DEF Resting
    <2>2. CASE k > m
      <3>1. k \in m + 1 .. Len(t)
        BY <1>1, <2>2
      <3>2. t[k] = s[k - m] /\ k - m \in 1 .. Len(s)
        BY <1>3, <1>4, <3>1
      <3> QED
        BY <1>5, <3>2 DEF AllResting
    <2> QED
      BY <1>1, <2>1, <2>2
  <1>6. ASSUME NEW i, NEW n, FiringIn(s, i, n)
        PROVE  FiringIn(t, i, n)
    <2>1. PICK j \in 1 .. Len(s) : FiringAt(s, j, i, n)
      BY <1>6 DEF FiringIn
    <2>2. m + j \in 1 .. Len(t) /\ t[m + j] = s[j]
      BY <1>1
    <2>3. ASSUME NEW k \in 1 .. m + j - 1
          PROVE  t[k].op # "read"
      <3>1. CASE k <= m
        BY <1>1, <1>2, <3>1
      <3>2. CASE k > m
        <4>1. k \in m + 1 .. Len(t) /\ k - m \in 1 .. j - 1
          BY <1>1, <3>2
        <4> QED
          BY <1>4, <2>1, <4>1 DEF FiringAt
      <3> QED
        BY <1>1, <3>1, <3>2
    <2>4. ASSUME NEW k \in m + j + 1 .. Len(t)
          PROVE  Resting(t[k])
      <3>1. k \in m + 1 .. Len(t) /\ k - m \in j + 1 .. Len(s)
        BY <1>1
      <3>2. t[k] = s[k - m] /\ Resting(s[k - m])
        BY <1>4, <2>1, <3>1 DEF FiringAt
      <3> QED
        BY <3>2
    <2>5. FiringAt(t, m + j, i, n)
      BY <2>1, <2>2, <2>3, <2>4 DEF FiringAt
    <2> QED
      BY <2>2, <2>5 DEF FiringIn
  <1> QED
    BY <1>5, <1>6 DEF Undisturbed, t

(* Neither does the return of another method.                              *)
LEMMA ReadsAbove ==
  ASSUME NEW F, NEW s \in Seq(F), s # <<>>, Head(s).op # "read"
  PROVE  Undisturbed(s, Tail(s))
  <1> DEFINE t == Tail(s)
  <1>1. /\ Len(t) = Len(s) - 1 /\ Len(s) \in Nat \ {0} /\ Head(s) = s[1]
        /\ \A k \in 1 .. Len(s) - 1 : t[k] = s[k + 1]
    BY TailElements
  <1> HIDE DEF t
  <1>2. ASSUME AllResting(s)
        PROVE  AllResting(t)
    <2> SUFFICES ASSUME NEW k \in 1 .. Len(t)
                 PROVE  Resting(t[k])
      BY DEF AllResting
    <2>1. k + 1 \in 1 .. Len(s) /\ t[k] = s[k + 1]
      BY <1>1
    <2> QED
      BY <1>2, <2>1 DEF AllResting
  <1>3. ASSUME NEW i, NEW n, FiringIn(s, i, n)
        PROVE  FiringIn(t, i, n)
    <2>1. PICK j \in 1 .. Len(s) : FiringAt(s, j, i, n)
      BY <1>3 DEF FiringIn
    <2>2. j # 1
      BY <1>1, <2>1 DEF FiringAt
    <2>3. j - 1 \in 1 .. Len(t) /\ t[j - 1] = s[j]
      <3>1. j - 1 \in 1 .. Len(s) - 1 /\ j - 1 + 1 = j
        BY <1>1, <2>2
      <3> QED
        BY <1>1, <3>1
    <2>4. ASSUME NEW k \in 1 .. j - 1 - 1
          PROVE  t[k].op # "read"
      <3>1. k + 1 \in 1 .. j - 1 /\ k \in 1 .. Len(s) - 1
        BY <1>1, <2>2
      <3> QED
        BY <1>1, <2>1, <3>1 DEF FiringAt
    <2>5. ASSUME NEW k \in j - 1 + 1 .. Len(t)
          PROVE  Resting(t[k])
      <3>1. k + 1 \in j + 1 .. Len(s) /\ k \in 1 .. Len(s) - 1
        BY <1>1, <2>2
      <3>2. t[k] = s[k + 1] /\ Resting(s[k + 1])
        BY <1>1, <2>1, <3>1 DEF FiringAt
      <3> QED
        BY <3>2
    <2>6. FiringAt(t, j - 1, i, n)
      BY <2>1, <2>3, <2>4, <2>5 DEF FiringAt
    <2> QED
      BY <2>3, <2>6 DEF FiringIn
  <1> QED
    BY <1>2, <1>3 DEF Undisturbed, t

(* A running readReady is the one that has messages to fire, if any has.   *)
LEMMA ReadRunning ==
  ASSUME NEW F, NEW s \in Seq(F), s # <<>>
  PROVE  /\ AllResting(s) => Resting(Head(s)) /\ AllResting(Tail(s))
         /\ \A i, n : FiringIn(s, i, n) /\ Head(s).op = "read" =>
              /\ Head(s).batch /\ Head(s).i = i /\ Head(s).n = n /\ Head(s).single = Nil
              /\ i <= n
              /\ AllResting(Tail(s))
  <1> DEFINE t == Tail(s)
  <1>1. /\ Len(t) = Len(s) - 1 /\ Len(s) \in Nat \ {0} /\ Head(s) = s[1]
        /\ \A k \in 1 .. Len(s) - 1 : t[k] = s[k + 1]
    BY TailElements
  <1> HIDE DEF t
  <1>2. ASSUME \A k \in 2 .. Len(s) : Resting(s[k])
        PROVE  AllResting(t)
    <2> SUFFICES ASSUME NEW k \in 1 .. Len(t)
                 PROVE  Resting(t[k])
      BY DEF AllResting
    <2>1. k + 1 \in 2 .. Len(s) /\ t[k] = s[k + 1]
      BY <1>1
    <2> QED
      BY <1>2, <2>1
  <1>3. ASSUME AllResting(s)
        PROVE  Resting(Head(s)) /\ AllResting(t)
    <2>1. 1 \in 1 .. Len(s) /\ \A k \in 2 .. Len(s) : k \in 1 .. Len(s)
      BY <1>1
    <2> QED
      BY <1>1, <1>2, <1>3, <2>1 DEF AllResting
  <1>4. ASSUME NEW i, NEW n, FiringIn(s, i, n), Head(s).op = "read"
        PROVE  /\ Head(s).batch /\ Head(s).i = i /\ Head(s).n = n /\ Head(s).single = Nil
               /\ i <= n
               /\ AllResting(t)
    <2>1. PICK j \in 1 .. Len(s) : FiringAt(s, j, i, n)
      BY <1>4 DEF FiringIn
    <2>2. j = 1
      <3> SUFFICES ASSUME j # 1
                   PROVE  FALSE
        OBVIOUS
      <3>1. 1 \in 1 .. j - 1
        BY <1>1
      <3> QED
        BY <1>1, <1>4, <2>1, <3>1 DEF FiringAt
    <2>3. j + 1 = 2
      BY <2>2
    <2> QED
      BY <1>1, <1>2, <2>1, <2>2, <2>3 DEF FiringAt
  <1> QED
    BY <1>3, <1>4 DEF t

(* A readReady above others that have nothing to fire.                     *)
LEMMA ReadStarted ==
  ASSUME NEW G, NEW s \in Seq(G), NEW f, AllResting(s)
  PROVE  /\ Resting(f) => AllResting(<<f>> \o s)
         /\ \A i, n : /\ f.op = "read" /\ f.batch /\ f.i = i /\ f.n = n /\ f.single = Nil
                      /\ i <= n
                      => FiringIn(<<f>> \o s, i, n)
  <1> DEFINE t == <<f>> \o s
  <1>1. <<f>> \in Seq({f}) /\ Len(<<f>>) = 1 /\ <<f>>[1] = f
    OBVIOUS
  <1>2. /\ Len(s) \in Nat /\ Len(t) = 1 + Len(s) /\ t[1] = f
        /\ \A k \in 1 .. Len(s) : t[1 + k] = s[k]
    <2>1. 1 \in 1 .. 1
      OBVIOUS
    <2> QED
      BY <1>1, <2>1, ConcatElements
  <1> HIDE DEF t
  <1>3. ASSUME NEW k \in 2 .. Len(t)
        PROVE  Resting(t[k])
    <2>1. k - 1 \in 1 .. Len(s) /\ 1 + (k - 1) = k
      BY <1>2
    <2>2. t[k] = s[k - 1]
      BY <1>2, <2>1
    <2> QED
      BY <2>1, <2>2 DEF AllResting
  <1>4. ASSUME Resting(f)
        PROVE  AllResting(t)
    <2> SUFFICES ASSUME NEW k \in 1 .. Len(t)
                 PROVE  Resting(t[k])
      BY DEF AllResting
    <2>1. k = 1 \/ k \in 2 .. Len(t)
      BY <1>2
    <2> QED
      BY <1>2, <1>3, <1>4, <2>1
  <1>5. ASSUME NEW i, NEW n, i <= n,
               f.op = "read" /\ f.batch /\ f.i = i /\ f.n = n /\ f.single = Nil
        PROVE  FiringIn(t, i, n)
    <2>1. 1 \in 1 .. Len(t) /\ 1 + 1 = 2
      BY <1>2
    <2>2. \A k \in 1 .. 1 - 1 : t[k].op # "read"
      OBVIOUS
    <2>3. FiringAt(t, 1, i, n)
      BY <1>2, <1>3, <1>5, <2>1, <2>2 DEF FiringAt
    <2> QED
      BY <2>1, <2>3 DEF FiringIn
  <1> QED
    BY <1>4, <1>5 DEF t
-----------------------------------------------------------------------------
(* Steps that only rearrange the stack.                                    *)

LEMMA UndisturbedPush ==
  ASSUME NEW G, NEW s \in Seq(G), NEW f, f.op # "read"
  PROVE  /\ Undisturbed(s, <<f>> \o s)
         /\ \A g : g.op # "read" => Undisturbed(s, <<f, g>> \o s)
  <1>1. <<f>> \in Seq({f}) /\ \A k \in 1 .. Len(<<f>>) : <<f>>[k].op # "read"
    OBVIOUS
  <1>2. ASSUME NEW g, g.op # "read"
        PROVE  <<f, g>> \in Seq({f, g}) /\ \A k \in 1 .. Len(<<f, g>>) : <<f, g>>[k].op # "read"
    BY <1>2
  <1> QED
    BY <1>1, <1>2, ReadsBelow

LEMMA UndisturbedBoth ==
  ASSUME NEW s, NEW t, NEW u, Undisturbed(s, t), Undisturbed(t, u)
  PROVE  Undisturbed(s, u)
  BY DEF Undisturbed

(* A callback, an error path, a call of Close and the frame of a           *)
(* flushOutbound on top of the stack.                                      *)
LEMMA UndisturbedCore ==
  ASSUME NEW G, NEW s \in Seq(G)
  PROVE  /\ Undisturbed(s, s)
         /\ \A kind : Undisturbed(s, <<Cb(kind)>> \o s)
         /\ Undisturbed(s, FailAndClose(s))
         /\ \A ev : Undisturbed(s, FlushFailed(s, ev))
         /\ CloseCall(s) => Undisturbed(s, stack')
  <1>1. Undisturbed(s, s)
    BY DEF Undisturbed
  <1>2. ASSUME NEW kind
        PROVE  Undisturbed(s, <<Cb(kind)>> \o s)
    <2> DEFINE f == Cb(kind)
    <2>1. f.op # "read"
      BY DEF Cb
    <2> HIDE DEF f
    <2>2. Undisturbed(s, <<f>> \o s)
      BY <2>1, UndisturbedPush
    <2> QED
      BY <2>2 DEF f
  <1>3. Undisturbed(s, FailAndClose(s))
    <2> DEFINE f == Cb("exception")
               g == DoCloseFrame
    <2>1. f.op # "read" /\ g.op # "read"
      BY DEF Cb, DoCloseFrame
    <2> HIDE DEF f, g
    <2>2. Undisturbed(s, <<f, g>> \o s)
      BY <2>1, UndisturbedPush
    <2> QED
      BY <2>2 DEF FailAndClose, f, g
  <1>4. \A ev : Undisturbed(s, FlushFailed(s, ev))
    BY <1>1, <1>3 DEF FlushFailed
  <1>5. ASSUME CloseCall(s)
        PROVE  Undisturbed(s, stack')
    <2> DEFINE f == Cb("writability")
               g == CloseFrame
    <2>1. stack' \in {s, <<f, g>> \o s, <<g>> \o s}
      BY <1>5, Zenon DEF CloseCall
    <2>2. f.op # "read" /\ g.op # "read"
      BY DEF Cb, CloseFrame
    <2> HIDE DEF f, g
    <2>3. Undisturbed(s, <<f, g>> \o s) /\ Undisturbed(s, <<g>> \o s)
      BY <2>2, UndisturbedPush
    <2> QED
      BY <1>1, <2>1, <2>3
  <1> QED
    BY <1>1, <1>2, <1>3, <1>4, <1>5

(* dequeue on top of the frames `rest'.                                    *)
LEMMA UndisturbedDequeue ==
  ASSUME NEW G, NEW rest \in Seq(G), Dequeue(rest)
  PROVE  Undisturbed(rest, stack')
  <1>1. stack' = rest \/ stack' = <<Cb("writability")>> \o rest
    BY DEF Dequeue, UpdateWritability
  <1> QED
    BY <1>1, UndisturbedCore

-----------------------------------------------------------------------------
(* What is where: the datagrams in the socket, in the slots and delivered  *)
(* are in the order in which they arrived.                                 *)

Waiting(x) ==
  /\ x \in 1 .. arrived
  /\ \A u \in 1 .. Len(delivered) : delivered[u] < x
  /\ \A v \in 1 .. Len(rx) : x < rx[v]

SocketOrder ==
  /\ \A u, v \in 1 .. Len(rx) : u < v => rx[u] < rx[v]
  /\ \A v \in 1 .. Len(rx) : rx[v] \in 1 .. arrived

DeliveryOrder ==
  /\ \A u, v \in 1 .. Len(delivered) : u < v => delivered[u] < delivered[v]
  /\ \A u \in 1 .. Len(delivered) : delivered[u] \in 1 .. arrived
  /\ \A u \in 1 .. Len(delivered) : \A v \in 1 .. Len(rx) : delivered[u] < rx[v]

(* The slots i to n are full, in order, the others empty.                  *)
Window(i, n) ==
  /\ held = n - i + 1
  /\ \A s \in Slots : s \notin i .. n => inBatch[s] = Nil
  /\ \A s \in i .. n : Waiting(inBatch[s])
  /\ \A s, t \in i .. n : s < t => inBatch[s] < inBatch[t]

EmptySlots == \A s \in Slots : inBatch[s] = Nil

NothingHeld == AllResting(stack) /\ held = 0 /\ EmptySlots
BatchHeld   == \E i, n : FiringIn(stack, i, n) /\ Window(i, n)
SingleHeld  == ~closed /\ held = 1 /\ EmptySlots /\ \E x : FiringSingle(stack, x) /\ Waiting(x)

InboundInv == SocketOrder /\ DeliveryOrder /\ (NothingHeld \/ BatchHeld \/ SingleHeld)

(* Steps of other methods.                                                 *)
LEMMA InboundRests ==
  ASSUME InboundInv, UNCHANGED inVars, Undisturbed(stack, stack'),
         ~Running("read") \/ UNCHANGED <<stack, closed>>
  PROVE  InboundInv'
  <1>1. SocketOrder' /\ DeliveryOrder'
    BY DEF InboundInv, SocketOrder, DeliveryOrder, inVars
  <1>2. \A x : Waiting(x)' <=> Waiting(x)
    BY DEF Waiting, inVars
  <1>3. NothingHeld => NothingHeld'
    BY DEF NothingHeld, EmptySlots, inVars, Undisturbed
  <1>4. ASSUME BatchHeld
        PROVE  BatchHeld'
    <2>1. PICK i, n : FiringIn(stack, i, n) /\ Window(i, n)
      BY <1>4 DEF BatchHeld
    <2>2. FiringIn(stack', i, n)
      BY <2>1 DEF Undisturbed
    <2>3. Window(i, n)'
      BY <1>2, <2>1 DEF Window, inVars, Waiting
    <2> QED
      BY <2>2, <2>3 DEF BatchHeld
  <1>5. ASSUME SingleHeld
        PROVE  SingleHeld'
    <2>1. PICK x : FiringSingle(stack, x) /\ Waiting(x)
      BY <1>5 DEF SingleHeld
    <2>2. UNCHANGED <<stack, closed>>
      BY <2>1 DEF FiringSingle, Running
    <2>3. FiringSingle(stack', x) /\ Waiting(x)'
      BY <1>2, <2>1, <2>2
    <2> QED
      BY <1>5, <2>2, <2>3 DEF SingleHeld, EmptySlots, inVars
  <1> QED
    BY <1>1, <1>3, <1>4, <1>5 DEF InboundInv
-----------------------------------------------------------------------------
(* Write, Flush, Close, the steps of flushOutbound and of Close, the       *)
(* return of a handler, an error or a hangup.                              *)
LEMMA InboundOthers ==
  ASSUME Inv, InboundInv,
         \/ \E size \in Sizes, addrOK \in AddrKinds, valid \in BOOLEAN : Write(size, addrOK, valid)
         \/ Flush \/ Close \/ HandlerReturn \/ FlushDequeue \/ FlushSend \/ FlushBlocked
         \/ FlushDone \/ Closing \/ HandleError \/ HandleHangup \/ UNCHANGED vars
  PROVE  InboundInv'
  <1>1. stack \in Seq(Frame) /\ Undisturbed(stack, stack)
    BY StackIsFrames DEF Undisturbed
  <1>2. CanCall => ~Running("read")
    BY DEF CanCall, Running
  <1>3. ASSUME NEW op, op # "read", Running(op)
        PROVE  ~Running("read") /\ Tail(stack) \in Seq(Frame) /\ Undisturbed(stack, Tail(stack))
    <2>1. stack # <<>> /\ Head(stack).op # "read"
      BY <1>3 DEF Running
    <2> QED
      BY <1>1, <1>3, <2>1, PopFrame, ReadsAbove DEF Running
  <1>4. ASSUME NEW op, op # "read", Running(op), UNCHANGED inVars,
               Undisturbed(Tail(stack), stack')
        PROVE  InboundInv'
    BY <1>3, <1>4, UndisturbedBoth, InboundRests
  <1>5. ASSUME CanCall, UNCHANGED inVars, Undisturbed(stack, stack')
        PROVE  InboundInv'
    BY <1>2, <1>5, InboundRests
  <1>6. ASSUME NEW size \in Sizes, NEW addrOK \in AddrKinds, NEW valid \in BOOLEAN,
               Write(size, addrOK, valid)
        PROVE  InboundInv'
    <2>1. CanCall /\ UNCHANGED inVars
      BY <1>6 DEF Write, CoreWrite
    <2>2. stack' = stack \/ stack' = <<Cb("writability")>> \o stack
      BY <1>6 DEF Write, CoreWrite, Enqueue, UpdateWritability
    <2> QED
      BY <1>1, <1>5, <2>1, <2>2, UndisturbedCore
  <1>7. CASE Flush
    <2> DEFINE f == FlushFrame(0, FALSE, FALSE)
    <2>1. CanCall /\ UNCHANGED inVars /\ stack' = <<f>> \o stack
      BY <1>7 DEF Flush
    <2>2. f.op # "read"
      BY DEF FlushFrame
    <2> HIDE DEF f
    <2>3. Undisturbed(stack, stack')
      BY <1>1, <2>1, <2>2, UndisturbedPush
    <2> QED
      BY <1>5, <2>1, <2>3
  <1>8. CASE Close
    <2>1. CanCall /\ UNCHANGED inVars /\ CloseCall(stack)
      BY <1>8 DEF Close, CoreClose
    <2> QED
      BY <1>1, <1>5, <2>1, UndisturbedCore
  <1>9. CASE HandlerReturn
    <2>1. Running("cb") /\ UNCHANGED inVars /\ stack' = Tail(stack)
      BY <1>9 DEF HandlerReturn, CbReturn
    <2>2. Undisturbed(Tail(stack), stack')
      BY <2>1 DEF Undisturbed
    <2> QED
      BY <1>4, <2>1, <2>2
  <1>10. CASE FlushDequeue
    <2> DEFINE f == [Head(stack) EXCEPT !.left = @ - 1]
    <2>1. Running("flush") /\ UNCHANGED inVars /\ Dequeue(<<f>> \o Tail(stack))
      BY <1>10 DEF FlushDequeue
    <2>2. Tail(stack) \in Seq(Frame) /\ Head(stack) \in Frame /\ Head(stack).op = "flush"
      BY <1>1, <2>1, PopFrame DEF Running
    <2>3. f.op # "read"
      BY <2>2, FrameKinds DEF FlushFrames
    <2> HIDE DEF f
    <2>4. Undisturbed(Tail(stack), <<f>> \o Tail(stack))
      BY <2>2, <2>3, UndisturbedPush
    <2>5. <<f>> \o Tail(stack) \in Seq(Frame \cup {f})
      BY <2>2
    <2>6. Undisturbed(<<f>> \o Tail(stack), stack')
      BY <2>1, <2>5, UndisturbedDequeue
    <2> QED
      BY <1>4, <2>1, <2>4, <2>6, UndisturbedBoth
  <1>11. CASE FlushSend
    <2>1. Running("flush") /\ UNCHANGED inVars
      BY <1>11 DEF FlushSend
    <2>2. PICK r \in SendResults(CopyOutboundBatch) :
            stack' = IF r.err
                     THEN FlushFailed(Tail(stack), Head(stack).ev)
                     ELSE <<FlushFrame(r.sent, r.again \/ r.sent < Len(CopyOutboundBatch),
                                       Head(stack).ev)>> \o Tail(stack)
      BY <1>11 DEF FlushSend
    <2> DEFINE f == FlushFrame(r.sent, r.again \/ r.sent < Len(CopyOutboundBatch), Head(stack).ev)
    <2>3. f.op # "read" /\ stack' \in {FlushFailed(Tail(stack), Head(stack).ev),
                                       <<f>> \o Tail(stack)}
      BY <2>2 DEF FlushFrame
    <2> HIDE DEF f
    <2>4. Tail(stack) \in Seq(Frame)
      BY <1>1, <2>1, PopFrame
    <2>5. /\ Undisturbed(Tail(stack), <<f>> \o Tail(stack))
          /\ Undisturbed(Tail(stack), FlushFailed(Tail(stack), Head(stack).ev))
      BY <2>3, <2>4, UndisturbedPush, UndisturbedCore
    <2> QED
      BY <1>4, <2>1, <2>3, <2>5
  <1>12. CASE FlushBlocked \/ FlushDone
    <2> DEFINE s == Tail(stack)
               e == Head(stack).ev
    <2>1. Running("flush") /\ UNCHANGED inVars
      BY <1>12 DEF FlushBlocked, FlushDone
    <2>2. stack' \in {s, FlushFailed(s, e), <<Cb("flushComplete")>> \o s}
      <3>1. CASE FlushBlocked
        BY <3>1, Zenon DEF FlushBlocked
      <3>2. CASE FlushDone
        BY <3>2, Zenon DEF FlushDone
      <3> QED
        BY <1>12, <3>1, <3>2
    <2>3. s \in Seq(Frame)
      BY <1>1, <2>1, PopFrame
    <2> HIDE DEF s, e
    <2>4. Undisturbed(s, stack')
      BY <2>2, <2>3, UndisturbedCore
    <2> QED
      BY <1>4, <2>1, <2>4 DEF s
  <1>13. CASE Closing
    <2>1. UNCHANGED inVars
      BY <1>13 DEF Closing
    <2>2. CASE DoClose
      <3>1. Running("doClose") /\ CloseCall(Tail(stack))
        BY <2>2 DEF DoClose
      <3>2. Undisturbed(Tail(stack), stack')
        BY <1>1, <3>1, PopFrame, UndisturbedCore
      <3> QED
        BY <1>4, <2>1, <3>1, <3>2
    <2>3. CASE CloseStep /\ queue # <<>>
      <3>1. Running("close") /\ Dequeue(stack)
        BY <2>3 DEF CloseStep
      <3>2. Undisturbed(stack, stack')
        BY <1>1, <3>1, UndisturbedDequeue
      <3>3. ~Running("read")
        BY <3>1 DEF Running
      <3> QED
        BY <2>1, <3>2, <3>3, InboundRests
    <2>4. CASE CloseStep /\ queue = <<>>
      <3> DEFINE s == Tail(stack)
      <3>1. Running("close") /\ stack' \in {<<>> \o s, <<Cb("inactive")>> \o s}
        BY <2>4 DEF CloseStep
      <3>2. s \in Seq(Frame)
        BY <1>1, <3>1, PopFrame
      <3> HIDE DEF s
      <3>3. <<>> \o s = s
        BY <3>2
      <3>4. Undisturbed(s, stack')
        BY <3>1, <3>2, <3>3, UndisturbedCore
      <3> QED
        BY <1>4, <2>1, <3>1, <3>4 DEF s
    <2> QED
      BY <1>13, <2>2, <2>3, <2>4 DEF Closing
  <1>14. CASE HandleError
    <2>1. stack = <<>> /\ stack' = FailAndClose(stack) /\ UNCHANGED inVars /\ CanCall
      BY <1>14 DEF HandleError, CanCall
    <2> QED
      BY <1>1, <1>5, <2>1, UndisturbedCore
  <1>15. CASE HandleHangup
    <2>1. CloseCall(stack) /\ UNCHANGED inVars /\ CanCall
      BY <1>15 DEF HandleHangup, CanCall
    <2> QED
      BY <1>1, <1>5, <2>1, UndisturbedCore
  <1>16. CASE UNCHANGED vars
    <2>1. UNCHANGED inVars /\ stack' = stack /\ closed' = closed
      BY <1>16 DEF vars, coreVars, closeVars
    <2> QED
      BY <1>1, <2>1, InboundRests
  <1> QED
    BY <1>6, <1>7, <1>8, <1>9, <1>10, <1>11, <1>12, <1>13, <1>14, <1>15, <1>16

(* Read and a ready event start a readReady when none has messages left.   *)
LEMMA InboundStarts ==
  ASSUME Inv, InboundInv, ReentrantRead = FALSE,
         Read \/ \E read, write \in BOOLEAN : HandleReady(read, write)
  PROVE  InboundInv'
  <1>1. stack \in Seq(Frame)
    BY StackIsFrames
  <1>2. NothingHeld /\ UNCHANGED inVars
    <2>1. ~SingleHeld
      BY DEF SingleHeld, FiringSingle, Read, HandleReady, CanCall, Running
    <2>2. ~BatchHeld
      <3> SUFFICES ASSUME NEW i, NEW n, FiringIn(stack, i, n)
                   PROVE  FALSE
        BY DEF BatchHeld
      <3>1. PICK j \in 1 .. Len(stack) : FiringAt(stack, j, i, n)
        BY DEF FiringIn
      <3>2. /\ j \in DOMAIN stack /\ stack # <<>>
            /\ stack[j].op = "read" /\ stack[j].batch /\ stack[j].i <= stack[j].n
        BY <1>1, <3>1 DEF FiringAt
      <3>3. ReadInterrupted
        BY <3>2 DEF ReadInterrupted
      <3> QED
        BY <3>2, <3>3 DEF Read, HandleReady
    <2> QED
      BY <2>1, <2>2 DEF InboundInv, Read, HandleReady
  <1>3. AllResting(stack')
    <2> DEFINE f == StartRead
    <2>1. Resting(f)
      BY DEF Resting, StartRead, ReadFrame
    <2>2. CASE Read
      <3>1. stack' = <<f>> \o stack
        BY <2>2 DEF Read
      <3> HIDE DEF f
      <3> QED
        BY <1>1, <1>2, <2>1, <3>1, ReadStarted DEF NothingHeld
    <2>3. ASSUME NEW read \in BOOLEAN, NEW write \in BOOLEAN, HandleReady(read, write)
          PROVE  AllResting(stack')
      <3> DEFINE h == FlushFrame(0, FALSE, TRUE)
                 b == IF write THEN <<h>> ELSE <<>>
      <3>1. stack' = (IF read /\ autoRead THEN <<f>> ELSE <<>>) \o b
        BY <2>3 DEF HandleReady
      <3>2. h.op # "read"
        BY DEF FlushFrame
      <3> HIDE DEF h, f
      <3>3. b \in Seq({h}) /\ \A k \in 1 .. Len(b) : b[k].op # "read"
        <4>1. CASE write
          <5>1. b = <<h>> /\ <<h>> \in Seq({h}) /\ Len(<<h>>) = 1 /\ <<h>>[1] = h
            BY <4>1
          <5>2. \A k \in 1 .. 1 : k = 1
            OBVIOUS
          <5> QED
            BY <3>2, <5>1, <5>2
        <4>2. CASE ~write
          BY <4>2
        <4> QED
          BY <4>1, <4>2
      <3> HIDE DEF b
      <3>4. AllResting(b)
        BY <3>3 DEF AllResting, Resting
      <3>5. AllResting(<<f>> \o b) /\ <<>> \o b = b
        BY <2>1, <3>3, <3>4, ReadStarted
      <3> QED
        BY <3>1, <3>4, <3>5
    <2> QED
      BY <2>2, <2>3
  <1>4. SocketOrder' /\ DeliveryOrder'
    BY <1>2 DEF InboundInv, SocketOrder, DeliveryOrder, inVars
  <1> QED
    BY <1>2, <1>3, <1>4 DEF InboundInv, NothingHeld, EmptySlots, inVars
-----------------------------------------------------------------------------
(* A receive call returns only datagrams that it took off the socket.      *)
LEMMA ReturnsWhatItTook ==
  ASSUME NEW limit \in Nat, Len(rx) \in Nat, NEW r \in ReceiveResults(limit)
  PROVE  r.n <= r.take
  BY DEF ReceiveResults, SystemReceives, FallbackReceives, Receipts, MinOf

(* The datagrams that leave the socket are the oldest, and what is left    *)
(* there is younger.                                                       *)
LEMMA SocketDrains ==
  ASSUME rx \in Seq(1 .. MaxArrivals), SocketOrder, DeliveryOrder, arrived' = arrived,
         delivered' = delivered, NEW take \in 0 .. Len(rx), rx' = SubSeq(rx, take + 1, Len(rx))
  PROVE  /\ SocketOrder' /\ DeliveryOrder'
         /\ \A s \in 1 .. take : \A x : x = rx[s] => Waiting(x)'
  <1>1. /\ Len(rx) \in Nat /\ take \in Nat /\ Len(rx') = Len(rx) - take
        /\ \A v \in 1 .. Len(rx) - take : rx'[v] = rx[take + v]
    OBVIOUS
  <1>2. \A v \in 1 .. Len(rx') : take + v \in 1 .. Len(rx) /\ rx'[v] = rx[take + v]
    BY <1>1
  <1>3. ASSUME NEW u \in 1 .. Len(rx'), NEW v \in 1 .. Len(rx'), u < v
        PROVE  rx'[u] < rx'[v]
    <2>1. take + u < take + v
      BY <1>1, <1>3
    <2> QED
      BY <1>2, <2>1 DEF SocketOrder
  <1>4. SocketOrder'
    BY <1>2, <1>3 DEF SocketOrder
  <1>5. DeliveryOrder'
    BY <1>2 DEF DeliveryOrder
  <1>6. ASSUME NEW s \in 1 .. take, NEW x, x = rx[s]
        PROVE  Waiting(x)'
    <2>1. s \in 1 .. Len(rx)
      BY <1>1
    <2>2. x \in 1 .. arrived /\ \A u \in 1 .. Len(delivered) : delivered[u] < x
      BY <1>6, <2>1 DEF SocketOrder, DeliveryOrder
    <2>3. ASSUME NEW v \in 1 .. Len(rx')
          PROVE  x < rx'[v]
      <3>1. s < take + v
        BY <1>1
      <3> QED
        BY <1>2, <1>6, <2>1, <3>1 DEF SocketOrder
    <2> QED
      BY <2>2, <2>3 DEF Waiting
  <1> QED
    BY <1>4, <1>5, <1>6

(* Which of the three situations a running readReady is in.                *)
LEMMA WhichRuns ==
  ASSUME Inv, InboundInv, Running("read")
  PROVE  LET f == Head(stack)
             s == Tail(stack)
         IN  /\ f \in ReadFrames /\ f.op = "read" /\ s \in Seq(Frame) /\ AllResting(s)
             /\ \/ held = 0 /\ EmptySlots /\ Resting(f)
                \/ f.batch /\ f.i <= f.n /\ f.single = Nil /\ Window(f.i, f.n)
                \/ /\ ~closed /\ held = 1 /\ EmptySlots
                   /\ f.batch /\ f.i = 1 /\ f.n = 1 /\ f.single # Nil /\ Waiting(f.single)
  <1> DEFINE f == Head(stack)
             s == Tail(stack)
  <1>1. /\ stack \in Seq(Frame) /\ stack # <<>> /\ f \in Frame /\ f.op = "read"
        /\ s \in Seq(Frame)
    BY StackIsFrames, PopFrame DEF Running
  <1>2. f \in ReadFrames
    BY <1>1, FrameKinds
  <1>3. CASE NothingHeld
    BY <1>1, <1>2, <1>3, ReadRunning DEF NothingHeld
  <1>4. CASE BatchHeld
    <2>1. PICK i, n : FiringIn(stack, i, n) /\ Window(i, n)
      BY <1>4 DEF BatchHeld
    <2>2. f.batch /\ f.i = i /\ f.n = n /\ f.single = Nil /\ i <= n /\ AllResting(s)
      BY <1>1, <2>1, ReadRunning
    <2>3. Window(f.i, f.n) /\ f.i <= f.n
      BY <2>1, <2>2
    <2> QED
      BY <1>1, <1>2, <2>2, <2>3
  <1>5. CASE SingleHeld
    BY <1>1, <1>2, <1>5 DEF SingleHeld, FiringSingle
  <1> QED
    BY <1>3, <1>4, <1>5 DEF InboundInv

(* A batch is received.                                                    *)
LEMMA InboundReceives ==
  ASSUME Inv, InboundInv, ReadReceive
  PROVE  InboundInv'
  <1> DEFINE f == Head(stack)
             s == Tail(stack)
             limit == MinOf(f.remaining, ReadBatch)
  <1>1. /\ Running("read") /\ ~f.batch /\ f.remaining > 0 /\ ~closed
        /\ UNCHANGED <<closed, arrived, delivered>>
    BY DEF ReadReceive, ReadContinues, closeVars
  <1>2. PICK r \in ReceiveResults(limit) :
          /\ rx' = SubSeq(rx, r.take + 1, Len(rx))
          /\ inBatch' = IF f.remaining > 1 THEN Unpack(r.n) ELSE inBatch
          /\ held' = held + r.n
          /\ stack' = <<[f EXCEPT
                           !.batch = TRUE, !.i = 1, !.n = r.n,
                           !.single = IF f.remaining <= 1 /\ r.n = 1 THEN rx[1] ELSE Nil,
                           !.drained = r.drained, !.err = r.err]>> \o s
    BY DEF ReadReceive
  <1>3. f \in ReadFrames /\ s \in Seq(Frame) /\ AllResting(s) /\ held = 0 /\ EmptySlots
    BY <1>1, WhichRuns
  <1>4. /\ rx \in Seq(1 .. MaxArrivals) /\ Len(rx) \in Nat
        /\ inBatch \in [Slots -> 0 .. MaxArrivals]
        /\ SocketOrder /\ DeliveryOrder
    BY DEF Inv, TypeOK, InboundInv
  <1>5. limit \in Nat /\ limit <= ReadBatch /\ (f.remaining <= 1 => limit <= 1)
    BY <1>1, <1>3, BatchAssumption DEF ReadFrames, MinOf
  <1> DEFINE x == IF f.remaining <= 1 /\ r.n = 1 THEN rx[1] ELSE Nil
             g == [f EXCEPT !.batch = TRUE, !.i = 1, !.n = r.n, !.single = x,
                            !.drained = r.drained, !.err = r.err]
  <1>6. stack' = <<g>> \o s
    BY <1>2
  <1>7. g.op = "read" /\ g.batch = TRUE /\ g.i = 1 /\ g.n = r.n /\ g.single = x
    BY <1>3 DEF ReadFrames
  <1> HIDE DEF limit, g, f, s
  <1>8. /\ r.n \in 0 .. limit /\ r.n <= r.take /\ r.take \in 0 .. Len(rx)
    BY <1>2, <1>4, <1>5, ReceiveResultsBounds, ReturnsWhatItTook
  <1>9. /\ SocketOrder' /\ DeliveryOrder'
        /\ \A v \in 1 .. r.take : \A y : y = rx[v] => Waiting(y)'
    BY <1>1, <1>2, <1>4, <1>8, SocketDrains
  <1>10. CASE r.n = 0
    <2>1. x = Nil /\ Resting(g)
      BY <1>7, <1>10 DEF Resting
    <2>2. AllResting(stack')
      BY <1>3, <1>6, <2>1, ReadStarted
    <2>3. held' = 0 /\ EmptySlots'
      BY <1>2, <1>3, <1>4, <1>10 DEF EmptySlots, Unpack, Slots
    <2> QED
      BY <1>9, <2>2, <2>3 DEF InboundInv, NothingHeld
  <1>11. CASE r.n # 0 /\ f.remaining > 1
    <2>1. x = Nil /\ 1 <= r.n
      BY <1>3, <1>5, <1>8, <1>11 DEF ReadFrames
    <2>2. FiringIn(stack', 1, r.n)
      <3> HIDE DEF x
      <3> QED
        BY <1>3, <1>6, <1>7, <2>1, ReadStarted
    <2>3. \A v \in Slots : inBatch'[v] = IF v <= r.n THEN rx[v] ELSE inBatch[v]
      BY <1>2, <1>11 DEF Unpack
    <2>20. \A v \in 1 .. r.n : v \in Slots /\ v \in 1 .. r.take /\ v \in 1 .. Len(rx)
      <3>1. r.n <= ReadBatch /\ ReadBatch \in Nat /\ limit \in Nat
        BY <1>5, <1>8, BatchAssumption
      <3> QED
        BY <1>4, <1>8, <3>1 DEF Slots
    <2>4. \A v \in 1 .. r.n : inBatch'[v] = rx[v]
      BY <2>3, <2>20
    <2>5. \A v \in Slots : v \notin 1 .. r.n => inBatch'[v] = Nil
      BY <1>3, <1>8, <2>3 DEF EmptySlots, Slots
    <2>6. \A v \in 1 .. r.n : Waiting(inBatch[v])'
      <3> SUFFICES ASSUME NEW v \in 1 .. r.n, NEW y, y = inBatch'[v]
                   PROVE  Waiting(y)'
        BY DEF Waiting
      <3> QED
        BY <1>9, <2>4, <2>20
    <2>7. \A v, w \in 1 .. r.n : v < w => inBatch'[v] < inBatch'[w]
      BY <1>4, <2>4, <2>20 DEF SocketOrder
    <2>8. held' = r.n - 1 + 1
      BY <1>2, <1>3, <1>8
    <2>9. Window(1, r.n)'
      BY <2>5, <2>6, <2>7, <2>8 DEF Window
    <2> QED
      BY <1>9, <2>2, <2>9 DEF InboundInv, BatchHeld
  <1>12. CASE r.n # 0 /\ f.remaining <= 1
    <2>1. r.n = 1
      BY <1>5, <1>8, <1>12
    <2>2. x = rx[1] /\ 1 \in 1 .. r.take /\ 1 \in 1 .. Len(rx)
      BY <1>8, <1>12, <2>1
    <2>3. PICK y : y = rx[1]
      OBVIOUS
    <2>4. Waiting(y)' /\ y # Nil
      <3>1. Waiting(y)'
        BY <1>9, <2>2, <2>3
      <3>2. rx[1] \in 1 .. MaxArrivals
        BY <1>4, <2>2, Element
      <3> QED
        BY <2>3, <3>1, <3>2, BatchAssumption DEF Nil
    <2>5. FiringSingle(stack', y)
      <3>1. stack' # <<>> /\ Head(stack') = g /\ Tail(stack') = s
        BY <1>3, <1>6
      <3>2. g.single = y
        BY <1>7, <2>2, <2>3
      <3> HIDE DEF x
      <3> QED
        BY <1>3, <1>7, <2>1, <2>4, <3>1, <3>2 DEF FiringSingle
    <2>6. ~closed' /\ held' = 1 /\ EmptySlots'
      BY <1>1, <1>2, <1>3, <1>12, <2>1 DEF EmptySlots, ReadFrames
    <2> HIDE DEF x
    <2>7. SingleHeld'
      BY <2>4, <2>5, <2>6 DEF SingleHeld
    <2> QED
      BY <1>9, <2>7 DEF InboundInv
  <1> QED
    BY <1>3, <1>8, <1>10, <1>11, <1>12 DEF ReadFrames
(* A message is taken out of its slot and fired.                           *)
LEMMA InboundFires ==
  ASSUME Inv, InboundInv, ReadFire
  PROVE  InboundInv'
  <1> DEFINE f == Head(stack)
             s == Tail(stack)
             payload == IF f.single # Nil THEN f.single ELSE inBatch[f.i]
             g == [f EXCEPT !.i = @ + 1, !.single = Nil, !.read = TRUE]
             c == Cb("read")
  <1>1. /\ Running("read") /\ f.batch /\ f.i <= f.n /\ ~closed
        /\ inBatch' = IF f.single # Nil THEN inBatch ELSE [inBatch EXCEPT ![f.i] = Nil]
        /\ held' = IF payload # Nil THEN held - 1 ELSE held
        /\ delivered' = Append(delivered, payload)
        /\ stack' = <<c, g>> \o s
        /\ UNCHANGED <<closed, rx, arrived>>
    BY DEF ReadFire, ReadAbandoned, closeVars
  <1>2. /\ f \in ReadFrames /\ s \in Seq(Frame) /\ AllResting(s)
        /\ \/ f.single = Nil /\ Window(f.i, f.n)
           \/ held = 1 /\ EmptySlots /\ f.i = 1 /\ f.n = 1 /\ f.single # Nil /\ Waiting(f.single)
    BY <1>1, WhichRuns DEF Resting
  <1>3. /\ inBatch \in [Slots -> 0 .. MaxArrivals] /\ delivered \in Seq(0 .. MaxArrivals)
        /\ SocketOrder /\ DeliveryOrder /\ arrived \in 0 .. MaxArrivals
    BY DEF Inv, TypeOK, InboundInv
  <1>4. /\ f.i \in Slots /\ f.i \in Nat /\ f.n \in Nat /\ f.n \in Slots
        /\ \A v \in f.i .. f.n : v \in Slots
    BY <1>1, <1>2, BatchAssumption DEF ReadFrames, Slots
  <1>5. g.op = "read" /\ g.batch = TRUE /\ g.i = f.i + 1 /\ g.n = f.n /\ g.single = Nil
    BY <1>1, <1>2 DEF ReadFrames
  <1>6. c.op # "read"
    BY DEF Cb
  <1> HIDE DEF f, s, g, c
  <1>7. Waiting(payload) /\ payload \in Nat /\ payload # Nil
    <2>1. Waiting(payload)
      <3>1. CASE f.single = Nil /\ Window(f.i, f.n)
        <4>1. f.i \in f.i .. f.n
          BY <1>1, <1>4
        <4> QED
          BY <3>1, <4>1 DEF Window
      <3>2. CASE f.single # Nil /\ Waiting(f.single)
        BY <3>2
      <3> QED
        BY <1>2, <3>1, <3>2
    <2> HIDE DEF payload
    <2>2. payload \in 1 .. arrived
      BY <2>1 DEF Waiting
    <2> QED
      BY <1>3, <2>1, <2>2 DEF Nil
  <1> HIDE DEF payload
  <1>8. /\ Len(delivered) \in Nat /\ Len(delivered') = Len(delivered) + 1
        /\ \A u \in 1 .. Len(delivered) : delivered'[u] = delivered[u]
        /\ delivered'[Len(delivered) + 1] = payload
    BY <1>1, <1>3, AppendElements
  <1>9. \A u \in 1 .. Len(delivered') : u \in 1 .. Len(delivered) \/ u = Len(delivered) + 1
    BY <1>8
  <1>10. SocketOrder'
    BY <1>1, <1>3 DEF SocketOrder
  <1>11. DeliveryOrder'
    <2>1. ASSUME NEW u \in 1 .. Len(delivered'), NEW v \in 1 .. Len(delivered'), u < v
          PROVE  delivered'[u] < delivered'[v]
      <3>1. u \in 1 .. Len(delivered)
        BY <1>8, <2>1
      <3>2. CASE v \in 1 .. Len(delivered)
        BY <1>3, <1>8, <2>1, <3>1, <3>2 DEF DeliveryOrder
      <3>3. CASE v = Len(delivered) + 1
        BY <1>7, <1>8, <3>1, <3>3 DEF Waiting
      <3> QED
        BY <1>9, <3>2, <3>3
    <2>2. ASSUME NEW u \in 1 .. Len(delivered')
          PROVE  delivered'[u] \in 1 .. arrived /\ \A v \in 1 .. Len(rx) : delivered'[u] < rx[v]
      BY <1>3, <1>7, <1>8, <1>9, <2>2 DEF DeliveryOrder, Waiting
    <2> QED
      BY <1>1, <2>1, <2>2 DEF DeliveryOrder
  <1>12. <<c, g>> \o s = <<c>> \o (<<g>> \o s) /\ <<g>> \o s \in Seq(Frame \cup {g})
    BY <1>2
  <1>13. Undisturbed(<<g>> \o s, stack')
    BY <1>1, <1>6, <1>12, UndisturbedPush
  <1>14. CASE f.single # Nil
    <2>1. Resting(g)
      BY <1>2, <1>5, <1>14 DEF Resting
    <2>2. AllResting(stack')
      BY <1>2, <1>13, <2>1, ReadStarted DEF Undisturbed
    <2>3. held' = 0 /\ EmptySlots'
      BY <1>1, <1>2, <1>7, <1>14 DEF EmptySlots
    <2> QED
      BY <1>10, <1>11, <2>2, <2>3 DEF InboundInv, NothingHeld
  <1>15. CASE f.single = Nil
    <2>1. Window(f.i, f.n)
      BY <1>2, <1>15
    <2>2. inBatch' = [inBatch EXCEPT ![f.i] = Nil] /\ held' = f.n - f.i
      <3>1. inBatch' = [inBatch EXCEPT ![f.i] = Nil]
        BY <1>1, <1>15
      <3>2. held = f.n - f.i + 1
        BY <2>1 DEF Window
      <3>3. held' = held - 1
        BY <1>1, <1>7
      <3>4. held' = f.n - f.i
        BY <1>4, <3>2, <3>3
      <3> QED
        BY <3>1, <3>4
    <2>3. /\ inBatch'[f.i] = Nil
          /\ \A v \in Slots : v # f.i => inBatch'[v] = inBatch[v]
      BY <1>3, <1>4, <2>2
    <2>4. payload = inBatch[f.i]
      BY <1>15 DEF payload
    <2>5. CASE f.i = f.n
      <3>1. Resting(g)
        BY <1>4, <1>5, <2>5 DEF Resting
      <3>2. AllResting(stack')
        BY <1>2, <1>13, <3>1, ReadStarted DEF Undisturbed
      <3>3. held' = 0
        BY <1>4, <2>2, <2>5
      <3>4. EmptySlots'
        <4>1. \A v \in Slots : v # f.i => v \notin f.i .. f.n
          BY <1>4, <2>5
        <4> QED
          BY <2>1, <2>3, <4>1 DEF EmptySlots, Window
      <3> QED
        BY <1>10, <1>11, <3>2, <3>3, <3>4 DEF InboundInv, NothingHeld
    <2>6. CASE f.i # f.n
      <3>1. f.i + 1 <= f.n /\ f.i \in f.i .. f.n
        BY <1>1, <1>4, <2>6
      <3>2. FiringIn(<<g>> \o s, f.i + 1, f.n)
        BY <1>2, <1>5, <3>1, ReadStarted
      <3>3. FiringIn(stack', f.i + 1, f.n)
        BY <1>13, <3>2 DEF Undisturbed
      <3>4. /\ \A v \in f.i + 1 .. f.n : v \in f.i .. f.n /\ v # f.i /\ v \in Slots /\ f.i < v
            /\ \A v \in Slots : v \notin f.i + 1 .. f.n => v = f.i \/ v \notin f.i .. f.n
        BY <1>4
      <3>5. \A v \in Slots : v \notin f.i + 1 .. f.n => inBatch'[v] = Nil
        BY <2>1, <2>3, <3>4 DEF Window
      <3>6. ASSUME NEW v \in f.i + 1 .. f.n, NEW y, y = inBatch'[v]
            PROVE  Waiting(y)'
        <4>1. y = inBatch[v] /\ Waiting(y) /\ payload < y
          BY <2>1, <2>3, <2>4, <3>1, <3>4, <3>6 DEF Window
        <4>2. ASSUME NEW u \in 1 .. Len(delivered')
              PROVE  delivered'[u] < y
          BY <1>8, <1>9, <4>1, <4>2 DEF Waiting
        <4> QED
          BY <1>1, <4>1, <4>2 DEF Waiting
      <3>7. \A v, w \in f.i + 1 .. f.n : v < w => inBatch'[v] < inBatch'[w]
        BY <2>1, <2>3, <3>4 DEF Window
      <3>8. \A v \in f.i + 1 .. f.n : Waiting(inBatch[v])'
        BY <3>6 DEF Waiting
      <3>9. held' = f.n - (f.i + 1) + 1
        BY <1>4, <2>2
      <3> DEFINE a == f.i + 1
                 b == f.n
      <3>10. PICK i, n : i = a /\ n = b
        OBVIOUS
      <3>11. FiringIn(stack', i, n) /\ Window(i, n)'
        BY <3>3, <3>5, <3>7, <3>8, <3>9, <3>10 DEF Window
      <3>12. BatchHeld'
        BY <3>11 DEF BatchHeld
      <3> QED
        BY <1>10, <1>11, <3>12 DEF InboundInv
    <2> QED
      BY <2>5, <2>6
  <1> QED
    BY <1>14, <1>15
(* The rest of a batch is released after a handler closed the endpoint.    *)
LEMMA InboundDiscards ==
  ASSUME Inv, InboundInv, ReadDiscard
  PROVE  InboundInv'
  <1> DEFINE f == Head(stack)
             s == Tail(stack)
             full == {v \in f.i .. f.n : inBatch[v] # Nil}
             g == [f EXCEPT !.i = f.n + 1]
  <1>1. /\ Running("read") /\ f.batch /\ f.i <= f.n /\ closed
        /\ inBatch' = [v \in Slots |-> IF v \in f.i .. f.n THEN Nil ELSE inBatch[v]]
        /\ held' = held - Cardinality(full)
        /\ stack' = <<g>> \o s
        /\ UNCHANGED <<closed, rx, arrived, delivered>>
    BY DEF ReadDiscard, ReadAbandoned, closeVars
  <1>2. /\ f \in ReadFrames /\ f.op = "read" /\ s \in Seq(Frame) /\ AllResting(s)
        /\ f.single = Nil /\ Window(f.i, f.n)
    BY <1>1, WhichRuns DEF Resting
  <1>3. f.i \in Nat /\ f.n \in Nat
    BY <1>2, BatchAssumption DEF ReadFrames
  <1>4. g.op = "read" /\ g.i = f.n + 1 /\ g.n = f.n /\ g.single = Nil
    BY <1>2 DEF ReadFrames
  <1>5. Resting(g)
    BY <1>3, <1>4 DEF Resting
  <1> HIDE DEF f, s, g
  <1>6. AllResting(stack')
    BY <1>1, <1>2, <1>5, ReadStarted
  <1>7. EmptySlots'
    BY <1>1, <1>2 DEF EmptySlots, Window
  <1>8. full = f.i .. f.n
    <2>1. \A v \in f.i .. f.n : Waiting(inBatch[v])
      BY <1>2 DEF Window
    <2>2. \A v \in f.i .. f.n : inBatch[v] # Nil
      BY <2>1 DEF Waiting, Nil
    <2> QED
      BY <2>2
  <1>9. held' = 0
    <2> HIDE DEF full
    <2>1. Cardinality(full) = f.n - f.i + 1
      <3>1. PICK a \in Nat, b \in Nat : a = f.i /\ b = f.n
        BY <1>3
      <3>2. a <= b
        BY <1>1, <3>1
      <3>3. Cardinality(a .. b) = b - a + 1
        BY <3>2, FS_Interval
      <3> QED
        BY <1>8, <3>1, <3>3
    <2>2. held = f.n - f.i + 1
      BY <1>2 DEF Window
    <2> QED
      BY <1>1, <1>3, <2>1, <2>2
  <1>10. SocketOrder' /\ DeliveryOrder'
    BY <1>1 DEF InboundInv, SocketOrder, DeliveryOrder
  <1> QED
    BY <1>6, <1>7, <1>9, <1>10 DEF InboundInv, NothingHeld

(* The end of a batch and of readReady.                                    *)
LEMMA InboundEnds ==
  ASSUME Inv, InboundInv, ReadBatchDone \/ ReadExit
  PROVE  InboundInv'
  <1> DEFINE f == Head(stack)
             s == Tail(stack)
             g == ReadFrame(f.remaining - f.n, f.read)
  <1>1. /\ Running("read") /\ ~(f.batch /\ f.i <= f.n)
        /\ UNCHANGED <<closed, rx, arrived, delivered, inBatch, held>>
    <2>1. CASE ReadExit
      BY <2>1 DEF ReadExit, closeVars, inVars
    <2>2. CASE ReadBatchDone
      <3>1. Running("read") /\ f.i > f.n
        BY <2>2 DEF ReadBatchDone
      <3>2. f \in ReadFrames
        BY <3>1, WhichRuns
      <3>3. f.i \in Nat /\ f.n \in Nat
        BY <3>2, BatchAssumption DEF ReadFrames
      <3>4. ~(f.i <= f.n)
        BY <3>1, <3>3
      <3> QED
        BY <2>2, <3>4 DEF ReadBatchDone, closeVars, inVars
    <2> QED
      BY <2>1, <2>2
  <1>2. s \in Seq(Frame) /\ AllResting(s) /\ held = 0 /\ EmptySlots
    <2>1. f \in ReadFrames
      BY <1>1, WhichRuns
    <2>2. f.i \in Nat /\ f.n \in Nat
      BY <2>1, BatchAssumption DEF ReadFrames
    <2>3. ~(f.batch /\ f.i = 1 /\ f.n = 1)
      BY <1>1, <2>2
    <2> QED
      BY <1>1, <2>3, WhichRuns
  <1>3. ReadFinish(f.read) \in {<<Cb("readComplete")>> \o s, <<>> \o s}
    BY DEF ReadFinish
  <1>4. stack' \in {FailAndClose(s), ReadFinish(f.read), <<g>> \o s}
    BY <1>1, Zenon DEF ReadBatchDone, ReadExit
  <1>5. <<>> \o s = s
    BY <1>2
  <1>6. Resting(g)
    BY DEF Resting, ReadFrame
  <1> HIDE DEF f, s, g
  <1>7. /\ Undisturbed(s, FailAndClose(s)) /\ Undisturbed(s, <<Cb("readComplete")>> \o s)
        /\ AllResting(<<g>> \o s)
    BY <1>2, <1>6, UndisturbedCore, ReadStarted
  <1>8. AllResting(stack')
    BY <1>2, <1>3, <1>4, <1>5, <1>7 DEF Undisturbed
  <1>9. SocketOrder' /\ DeliveryOrder' /\ EmptySlots'
    BY <1>1, <1>2 DEF InboundInv, SocketOrder, DeliveryOrder, EmptySlots
  <1> QED
    BY <1>1, <1>2, <1>8, <1>9 DEF InboundInv, NothingHeld

(* A new datagram is the youngest.                                         *)
LEMMA InboundArrives ==
  ASSUME Inv, InboundInv, Arrive
  PROVE  InboundInv'
  <1> DEFINE new == arrived + 1
  <1>1. /\ rx' = Append(rx, new) /\ arrived' = new
        /\ UNCHANGED <<stack, closed, inBatch, held, delivered>>
    BY DEF Arrive, coreVars, closeVars
  <1>2. rx \in Seq(Nat) /\ arrived \in Nat /\ delivered \in Seq(Nat) /\ new \in Nat
        /\ SocketOrder /\ DeliveryOrder
    BY BatchAssumption DEF Inv, TypeOK, InboundInv
  <1>3. \A x \in 1 .. arrived : x \in 1 .. new /\ x < new
    BY <1>2
  <1> HIDE DEF new
  <1>4. /\ Len(rx) \in Nat /\ Len(rx') = Len(rx) + 1
        /\ \A u \in 1 .. Len(rx) : rx'[u] = rx[u]
        /\ rx'[Len(rx) + 1] = new
    BY <1>1, <1>2, AppendElements
  <1>5. \A u \in 1 .. Len(rx') : u \in 1 .. Len(rx) \/ u = Len(rx) + 1
    BY <1>4
  <1>6. new \in 1 .. new
    BY <1>2 DEF new
  <1>7. SocketOrder'
    <2>1. ASSUME NEW u \in 1 .. Len(rx'), NEW v \in 1 .. Len(rx'), u < v
          PROVE  rx'[u] < rx'[v]
      <3>1. u \in 1 .. Len(rx)
        BY <1>4, <2>1
      <3>2. CASE v \in 1 .. Len(rx)
        BY <1>2, <1>4, <2>1, <3>1, <3>2 DEF SocketOrder
      <3>3. CASE v = Len(rx) + 1
        BY <1>2, <1>3, <1>4, <3>1, <3>3 DEF SocketOrder
      <3> QED
        BY <1>5, <3>2, <3>3
    <2>2. ASSUME NEW v \in 1 .. Len(rx')
          PROVE  rx'[v] \in 1 .. new
      BY <1>2, <1>3, <1>4, <1>5, <1>6 DEF SocketOrder
    <2> QED
      BY <1>1, <2>1, <2>2 DEF SocketOrder
  <1>8. ASSUME NEW x, x \in 1 .. arrived, \A v \in 1 .. Len(rx) : x < rx[v]
        PROVE  x \in 1 .. new /\ \A v \in 1 .. Len(rx') : x < rx'[v]
    BY <1>3, <1>4, <1>5, <1>8
  <1>9. DeliveryOrder'
    <2>1. ASSUME NEW u \in 1 .. Len(delivered)
          PROVE  /\ delivered[u] \in 1 .. new
                 /\ \A v \in 1 .. Len(rx') : delivered[u] < rx'[v]
      <3>1. delivered[u] \in 1 .. arrived /\ \A v \in 1 .. Len(rx) : delivered[u] < rx[v]
        BY <1>2 DEF DeliveryOrder
      <3> QED
        BY <1>8, <3>1
    <2> QED
      BY <1>1, <1>2, <2>1 DEF DeliveryOrder
  <1>10. ASSUME NEW x, Waiting(x)
         PROVE  Waiting(x)'
    <2>1. x \in 1 .. new /\ \A v \in 1 .. Len(rx') : x < rx'[v]
      BY <1>8, <1>10 DEF Waiting
    <2> QED
      BY <1>1, <1>10, <2>1 DEF Waiting
  <1>11. NothingHeld => NothingHeld'
    BY <1>1 DEF NothingHeld, EmptySlots
  <1>12. ASSUME BatchHeld
         PROVE  BatchHeld'
    <2>1. PICK i, n : FiringIn(stack, i, n) /\ Window(i, n)
      BY <1>12 DEF BatchHeld
    <2>2. FiringIn(stack', i, n)
      BY <1>1, <2>1
    <2>3. \A v \in i .. n : Waiting(inBatch[v])'
      <3> SUFFICES ASSUME NEW v \in i .. n, NEW y, y = inBatch[v]
                   PROVE  Waiting(y)'
        BY <1>1 DEF Waiting
      <3> QED
        BY <1>10, <2>1 DEF Window
    <2>4. Window(i, n)'
      BY <1>1, <2>1, <2>3 DEF Window
    <2> QED
      BY <2>2, <2>4 DEF BatchHeld
  <1>13. ASSUME SingleHeld
         PROVE  SingleHeld'
    <2>1. PICK x : FiringSingle(stack, x) /\ Waiting(x)
      BY <1>13 DEF SingleHeld
    <2>2. FiringSingle(stack', x) /\ Waiting(x)'
      BY <1>1, <1>10, <2>1
    <2> QED
      BY <1>1, <1>13, <2>2 DEF SingleHeld, EmptySlots
  <1> QED
    BY <1>7, <1>9, <1>11, <1>12, <1>13 DEF InboundInv

LEMMA InboundInit == Init => InboundInv
  <1> SUFFICES ASSUME Init
               PROVE  InboundInv
    OBVIOUS
  <1> DEFINE f == Cb("active")
  <1>1. /\ stack = <<f>> \o <<>> /\ rx = <<>> /\ delivered = <<>> /\ held = 0
        /\ inBatch = [s \in Slots |-> Nil]
    BY DEF Init, CoreInit
  <1>2. Resting(f)
    BY DEF Cb, Resting
  <1>3. AllResting(<<>>) /\ <<>> \in Seq(Frame)
    BY DEF AllResting
  <1> HIDE DEF f
  <1>4. AllResting(stack)
    BY <1>1, <1>2, <1>3, ReadStarted
  <1>5. SocketOrder /\ DeliveryOrder
    BY <1>1 DEF SocketOrder, DeliveryOrder
  <1> QED
    BY <1>1, <1>4, <1>5 DEF InboundInv, NothingHeld, EmptySlots

LEMMA InboundNext ==
  ASSUME ReentrantRead = FALSE, Inv, InboundInv, [Next]_vars
  PROVE  InboundInv'
  BY InboundOthers, InboundStarts, InboundReceives, InboundFires, InboundDiscards, InboundEnds,
     InboundArrives, Zenon DEF Next, MethodStep

(* When no handler starts a readReady inside one that still has messages   *)
(* of its batch to deliver, the datagrams delivered, in the slots and in   *)
(* the socket are always in the order of their arrival.                    *)
THEOREM InboundInvariance ==
  ASSUME ReentrantRead = FALSE
  PROVE  Spec => []InboundInv
  <1>1. Inv /\ InboundInv /\ [Next]_vars => InboundInv'
    <2> SUFFICES ASSUME Inv, InboundInv, [Next]_vars
                 PROVE  InboundInv'
      OBVIOUS
    <2> QED
      BY InboundNext
  <1> QED
    BY <1>1, InboundInit, Invariance, PTL DEF Spec

(* Then every datagram reaches the pipeline after all those that the       *)
(* socket held before it, at most once, and no empty slot is delivered.    *)
THEOREM DeliveriesInOrder ==
  ASSUME ReentrantRead = FALSE
  PROVE  Spec => []DeliveredInOrder
  <1>1. Inv /\ InboundInv => DeliveredInOrder
    <2> SUFFICES ASSUME Inv, DeliveryOrder
                 PROVE  DeliveredInOrder
      BY DEF InboundInv
    <2>1. delivered \in Seq(0 .. MaxArrivals) /\ DOMAIN delivered = 1 .. Len(delivered)
      BY DEF Inv, TypeOK
    <2>2. \A u \in DOMAIN delivered : delivered[u] # Nil
      BY <2>1 DEF DeliveryOrder, Nil
    <2> QED
      BY <2>1, <2>2 DEF DeliveredInOrder, StrictlyIncreasing, DeliveryOrder, Range
  <1> QED
    BY <1>1, InboundInvariance, Invariance, PTL

(* The slots that the readReadys of a stack still answer for.              *)
LiveSlots(s) ==
  UNION {s[i].i .. s[i].n :
           i \in {j \in {k \in DOMAIN s : s[k].op = "read" /\ s[k].batch} : s[j].single = Nil}}

LiveSingles(s) == {i \in {k \in DOMAIN s : s[k].op = "read" /\ s[k].batch} : s[i].single # Nil}

LEMMA RestingHasNone ==
  ASSUME NEW f \in Frame, Resting(f), f.op = "read", f.batch
  PROVE  f.i .. f.n = {} /\ f.single = Nil
  <1>1. f \in ReadFrames
    BY FrameKinds
  <1>2. f.i \in Nat /\ f.n \in Nat
    BY <1>1, BatchAssumption DEF ReadFrames
  <1>3. ~(f.i <= f.n) /\ f.single = Nil
    BY DEF Resting
  <1> QED
    BY <1>2, <1>3

LEMMA LiveResting ==
  ASSUME NEW s \in Seq(Frame), AllResting(s)
  PROVE  LiveSlots(s) = {} /\ LiveSingles(s) = {}
  <1>1. DOMAIN s = 1 .. Len(s) /\ \A k \in DOMAIN s : s[k] \in Frame
    BY Element
  <1>2. \A k \in DOMAIN s : s[k].op = "read" /\ s[k].batch
                            => s[k].i .. s[k].n = {} /\ s[k].single = Nil
    BY <1>1, RestingHasNone DEF AllResting
  <1> QED
    BY <1>2 DEF LiveSlots, LiveSingles

LEMMA LiveBatch ==
  ASSUME NEW s \in Seq(Frame), NEW i, NEW n, FiringIn(s, i, n)
  PROVE  /\ LiveSlots(s) = i .. n /\ LiveSingles(s) = {}
         /\ i \in Nat /\ n \in Nat /\ i <= n
  <1>1. DOMAIN s = 1 .. Len(s) /\ \A k \in DOMAIN s : s[k] \in Frame
    BY Element
  <1>2. PICK j \in DOMAIN s : FiringAt(s, j, i, n)
    BY <1>1 DEF FiringIn
  <1>3. /\ s[j].op = "read" /\ s[j].batch /\ s[j].i = i /\ s[j].n = n /\ s[j].single = Nil
        /\ i <= n
    BY <1>2 DEF FiringAt
  <1>4. i \in Nat /\ n \in Nat
    <2>1. s[j] \in ReadFrames
      BY <1>1, <1>3, FrameKinds
    <2> QED
      BY <1>3, <2>1, BatchAssumption DEF ReadFrames
  <1>5. ASSUME NEW k \in DOMAIN s, k # j, s[k].op = "read", s[k].batch
        PROVE  s[k].i .. s[k].n = {} /\ s[k].single = Nil
    <2>1. k \notin 1 .. j - 1
      BY <1>2, <1>5 DEF FiringAt
    <2>2. k \in j + 1 .. Len(s)
      BY <1>1, <1>5, <2>1
    <2>3. Resting(s[k])
      BY <1>2, <2>2 DEF FiringAt
    <2> QED
      BY <1>1, <1>5, <2>3, RestingHasNone
  <1>6. LiveSingles(s) = {}
    BY <1>3, <1>5 DEF LiveSingles
  <1>7. LiveSlots(s) = i .. n
    BY <1>3, <1>5 DEF LiveSlots
  <1> QED
    BY <1>3, <1>4, <1>6, <1>7

LEMMA LiveSingle ==
  ASSUME NEW s \in Seq(Frame), NEW x, FiringSingle(s, x)
  PROVE  LiveSlots(s) = {} /\ LiveSingles(s) = {1}
  <1> DEFINE t == Tail(s)
  <1>1. /\ DOMAIN s = 1 .. Len(s) /\ (\A k \in DOMAIN s : s[k] \in Frame)
        /\ Len(s) \in Nat \ {0} /\ Len(t) = Len(s) - 1 /\ Head(s) = s[1]
        /\ \A k \in 1 .. Len(s) - 1 : t[k] = s[k + 1]
    BY Element, TailElements DEF FiringSingle
  <1>2. AllResting(t) /\ s[1].op = "read" /\ s[1].batch /\ s[1].single # Nil
    BY <1>1 DEF FiringSingle
  <1> HIDE DEF t
  <1>3. ASSUME NEW k \in DOMAIN s, k # 1, s[k].op = "read", s[k].batch
        PROVE  s[k].i .. s[k].n = {} /\ s[k].single = Nil
    <2>1. k - 1 \in 1 .. Len(t) /\ k - 1 \in 1 .. Len(s) - 1 /\ (k - 1) + 1 = k
      BY <1>1, <1>3
    <2>2. t[k - 1] = s[k] /\ Resting(t[k - 1])
      BY <1>1, <1>2, <2>1 DEF AllResting
    <2> QED
      BY <1>1, <1>3, <2>2, RestingHasNone
  <1>4. 1 \in DOMAIN s
    BY <1>1
  <1>5. LiveSingles(s) = {1}
    BY <1>2, <1>3, <1>4 DEF LiveSingles
  <1>6. LiveSlots(s) = {}
    BY <1>2, <1>3 DEF LiveSlots
  <1> QED
    BY <1>5, <1>6

(* Then every received payload is delivered or still in a slot or a field  *)
(* of a readReady on the stack, which will deliver or release it.          *)
THEOREM BuffersStayReachable ==
  ASSUME ReentrantRead = FALSE
  PROVE  Spec => []BuffersReachable
  <1> DEFINE full == {s \in LiveSlots(stack) : inBatch[s] # Nil}
             Reachable == /\ held = Cardinality(full) + Cardinality(LiveSingles(stack))
                          /\ \A s \in Slots : inBatch[s] # Nil => s \in LiveSlots(stack)
  <1>1. Inv /\ InboundInv => Reachable
    <2> SUFFICES ASSUME Inv, InboundInv
                 PROVE  Reachable
      OBVIOUS
    <2>1. stack \in Seq(Frame) /\ Cardinality({}) = 0
      BY StackIsFrames, FS_EmptySet
    <2>2. CASE NothingHeld
      <3>1. LiveSlots(stack) = {} /\ LiveSingles(stack) = {} /\ held = 0 /\ EmptySlots
        BY <2>1, <2>2, LiveResting DEF NothingHeld
      <3>2. full = {}
        BY <3>1
      <3> QED
        BY <2>1, <3>1, <3>2 DEF EmptySlots
    <2>3. CASE BatchHeld
      <3>1. PICK i, n : FiringIn(stack, i, n) /\ Window(i, n)
        BY <2>3 DEF BatchHeld
      <3>2. /\ LiveSlots(stack) = i .. n /\ LiveSingles(stack) = {}
            /\ i \in Nat /\ n \in Nat /\ i <= n
        BY <2>1, <3>1, LiveBatch
      <3>3. \A s \in i .. n : inBatch[s] # Nil
        BY <3>1 DEF Window, Waiting, Nil
      <3>4. full = i .. n
        BY <3>2, <3>3
      <3>5. Cardinality(i .. n) = n - i + 1
        BY <3>2, FS_Interval
      <3>6. held = n - i + 1
        BY <3>1 DEF Window
      <3>7. held = Cardinality(full) + Cardinality(LiveSingles(stack))
        <4> HIDE DEF full
        <4>1. Cardinality(full) = n - i + 1 /\ Cardinality(LiveSingles(stack)) = 0
          BY <2>1, <3>2, <3>4, <3>5
        <4> QED
          BY <3>2, <3>6, <4>1
      <3>8. \A s \in Slots : inBatch[s] # Nil => s \in LiveSlots(stack)
        BY <3>1, <3>2 DEF Window
      <3> QED
        BY <3>7, <3>8
    <2>4. CASE SingleHeld
      <3>1. PICK x : FiringSingle(stack, x)
        BY <2>4 DEF SingleHeld
      <3>2. LiveSlots(stack) = {} /\ LiveSingles(stack) = {1} /\ held = 1 /\ EmptySlots
        BY <2>1, <2>4, <3>1, LiveSingle DEF SingleHeld
      <3>3. full = {} /\ Cardinality({1}) = 1
        BY <3>2, FS_Singleton
      <3> QED
        BY <2>1, <3>2, <3>3 DEF EmptySlots
    <2> QED
      BY <2>2, <2>3, <2>4 DEF InboundInv
  <1>2. Reachable => BuffersReachable
    BY DEF BuffersReachable, LiveSlots, LiveSingles
  <1> QED
    BY <1>1, <1>2, InboundInvariance, Invariance, PTL
=============================================================================
