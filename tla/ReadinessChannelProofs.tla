------------------------ MODULE ReadinessChannelProofs ------------------------
(***************************************************************************)
(* The outbound queue of ReadinessEndpoint, for every value of the         *)
(* constants: what its bytes and its references add up to, that Close runs *)
(* to its end, and that the endpoint implements DatagramChannel.           *)
(***************************************************************************)
EXTENDS ReadinessProofs

QueueMove == Accepted \/ Dropped \/ (QueueKept /\ UNCHANGED refs)

(* Every step accepts a datagram, drops the head or leaves the queue.      *)
LEMMA QueueMoves ==
  ASSUME Inv, [Next]_vars
  PROVE  QueueMove
  <1>1. ASSUME NEW size \in Sizes, NEW addrOK \in AddrKinds, NEW valid \in BOOLEAN,
               Write(size, addrOK, valid)
        PROVE  QueueMove
    BY <1>1, WriteMoves DEF Write, QueueMove, Inv
  <1>2. UNCHANGED <<queueVars, lastId>> => QueueMove
    BY DEF QueueMove, QueueKept, queueVars
  <1>3. CASE Flush \/ Read \/ HandleError
    BY <1>2, <1>3 DEF Flush, Read, HandleError
  <1>4. CASE Close
    BY <1>4, ClosingMoves DEF Close, QueueMove
  <1>5. CASE HandlerReturn
    BY <1>2, <1>5 DEF HandlerReturn, CbReturn
  <1>6. CASE FlushDequeue
    <2>1. PICK rest : Dequeue(rest) /\ UNCHANGED <<closeVars, lastId, wire>>
      BY <1>6 DEF FlushDequeue
    <2> QED
      BY <2>1, DequeueMoves DEF QueueMove
  <1>7. CASE FlushSend \/ FlushBlocked \/ FlushDone
    BY <1>2, <1>7 DEF FlushSend, FlushBlocked, FlushDone
  <1>8. CASE ReadReceive \/ ReadFire \/ ReadDiscard
    BY <1>2, <1>8 DEF ReadReceive, ReadFire, ReadDiscard
  <1>9. CASE ReadBatchDone \/ ReadExit
    BY <1>2, <1>9 DEF ReadBatchDone, ReadExit
  <1>10. CASE Closing
    BY <1>10, ClosingMoves DEF Closing, QueueMove
  <1>11. ASSUME NEW read \in BOOLEAN, NEW write \in BOOLEAN, HandleReady(read, write)
         PROVE  QueueMove
    BY <1>2, <1>11 DEF HandleReady
  <1>12. CASE HandleHangup
    BY <1>12 DEF HandleHangup, CloseCall, QueueMove, QueueKept
  <1>13. CASE Arrive \/ UNCHANGED vars
    BY <1>2, <1>13 DEF Arrive, vars, coreVars
  <1> QED
    BY <1>1, <1>3, <1>4, <1>5, <1>6, <1>7, <1>8, <1>9, <1>10, <1>11, <1>12, <1>13
    DEF Next, MethodStep

-----------------------------------------------------------------------------
(* References. *)

(* One reference per queued payload, however it entered or left the queue. *)
LEMMA OwnedStep ==
  ASSUME Inv, QueueInv, PayloadOwnedWhileQueued, QueueMove
  PROVE  PayloadOwnedWhileQueued'
  <1>1. refs \in [Ids -> Int] /\ CoreInv
    BY DEF Inv, CoreInv, CoreTypeOK
  <1> SUFFICES ASSUME NEW id \in Ids
               PROVE  refs'[id] = IF Queued(id)' THEN 1 ELSE 0
    BY DEF PayloadOwnedWhileQueued
  <1>2. refs[id] = IF Queued(id) THEN 1 ELSE 0
    BY DEF PayloadOwnedWhileQueued
  <1>3. CASE Accepted
    <2>1. /\ lastId + 1 \in Ids
          /\ refs' = [refs EXCEPT ![lastId + 1] = @ + 1]
          /\ ~Queued(lastId + 1)
          /\ Queued(id)' <=> Queued(id) \/ id = lastId + 1
      BY <1>1, <1>3, QueuedAfterAccept
    <2>2. CASE id = lastId + 1
      <3>1. refs'[id] = refs[id] + 1
        BY <1>1, <2>1, <2>2
      <3> QED
        BY <1>2, <2>1, <2>2, <3>1
    <2>3. CASE id # lastId + 1
      <3>1. refs'[id] = refs[id]
        BY <1>1, <2>1, <2>3
      <3> QED
        BY <1>2, <2>1, <2>3, <3>1
    <2> QED
      BY <2>2, <2>3
  <1>4. CASE Dropped
    <2> DEFINE h == Head(queue).id
    <2>1. /\ h \in Ids
          /\ refs' = [refs EXCEPT ![h] = @ - 1]
          /\ Queued(h)
          /\ Queued(id)' <=> Queued(id) /\ id # h
      BY <1>1, <1>4, QueuedAfterDrop
    <2> HIDE DEF h
    <2>2. CASE id = h
      <3>1. refs'[id] = refs[id] - 1
        BY <1>1, <2>1, <2>2
      <3> QED
        BY <1>2, <2>1, <2>2, <3>1
    <2>3. CASE id # h
      <3>1. refs'[id] = refs[id]
        BY <1>1, <2>1, <2>3
      <3> QED
        BY <1>2, <2>1, <2>3, <3>1
    <2> QED
      BY <2>2, <2>3
  <1>5. CASE QueueKept /\ UNCHANGED refs
    <2>1. Queued(id)' <=> Queued(id)
      BY <1>5 DEF QueueKept, Queued
    <2> QED
      BY <1>2, <1>5, <2>1
  <1> QED
    BY <1>3, <1>4, <1>5 DEF QueueMove

-----------------------------------------------------------------------------
(* Close. *)

(* Only Close and what it leaves on the stack move an endpoint that is     *)
(* being closed.                                                           *)
LEMMA ClosingMove ==
  ASSUME Inv, QueueInv, ClosingInv, [Next]_vars
  PROVE  ClosingInv'
  <1>1. stack \in Seq(Frame) /\ CoreFrame \subseteq Frame /\ CoreInv
    BY StackIsFrames DEF Inv, Frame
  <1>2. ASSUME UNCHANGED <<queueVars, closeVars>>,
               \/ ~closed
               \/ \E op : op \notin {"cb", "close"} /\ Running(op)
               \/ stack' = stack
        PROVE  ClosingInv'
    <2>1. Released => queue' = <<>>
      BY <1>2 DEF queueVars, Released
    <2> QED
      BY <1>1, <1>2, <2>1, ClosingKept DEF queueVars
  <1>3. ASSUME NEW size \in Sizes, NEW addrOK \in AddrKinds, NEW valid \in BOOLEAN,
               Write(size, addrOK, valid)
        PROVE  ClosingInv'
    BY <1>1, <1>3, ClosingWrite DEF Write
  <1>4. CASE Flush \/ Read \/ HandleError
    BY <1>2, <1>4 DEF Flush, Read, HandleError
  <1>5. CASE Close
    <2>1. CloseCall(stack)
      BY <1>5 DEF Close, CoreClose
    <2> QED
      BY <1>1, <2>1, ClosingCall
  <1>6. CASE HandlerReturn
    BY <1>1, <1>6, ClosingReturn DEF HandlerReturn
  <1>7. CASE FlushDequeue
    <2>1. PICK rest : Dequeue(rest) /\ UNCHANGED <<closeVars, lastId, wire>> /\ Running("flush")
      BY <1>7 DEF FlushDequeue
    <2>2. Released => queue' = <<>>
      BY <2>1 DEF Released, Dequeue, queueVars
    <2>3. "flush" \notin {"cb", "close"}
      OBVIOUS
    <2> QED
      BY <1>1, <2>1, <2>2, <2>3, ClosingKept
  <1>8. CASE FlushSend \/ FlushBlocked \/ FlushDone
    <2>1. Running("flush") /\ UNCHANGED <<queueVars, closeVars>> /\ "flush" \notin {"cb", "close"}
      BY <1>8 DEF FlushSend, FlushBlocked, FlushDone
    <2> QED
      BY <1>2, <2>1
  <1>9. CASE ReadReceive \/ ReadFire \/ ReadDiscard \/ ReadBatchDone \/ ReadExit
    <2>1. Running("read") /\ UNCHANGED <<queueVars, closeVars>> /\ "read" \notin {"cb", "close"}
      BY <1>9 DEF ReadReceive, ReadFire, ReadDiscard, ReadBatchDone, ReadExit
    <2> QED
      BY <1>2, <2>1
  <1>10. CASE Closing
    <2>1. CASE DoClose
      <3>1. Running("doClose") /\ CloseCall(Tail(stack))
        BY <2>1 DEF DoClose
      <3>2. Tail(stack) \in Seq(Frame)
        BY <1>1, <3>1, PopFrame
      <3> QED
        BY <1>1, <3>1, <3>2, ClosingCall
    <2>2. CASE CloseStep
      BY <1>1, <2>2, ClosedWhenClosing, ClosingStep
    <2> QED
      BY <1>10, <2>1, <2>2 DEF Closing
  <1>11. ASSUME NEW read \in BOOLEAN, NEW write \in BOOLEAN, HandleReady(read, write)
         PROVE  ClosingInv'
    BY <1>2, <1>11 DEF HandleReady
  <1>12. CASE HandleHangup
    <2>1. CloseCall(<<>>) /\ stack = <<>> /\ <<>> \in Seq(Frame)
      BY <1>12 DEF HandleHangup
    <2> QED
      BY <1>1, <2>1, ClosingCall
  <1>13. CASE Arrive \/ UNCHANGED vars
    BY <1>2, <1>13 DEF Arrive, vars, coreVars
  <1> QED
    BY <1>3, <1>4, <1>5, <1>6, <1>7, <1>8, <1>9, <1>10, <1>11, <1>12, <1>13
    DEF Next, MethodStep

-----------------------------------------------------------------------------
(* The invariant of the queue. *)

OutInv == Inv /\ QueueInv /\ ClosingInv /\ PayloadOwnedWhileQueued

(* Every reachable state satisfies it. *)
THEOREM OutInvariance == Spec => []OutInv
  <1>1. Init => OutInv
    <2> SUFFICES ASSUME Init
                 PROVE  OutInv
      OBVIOUS
    <2>1. CoreInit(<<>>)
      BY DEF Init
    <2>2. PayloadOwnedWhileQueued
      BY <2>1 DEF CoreInit, PayloadOwnedWhileQueued, Queued
    <2>3. ClosingInv
      BY <2>1 DEF CoreInit, ClosingInv
    <2> QED
      BY <2>1, <2>2, <2>3, InvInit, QueueInitInv DEF OutInv
  <1>2. OutInv /\ [Next]_vars => OutInv'
    <2> SUFFICES ASSUME OutInv, [Next]_vars
                 PROVE  OutInv'
      OBVIOUS
    <2>1. Inv /\ CoreInv /\ QueueInv /\ ClosingInv /\ PayloadOwnedWhileQueued
      BY DEF OutInv, Inv
    <2>2. Inv'
      BY <2>1, InvNext
    <2>3. QueueMove
      BY <2>1, QueueMoves
    <2>4. QueueInv'
      BY <2>1, <2>3, QueueStep DEF QueueMove
    <2> QED
      BY <2>1, <2>2, <2>3, <2>4, OwnedStep, ClosingMove DEF OutInv
  <1> QED
    BY <1>1, <1>2, PTL DEF Spec

(* PendingOutboundBytes is the sum of the sizes of the queued datagrams,   *)
(* for queues of any length: no write, dequeue or Close lets it drift.     *)
THEOREM BytesNeverDrift == Spec => []BytesMatchQueue
  <1>1. OutInv => BytesMatchQueue
    BY BytesFollow DEF OutInv, Inv
  <1> QED
    BY <1>1, OutInvariance, PTL

(* No payload is leaked or released twice by Write, flushOutbound and      *)
(* Close: one reference while it is queued, none before and after.         *)
THEOREM PayloadsReleasedOnce == Spec => []PayloadOwnedWhileQueued
  <1>1. OutInv => PayloadOwnedWhileQueued
    BY DEF OutInv
  <1> QED
    BY <1>1, OutInvariance, PTL

(* Close is complete when it returns to the loop, however deep the         *)
(* callbacks in which it was called.                                       *)
THEOREM CloseCompletes == Spec => []ClosedIsFinal
  <1>1. OutInv => ClosedIsFinal
    BY ClosedFollows DEF OutInv, Inv
  <1> QED
    BY <1>1, OutInvariance, PTL
-----------------------------------------------------------------------------
(* Where the dequeues of a sent batch stand: k of them are left to the     *)
(* topmost flushOutbound on the stack, none to any other.                  *)

IsFlush(f) == f.op = "flush"

NoBatch(s) == \A i \in 1 .. Len(s) : IsFlush(s[i]) => s[i].left = 0

BatchAt(s, k, j) ==
  /\ IsFlush(s[j]) /\ s[j].left = k
  /\ \A i \in 1 .. j - 1 : ~IsFlush(s[i])
  /\ \A i \in j + 1 .. Len(s) : IsFlush(s[i]) => s[i].left = 0

Batch(s, k) == IF k = 0 THEN NoBatch(s) ELSE \E j \in 1 .. Len(s) : BatchAt(s, k, j)

Plain(p) == \A i \in 1 .. Len(p) : ~IsFlush(p[i])

(* Other frames on top change nothing. *)
LEMMA BatchBelow ==
  ASSUME NEW F, NEW p \in Seq(F), NEW G, NEW s \in Seq(G), Plain(p), NEW k, Batch(s, k)
  PROVE  Batch(p \o s, k)
  <1> DEFINE t == p \o s
             n == Len(p)
  <1>1. /\ n \in Nat /\ Len(s) \in Nat /\ Len(t) = n + Len(s)
        /\ \A i \in 1 .. n : t[i] = p[i]
        /\ \A i \in 1 .. Len(s) : t[n + i] = s[i]
    BY ConcatElements
  <1>2. \A i \in 1 .. n : ~IsFlush(t[i])
    BY <1>1 DEF Plain
  <1>3. \A i \in n + 1 .. Len(t) : i - n \in 1 .. Len(s) /\ n + (i - n) = i
    BY <1>1
  <1>4. \A i \in n + 1 .. Len(t) : t[i] = s[i - n]
    BY <1>1, <1>3
  <1> HIDE DEF t
  <1>5. CASE k = 0
    <2>1. NoBatch(s)
      BY <1>5 DEF Batch
    <2>2. ASSUME NEW i \in 1 .. Len(t), IsFlush(t[i])
          PROVE  t[i].left = 0
      <3>1. i \in n + 1 .. Len(t)
        BY <1>1, <1>2, <2>2
      <3>2. t[i] = s[i - n] /\ i - n \in 1 .. Len(s)
        BY <1>3, <1>4, <3>1
      <3> QED
        BY <2>1, <2>2, <3>2 DEF NoBatch
    <2> QED
      BY <1>5, <2>2 DEF Batch, NoBatch, t
  <1>6. CASE k # 0
    <2>1. PICK j \in 1 .. Len(s) : BatchAt(s, k, j)
      BY <1>6 DEF Batch
    <2>2. n + j \in 1 .. Len(t) /\ t[n + j] = s[j]
      BY <1>1
    <2>3. ASSUME NEW i \in 1 .. n + j - 1
          PROVE  ~IsFlush(t[i])
      <3>1. CASE i <= n
        BY <1>1, <1>2, <3>1
      <3>2. CASE i > n
        <4>1. i \in n + 1 .. Len(t) /\ i - n \in 1 .. j - 1
          BY <1>1, <3>2
        <4> QED
          BY <1>4, <2>1, <4>1 DEF BatchAt
      <3> QED
        BY <1>1, <3>1, <3>2
    <2>4. ASSUME NEW i \in n + j + 1 .. Len(t), IsFlush(t[i])
          PROVE  t[i].left = 0
      <3>1. i \in n + 1 .. Len(t) /\ i - n \in j + 1 .. Len(s)
        BY <1>1
      <3> QED
        BY <1>4, <2>1, <2>4, <3>1 DEF BatchAt
    <2>5. BatchAt(t, k, n + j)
      BY <2>1, <2>2, <2>3, <2>4 DEF BatchAt
    <2> QED
      BY <1>6, <2>2, <2>5 DEF Batch, t
  <1> QED
    BY <1>5, <1>6

(* A return from another method changes nothing either. *)
LEMMA BatchAbove ==
  ASSUME NEW F, NEW s \in Seq(F), s # <<>>, ~IsFlush(Head(s)), NEW k, Batch(s, k)
  PROVE  Batch(Tail(s), k)
  <1> DEFINE t == Tail(s)
  <1>1. /\ Len(t) = Len(s) - 1 /\ Len(s) \in Nat \ {0} /\ Head(s) = s[1]
        /\ \A i \in 1 .. Len(s) - 1 : t[i] = s[i + 1]
    BY TailElements
  <1> HIDE DEF t
  <1>2. CASE k = 0
    <2>1. ASSUME NEW i \in 1 .. Len(t), IsFlush(t[i])
          PROVE  t[i].left = 0
      <3>1. i + 1 \in 1 .. Len(s) /\ t[i] = s[i + 1]
        BY <1>1
      <3> QED
        BY <1>2, <2>1, <3>1 DEF Batch, NoBatch
    <2> QED
      BY <1>2, <2>1 DEF Batch, NoBatch, t
  <1>3. CASE k # 0
    <2>1. PICK j \in 1 .. Len(s) : BatchAt(s, k, j)
      BY <1>3 DEF Batch
    <2>2. j # 1
      BY <1>1, <2>1 DEF BatchAt
    <2>3. j - 1 \in 1 .. Len(t) /\ t[j - 1] = s[j]
      <3>1. j - 1 \in 1 .. Len(s) - 1 /\ j - 1 + 1 = j
        BY <1>1, <2>2
      <3> QED
        BY <1>1, <3>1
    <2>4. ASSUME NEW i \in 1 .. j - 1 - 1
          PROVE  ~IsFlush(t[i])
      <3>1. i + 1 \in 1 .. j - 1 /\ i \in 1 .. Len(s) - 1
        BY <1>1, <2>2
      <3> QED
        BY <1>1, <2>1, <3>1 DEF BatchAt
    <2>5. ASSUME NEW i \in j - 1 + 1 .. Len(t), IsFlush(t[i])
          PROVE  t[i].left = 0
      <3>1. i + 1 \in j + 1 .. Len(s) /\ i \in 1 .. Len(s) - 1
        BY <1>1, <2>2
      <3> QED
        BY <1>1, <2>1, <2>5, <3>1 DEF BatchAt
    <2>6. BatchAt(t, k, j - 1)
      BY <2>1, <2>3, <2>4, <2>5 DEF BatchAt
    <2> QED
      BY <1>3, <2>3, <2>6 DEF Batch, t
  <1> QED
    BY <1>2, <1>3

(* A running flushOutbound has all the dequeues that are left.             *)
LEMMA BatchRunning ==
  ASSUME NEW F, NEW s \in Seq(F), s # <<>>, IsFlush(Head(s)), NEW k, Batch(s, k)
  PROVE  Head(s).left = k /\ NoBatch(Tail(s))
  <1> DEFINE t == Tail(s)
  <1>1. /\ Len(t) = Len(s) - 1 /\ Len(s) \in Nat \ {0} /\ Head(s) = s[1]
        /\ \A i \in 1 .. Len(s) - 1 : t[i] = s[i + 1]
    BY TailElements
  <1> HIDE DEF t
  <1>2. ASSUME \A i \in 2 .. Len(s) : IsFlush(s[i]) => s[i].left = 0
        PROVE  NoBatch(t)
    <2> SUFFICES ASSUME NEW i \in 1 .. Len(t), IsFlush(t[i])
                 PROVE  t[i].left = 0
      BY DEF NoBatch
    <2>1. i + 1 \in 2 .. Len(s) /\ i \in 1 .. Len(s) - 1
      BY <1>1
    <2> QED
      BY <1>1, <1>2, <2>1
  <1>3. CASE k = 0
    <2>1. NoBatch(s) /\ 1 \in 1 .. Len(s)
      BY <1>1, <1>3 DEF Batch
    <2>2. \A i \in 2 .. Len(s) : i \in 1 .. Len(s)
      BY <1>1
    <2> QED
      BY <1>1, <1>2, <1>3, <2>1, <2>2 DEF NoBatch, t
  <1>4. CASE k # 0
    <2>1. PICK j \in 1 .. Len(s) : BatchAt(s, k, j)
      BY <1>4 DEF Batch
    <2>2. j = 1
      <3> SUFFICES ASSUME j # 1
                   PROVE  FALSE
        OBVIOUS
      <3>1. 1 \in 1 .. j - 1
        BY <1>1
      <3> QED
        BY <1>1, <2>1, <3>1 DEF BatchAt
    <2>3. j + 1 = 2
      BY <2>2
    <2> QED
      BY <1>1, <1>2, <2>1, <2>2, <2>3 DEF BatchAt, t
  <1> QED
    BY <1>3, <1>4

(* A flushOutbound with m dequeues left, above methods with none.          *)
LEMMA BatchStarted ==
  ASSUME NEW G, NEW s \in Seq(G), NEW f, IsFlush(f), NoBatch(s), NEW m \in Nat, f.left = m
  PROVE  Batch(<<f>> \o s, m)
  <1> DEFINE t == <<f>> \o s
  <1>1. <<f>> \in Seq({f}) /\ Len(<<f>>) = 1 /\ <<f>>[1] = f
    OBVIOUS
  <1>2. /\ Len(s) \in Nat /\ Len(t) = 1 + Len(s) /\ t[1] = f
        /\ \A i \in 1 .. Len(s) : t[1 + i] = s[i]
    <2>1. 1 \in 1 .. 1
      OBVIOUS
    <2> QED
      BY <1>1, <2>1, ConcatElements
  <1> HIDE DEF t
  <1>3. ASSUME NEW i \in 2 .. Len(t), IsFlush(t[i])
        PROVE  t[i].left = 0
    <2>1. i - 1 \in 1 .. Len(s) /\ 1 + (i - 1) = i
      BY <1>2
    <2>2. t[i] = s[i - 1]
      BY <1>2, <2>1
    <2> QED
      BY <1>3, <2>1, <2>2 DEF NoBatch
  <1>4. CASE m = 0
    <2>1. ASSUME NEW i \in 1 .. Len(t), IsFlush(t[i])
          PROVE  t[i].left = 0
      <3>1. i = 1 \/ i \in 2 .. Len(t)
        BY <1>2
      <3> QED
        BY <1>2, <1>3, <1>4, <2>1, <3>1
    <2> QED
      BY <1>4, <2>1 DEF Batch, NoBatch, t
  <1>5. CASE m # 0
    <2>1. 1 \in 1 .. Len(t) /\ 1 + 1 = 2
      BY <1>2
    <2>2. \A i \in 1 .. 1 - 1 : ~IsFlush(t[i])
      OBVIOUS
    <2>3. BatchAt(t, m, 1)
      BY <1>2, <1>3, <2>1, <2>2 DEF BatchAt
    <2> QED
      BY <1>5, <2>1, <2>3 DEF Batch, t
  <1> QED
    BY <1>4, <1>5
-----------------------------------------------------------------------------
(* Steps that only rearrange the stack. *)

Keeps(s, t) == \A k : Batch(s, k) => Batch(t, k)

(* Other frames may come and go. *)
LEMMA KeepsPush ==
  ASSUME NEW G, NEW s \in Seq(G), NEW f, ~IsFlush(f)
  PROVE  /\ Keeps(s, <<f>> \o s)
         /\ \A g : ~IsFlush(g) => Keeps(s, <<f, g>> \o s)
  <1>1. <<f>> \in Seq({f}) /\ Plain(<<f>>)
    BY DEF Plain
  <1>2. ASSUME NEW g, ~IsFlush(g)
        PROVE  <<f, g>> \in Seq({f, g}) /\ Plain(<<f, g>>)
    BY <1>2 DEF Plain
  <1> QED
    BY <1>1, <1>2, BatchBelow DEF Keeps

LEMMA KeepsFailure ==
  ASSUME NEW G, NEW s \in Seq(G)
  PROVE  Keeps(s, FailAndClose(s))
  <1> DEFINE f == Cb("exception")
             g == DoCloseFrame
  <1>1. ~IsFlush(f) /\ ~IsFlush(g)
    BY DEF IsFlush, Cb, DoCloseFrame
  <1> HIDE DEF f, g
  <1>2. Keeps(s, <<f, g>> \o s)
    BY <1>1, KeepsPush
  <1> QED
    BY <1>2 DEF FailAndClose, f, g

LEMMA KeepsCallback ==
  ASSUME NEW G, NEW s \in Seq(G), NEW kind
  PROVE  Keeps(s, <<Cb(kind)>> \o s)
  <1> DEFINE f == Cb(kind)
  <1>1. ~IsFlush(f)
    BY DEF IsFlush, Cb
  <1> HIDE DEF f
  <1> QED
    BY <1>1, KeepsPush DEF f

(* A flushOutbound starts when no batch is on its way, and goes when it    *)
(* has nothing left to dequeue.                                            *)
LEMMA KeepsStart ==
  ASSUME NEW G, NEW s \in Seq(G), NoBatch(s), NEW f, IsFlush(f), f.left = 0
  PROVE  Keeps(s, <<f>> \o s)
  <1> SUFFICES ASSUME NEW k, Batch(s, k)
               PROVE  Batch(<<f>> \o s, k)
    BY DEF Keeps
  <1>1. k = 0
    <2> SUFFICES ASSUME k # 0
                 PROVE  FALSE
      OBVIOUS
    <2>1. PICK j \in 1 .. Len(s) : IsFlush(s[j]) /\ s[j].left = k
      BY DEF Batch, BatchAt
    <2> QED
      BY <2>1 DEF NoBatch
  <1> QED
    BY <1>1, BatchStarted

LEMMA KeepsEnd ==
  ASSUME NEW G, NEW s \in Seq(G), s # <<>>, IsFlush(Head(s)), Head(s).left = 0
  PROVE  Keeps(s, Tail(s))
  <1> SUFFICES ASSUME NEW k, Batch(s, k)
               PROVE  Batch(Tail(s), k)
    BY DEF Keeps
  <1>1. Head(s).left = k /\ NoBatch(Tail(s))
    BY BatchRunning
  <1> QED
    BY <1>1 DEF Batch

LEMMA KeepsBoth ==
  ASSUME NEW s, NEW t, NEW u, Keeps(s, t), Keeps(t, u)
  PROVE  Keeps(s, u)
  BY DEF Keeps

(* readReady and the return of a handler leave the batches alone.          *)
LEMMA ReadKeeps ==
  ASSUME Inv, ReadReceive \/ ReadFire \/ ReadDiscard \/ ReadBatchDone \/ ReadExit
  PROVE  Keeps(stack, stack')
  <1> DEFINE f == Head(stack)
             s == Tail(stack)
  <1>1. Running("read")
    BY DEF ReadReceive, ReadFire, ReadDiscard, ReadBatchDone, ReadExit
  <1>2. stack \in Seq(Frame) /\ stack # <<>> /\ f \in Frame /\ s \in Seq(Frame) /\ f.op = "read"
    BY <1>1, StackIsFrames, PopFrame DEF Running
  <1>3. f \in ReadFrames
    BY <1>2, FrameKinds
  <1>4. ~IsFlush(f)
    BY <1>2 DEF IsFlush
  <1>5. Keeps(stack, s)
    BY <1>2, <1>4, BatchAbove DEF Keeps
  <1>6. /\ Keeps(s, FailAndClose(s)) /\ Keeps(s, <<Cb("readComplete")>> \o s)
        /\ Keeps(s, s)
    BY <1>2, KeepsFailure, KeepsCallback DEF Keeps
  <1>7. Keeps(s, ReadFinish(f.read))
    <2>1. ReadFinish(f.read) \in {<<Cb("readComplete")>> \o s, <<>> \o s}
      BY DEF ReadFinish
    <2>2. <<>> \o s = s
      BY <1>2
    <2> QED
      BY <1>6, <2>1, <2>2
  <1>8. Keeps(s, stack')
    <2>1. CASE ReadReceive
      <3>1. PICK r \in ReceiveResults(MinOf(f.remaining, ReadBatch)) :
              stack' = <<[f EXCEPT
                            !.batch = TRUE, !.i = 1, !.n = r.n,
                            !.single = IF f.remaining <= 1 /\ r.n = 1 THEN rx[1] ELSE Nil,
                            !.drained = r.drained, !.err = r.err]>> \o s
        BY <2>1 DEF ReadReceive
      <3> DEFINE g == [f EXCEPT
                         !.batch = TRUE, !.i = 1, !.n = r.n,
                         !.single = IF f.remaining <= 1 /\ r.n = 1 THEN rx[1] ELSE Nil,
                         !.drained = r.drained, !.err = r.err]
      <3>2. ~IsFlush(g)
        BY <1>2, <1>3 DEF IsFlush, ReadFrames
      <3> HIDE DEF g, s, f
      <3> QED
        BY <1>2, <3>1, <3>2, KeepsPush DEF g
    <2>2. CASE ReadFire
      <3> DEFINE c == Cb("read")
                 g == [f EXCEPT !.i = @ + 1, !.single = Nil, !.read = TRUE]
      <3>1. stack' = <<c, g>> \o s
        BY <2>2 DEF ReadFire
      <3>2. ~IsFlush(c) /\ ~IsFlush(g)
        BY <1>2, <1>3 DEF IsFlush, ReadFrames, Cb
      <3> HIDE DEF c, g, s, f
      <3> QED
        BY <1>2, <3>1, <3>2, KeepsPush
    <2>3. CASE ReadDiscard
      <3> DEFINE g == [f EXCEPT !.i = f.n + 1]
      <3>1. stack' = <<g>> \o s
        BY <2>3 DEF ReadDiscard
      <3>2. ~IsFlush(g)
        BY <1>2, <1>3 DEF IsFlush, ReadFrames
      <3> HIDE DEF g, s, f
      <3> QED
        BY <1>2, <3>1, <3>2, KeepsPush
    <2>4. CASE ReadBatchDone
      <3> DEFINE g == ReadFrame(f.remaining - f.n, f.read)
      <3>1. stack' \in {FailAndClose(s), ReadFinish(f.read), <<g>> \o s}
        BY <2>4, Zenon DEF ReadBatchDone
      <3>2. ~IsFlush(g)
        BY DEF IsFlush, ReadFrame
      <3> HIDE DEF g, s, f
      <3>3. Keeps(s, <<g>> \o s)
        BY <1>2, <3>2, KeepsPush
      <3> QED
        BY <1>6, <1>7, <3>1, <3>3
    <2>5. CASE ReadExit
      BY <1>7, <2>5 DEF ReadExit
    <2> QED
      BY <2>1, <2>2, <2>3, <2>4, <2>5
  <1> QED
    BY <1>5, <1>8, KeepsBoth
-----------------------------------------------------------------------------
(* The refinement.                                                         *)
(*                                                                         *)
(* Two behaviours of the code break it, and the theorem assumes them away: *)
(* a Flush from a handler that runs between the dequeues of a sent batch   *)
(* (ReentrantFlush), and a batch of which the single-datagram writer sent  *)
(* a part before it failed, which flushOutbound takes for an unsent one.   *)

NoPartialFailure == "other" \notin Platforms \/ (~Faults /\ FALSE \notin AddrKinds)

(* The socket has the datagrams that flushOutbound has still to dequeue.   *)
SentInv == \E k : SentPrefix(k) /\ (~closed => Batch(stack, k))

Advances == SentInv' /\ WireInv' /\ (Channel!ChanNext \/ UNCHANGED <<Unsent, wire, closed>>)

(* A step that leaves the queue, the wire and the batches alone.           *)
LEMMA Rests ==
  ASSUME CoreInv, WireInv, SentInv, UNCHANGED <<queue, wire>>,
         lastId' \in {lastId, lastId + 1}, closed' \in {closed, TRUE},
         closed' \/ Keeps(stack, stack')
  PROVE  Advances
  <1>1. PICK k : SentPrefix(k) /\ (~closed => Batch(stack, k))
    BY DEF SentInv
  <1>2. /\ SentPrefix(k)' /\ WireInv'
        /\ Channel!ChanNext \/ UNCHANGED <<Unsent, wire, closed>>
    BY <1>1, ChannelRests
  <1>3. ~closed' => Batch(stack', k)
    BY <1>1 DEF Keeps
  <1>4. SentInv'
    BY <1>2, <1>3 DEF SentInv
  <1> QED
    BY <1>2, <1>4 DEF Advances

(* dequeue takes a datagram of the batch off the queue; after a Close it   *)
(* finds nothing.                                                          *)
LEMMA DequeueAdvances ==
  ASSUME Inv, Inv', ClosingInv, WireInv, SentInv, FlushDequeue
  PROVE  Advances
  <1> DEFINE f == Head(stack)
             g == [f EXCEPT !.left = @ - 1]
             s == Tail(stack)
             rest == <<g>> \o s
  <1>1. /\ Running("flush") /\ f.left > 0 /\ Dequeue(rest)
        /\ UNCHANGED <<closed, lastId, wire>>
    BY DEF FlushDequeue, closeVars
  <1>2. CoreInv /\ CoreInv' /\ stack \in Seq(Frame)
    BY StackIsFrames DEF Inv
  <1>3. stack # <<>> /\ f \in Frame /\ s \in Seq(Frame) /\ f.op = "flush"
    BY <1>1, <1>2, PopFrame DEF Running
  <1>4. CASE closed
    <2>1. Released
      <3>1. "flush" \notin {"cb", "close"}
        OBVIOUS
      <3> QED
        BY <1>1, <1>2, <1>4, <3>1, ClosingTop
    <2>2. UNCHANGED queue
      BY <1>1, <2>1 DEF Released, Dequeue, queueVars
    <2> QED
      BY <1>1, <1>2, <1>4, <2>2, Rests
  <1>5. CASE ~closed
    <2>1. PICK k : SentPrefix(k) /\ Batch(stack, k)
      BY <1>5 DEF SentInv
    <2>2. f.left = k /\ NoBatch(s)
      BY <1>2, <1>3, <2>1, BatchRunning DEF IsFlush
    <2>3. k \in 0 .. Len(queue) /\ Len(queue) \in Nat /\ k > 0
      BY <1>1, <1>2, <2>1, <2>2, Numbers DEF SentPrefix, Numbered
    <2>4. queue # <<>>
      <3>1. Len(queue) # 0
        BY <2>3
      <3> QED
        BY <3>1
    <2>5. Dropped
      BY <1>1, <2>4 DEF Dequeue, UpdateWritability, Dropped
    <2>6. stack' = rest \/ stack' = <<Cb("writability")>> \o rest
      <3> HIDE DEF rest
      <3> QED
        BY <1>1, <2>4 DEF Dequeue, UpdateWritability
    <2>7. f \in FlushFrames
      BY <1>3, FrameKinds
    <2>8. IsFlush(g) /\ g.left = k - 1
      BY <2>2, <2>7 DEF IsFlush, FlushFrames
    <2>9. Batch(rest, k - 1) /\ rest \in Seq({g} \cup Frame)
      <3>1. k - 1 \in Nat
        BY <2>3
      <3> HIDE DEF g, s, f
      <3> QED
        BY <1>3, <2>2, <2>8, <3>1, BatchStarted
    <2>10. Batch(stack', k - 1)
      <3> HIDE DEF rest, g
      <3>1. Keeps(rest, <<Cb("writability")>> \o rest)
        BY <2>9, KeepsCallback
      <3> QED
        BY <2>6, <2>9, <3>1 DEF Keeps
    <2>11. SentPrefix(IF k > 0 THEN k - 1 ELSE 0)' /\ WireInv'
           /\ (Channel!ChanNext \/ UNCHANGED <<Unsent, wire, closed>>)
      BY <1>1, <1>2, <2>1, <2>3, <2>5, ChannelDrops
    <2>12. (IF k > 0 THEN k - 1 ELSE 0) = k - 1
      BY <2>3
    <2>13. SentPrefix(k - 1)'
      BY <2>11, <2>12
    <2> QED
      BY <2>10, <2>11, <2>13 DEF SentInv, Advances
  <1> QED
    BY <1>4, <1>5

(* An error of sendDatagramBatch means that nothing was sent.              *)
LEMMA FailureSendsNothing ==
  ASSUME NoPartialFailure, platform \in Platforms, CoreInv,
         NEW r \in SendResults(CopyOutboundBatch), r.err
  PROVE  r.sent = 0
  <1> DEFINE batch == CopyOutboundBatch
  <1>1. CASE platform # "other"
    BY <1>1 DEF SendResults, SystemSends
  <1>2. CASE platform = "other"
    <2>1. ~Faults /\ FALSE \notin AddrKinds
      BY <1>2 DEF NoPartialFailure
    <2>2. r \in FallbackSends(batch) /\ r.sent \in 0 .. Len(batch) /\ r.sent # Len(batch)
      BY <1>2 DEF SendResults, FallbackSends
    <2>3. ~batch[r.sent + 1].addrOK
      <3>1. Len(batch) \in Nat
        <4>1. Len(queue) \in Nat /\ queue \in Seq(Datagram)
          BY DEF CoreInv, CoreTypeOK
        <4> QED
          BY <4>1, BatchAssumption DEF CopyOutboundBatch, MinOf
      <3> HIDE DEF batch
      <3>2. r.sent < Len(batch)
        BY <2>2, <3>1
      <3> QED
        BY <2>1, <2>2, <3>2 DEF FallbackSends
    <2>4. r.sent + 1 \in 1 .. Len(batch) /\ batch \in Seq(Datagram)
      <3>1. queue \in Seq(Datagram) /\ Len(queue) \in Nat
        BY DEF CoreInv, CoreTypeOK
      <3>2. MinOf(Len(queue), MaxBatch) \in 0 .. Len(queue)
        BY <3>1, BatchAssumption DEF MinOf
      <3>3. batch \in Seq(Datagram) /\ Len(batch) \in Nat
        BY <3>1, <3>2 DEF CopyOutboundBatch
      <3> HIDE DEF batch
      <3> QED
        BY <2>2, <3>3
    <2>5. batch[r.sent + 1] \in Datagram
      <3> HIDE DEF batch
      <3> QED
        BY <2>4, Element
    <2>6. batch[r.sent + 1].addrOK \in AddrKinds
      BY <2>5 DEF Datagram
    <2>7. batch[r.sent + 1].addrOK \in BOOLEAN
      BY <2>6, WriteAssumption
    <2> QED
      BY <2>1, <2>3, <2>6, <2>7
  <1> QED
    BY <1>1, <1>2

(* sendDatagramBatch gives the socket the head of what is pending.         *)
LEMMA SendAdvances ==
  ASSUME Inv, Inv', QueueInv, ClosingInv, WireInv, SentInv, NoPartialFailure,
         platform \in Platforms, FlushSend
  PROVE  Advances
  <1> DEFINE f == Head(stack)
             s == Tail(stack)
             batch == CopyOutboundBatch
             g(r) == FlushFrame(r.sent, r.again \/ r.sent < Len(batch), f.ev)
  <1>1. /\ Running("flush") /\ f.left = 0 /\ queue # <<>>
        /\ UNCHANGED <<queue, closed, lastId>>
    BY DEF FlushSend, closeVars, queueVars
  <1>2. PICK r \in SendResults(batch) :
          /\ wire' = wire \o [i \in 1 .. r.sent |-> queue[i].id]
          /\ stack' = IF r.err THEN FlushFailed(s, f.ev) ELSE <<g(r)>> \o s
    BY DEF FlushSend
  <1>3. CoreInv /\ CoreInv' /\ stack \in Seq(Frame)
    BY StackIsFrames DEF Inv
  <1>4. stack # <<>> /\ f \in Frame /\ s \in Seq(Frame) /\ f.op = "flush"
    BY <1>1, <1>3, PopFrame DEF Running
  <1>5. ~closed
    <2>1. "flush" \notin {"cb", "close"}
      OBVIOUS
    <2> QED
      BY <1>1, <1>3, <2>1, ClosingTop DEF Released
  <1>6. PICK k : SentPrefix(k) /\ Batch(stack, k)
    BY <1>5 DEF SentInv
  <1>7. k = 0 /\ NoBatch(s)
    BY <1>1, <1>3, <1>4, <1>6, BatchRunning DEF IsFlush
  <1>8. r.sent \in 0 .. Len(queue)
    <2>1. queue \in Seq(Datagram) /\ Len(queue) \in Nat
      BY <1>3 DEF CoreInv, CoreTypeOK
    <2>2. Len(batch) \in Nat /\ Len(batch) <= Len(queue)
      BY <2>1, BatchAssumption DEF CopyOutboundBatch, MinOf
    <2> HIDE DEF batch
    <2> QED
      BY <2>1, <2>2, SendResultsBounds
  <1>9. Batch(stack', r.sent)
    <2>1. CASE r.err
      <3>1. r.sent = 0
        BY <1>2, <1>3, <2>1, FailureSendsNothing
      <3>2. Keeps(s, FlushFailed(s, f.ev)) /\ Batch(s, 0)
        BY <1>4, <1>7, KeepsFailure DEF Keeps, Batch, FlushFailed
      <3> QED
        BY <1>2, <2>1, <3>1, <3>2 DEF Keeps
    <2>2. CASE ~r.err
      <3>1. IsFlush(g(r)) /\ g(r).left = r.sent
        BY DEF FlushFrame, IsFlush
      <3>2. r.sent \in Nat
        BY <1>8
      <3>3. stack' = <<g(r)>> \o s
        BY <1>2, <2>2
      <3> HIDE DEF g, s
      <3> QED
        BY <1>4, <1>7, <3>1, <3>2, <3>3, BatchStarted
    <2> QED
      BY <2>1, <2>2
  <1>10. /\ SentPrefix(r.sent)' /\ WireInv'
         /\ Channel!ChanNext \/ UNCHANGED <<Unsent, wire, closed>>
    <2>1. CASE r.sent = 0
      <3>1. wire' = wire
        <4>1. wire \in Seq(Ids)
          BY <1>3 DEF CoreInv, CoreTypeOK
        <4>2. [i \in 1 .. 0 |-> queue[i].id] = <<>>
          OBVIOUS
        <4> QED
          BY <1>2, <2>1, <4>1, <4>2
      <3> QED
        BY <1>1, <1>3, <1>6, <1>7, <2>1, <3>1, ChannelRests
    <2>2. CASE r.sent # 0
      <3> DEFINE m == r.sent
      <3>1. m \in 1 .. Len(queue) /\ wire' = wire \o [i \in 1 .. m |-> queue[i].id]
        BY <1>2, <1>8, <2>2
      <3> HIDE DEF m
      <3>2. SentPrefix(m)' /\ WireInv' /\ Channel!ChanNext
        BY <1>1, <1>3, <1>5, <1>6, <1>7, <3>1, ChannelTransmits
      <3> QED
        BY <3>2 DEF m
    <2> QED
      BY <2>1, <2>2
  <1> QED
    BY <1>9, <1>10 DEF SentInv, Advances
(* Every step of the endpoint is a step of the channel or leaves it alone. *)
LEMMA ChannelStep ==
  ASSUME Inv, Inv', QueueInv, ClosingInv, WireInv, SentInv, NoPartialFailure,
         platform \in Platforms, ReentrantFlush = FALSE, [Next]_vars
  PROVE  Advances
  <1>1. CoreInv /\ CoreInv' /\ stack \in Seq(Frame) /\ closed \in BOOLEAN /\ Keeps(stack, stack)
    BY StackIsFrames DEF Inv, CoreInv, CoreTypeOK, Keeps
  <1>2. ASSUME UNCHANGED <<queueVars, closeVars, lastId, wire>>, Keeps(stack, stack')
        PROVE  Advances
    <2>1. UNCHANGED <<queue, wire, closed, lastId>>
      BY <1>2 DEF queueVars, closeVars
    <2> QED
      BY <1>1, <1>2, <2>1, Rests
  <1>3. ASSUME closed', UNCHANGED <<queue, wire, lastId>>
        PROVE  Advances
    BY <1>1, <1>3, Rests
  <1>4. ASSUME NEW rest, CloseCall(rest)
        PROVE  Advances
    BY <1>3, <1>4 DEF CloseCall
  <1>5. ASSUME NEW size \in Sizes, NEW addrOK \in AddrKinds, NEW valid \in BOOLEAN,
               Write(size, addrOK, valid)
        PROVE  Advances
    <2>1. CoreWrite(size, addrOK, valid)
      BY <1>5 DEF Write
    <2>2. CASE Accepted
      <3>1. PICK k : SentPrefix(k) /\ (~closed => Batch(stack, k))
        BY DEF SentInv
      <3>2. SentPrefix(k)' /\ WireInv' /\ Channel!ChanNext
        BY <1>1, <2>2, <3>1, ChannelAccepts
      <3>3. ~closed
        BY <2>2 DEF Accepted
      <3>4. valid /\ queue' # queue
        <4>1. queue \in Seq(Datagram)
          BY <1>1 DEF CoreInv, CoreTypeOK
        <4>2. PICK d \in Datagram : queue' = Append(queue, d)
          BY <2>2 DEF Accepted
        <4>3. Len(queue') = Len(queue) + 1 /\ Len(queue) \in Nat
          BY <4>1, <4>2, AppendElements
        <4>4. queue' # queue
          BY <4>3
        <4> QED
          BY <2>1, <4>4 DEF CoreWrite, queueVars
      <3>5. stack' = stack \/ stack' = <<Cb("writability")>> \o stack
        BY <2>1, <3>3, <3>4 DEF CoreWrite, Enqueue, UpdateWritability
      <3>6. Keeps(stack, stack')
        BY <1>1, <3>5, KeepsCallback
      <3>7. SentInv'
        BY <3>1, <3>2, <3>3, <3>6 DEF SentInv, Keeps
      <3> QED
        BY <3>2, <3>7 DEF Advances
    <2>3. CASE QueueKept /\ UNCHANGED <<refs, stack>>
      <3>1. UNCHANGED <<queue, wire, closed>> /\ lastId' = lastId + 1
        BY <2>1, <2>3 DEF QueueKept, CoreWrite, closeVars
      <3> QED
        BY <1>1, <2>3, <3>1, Rests
    <2> QED
      BY <1>1, <2>1, <2>2, <2>3, WriteMoves
  <1>6. CASE Flush
    <2> DEFINE f == FlushFrame(0, FALSE, FALSE)
    <2>1. ~FlushInterrupted /\ stack' = <<f>> \o stack
      BY <1>6 DEF Flush
    <2>2. IsFlush(f) /\ f.left = 0
      BY DEF IsFlush, FlushFrame
    <2>3. NoBatch(stack)
      <3> SUFFICES ASSUME NEW i \in 1 .. Len(stack), IsFlush(stack[i])
                   PROVE  stack[i].left = 0
        BY DEF NoBatch
      <3>1. stack[i] \in Frame /\ stack[i].op = "flush" /\ i \in DOMAIN stack
        BY <1>1 DEF IsFlush
      <3>2. stack[i].left \in Nat
        BY <3>1, FrameKinds DEF FlushFrames
      <3> QED
        BY <2>1, <3>1, <3>2 DEF FlushInterrupted
    <2> HIDE DEF f
    <2>4. Keeps(stack, stack')
      BY <1>1, <2>1, <2>2, <2>3, KeepsStart
    <2> QED
      BY <1>2, <1>6, <2>4 DEF Flush
  <1>7. CASE Read
    <2> DEFINE f == StartRead
    <2>1. stack' = <<f>> \o stack
      BY <1>7 DEF Read
    <2>2. ~IsFlush(f)
      BY DEF IsFlush, StartRead, ReadFrame
    <2> HIDE DEF f
    <2>3. Keeps(stack, stack')
      BY <1>1, <2>1, <2>2, KeepsPush
    <2> QED
      BY <1>2, <1>7, <2>3 DEF Read
  <1>8. CASE Close
    BY <1>4, <1>8 DEF Close, CoreClose
  <1>9. CASE HandlerReturn
    <2>1. Running("cb") /\ stack' = Tail(stack) /\ UNCHANGED <<queueVars, closeVars, lastId, wire>>
      BY <1>9 DEF HandlerReturn, CbReturn
    <2>2. stack # <<>> /\ ~IsFlush(Head(stack))
      BY <2>1 DEF Running, IsFlush
    <2>3. Keeps(stack, stack')
      BY <1>1, <2>1, <2>2, BatchAbove DEF Keeps
    <2> QED
      BY <1>2, <2>1, <2>3
  <1>10. CASE FlushDequeue
    BY <1>10, DequeueAdvances
  <1>11. CASE FlushSend
    BY <1>11, SendAdvances
  <1>12. CASE FlushBlocked \/ FlushDone
    <2> DEFINE f == Head(stack)
               s == Tail(stack)
    <2>1. Running("flush") /\ f.left = 0 /\ UNCHANGED <<queueVars, closeVars, lastId, wire>>
      BY <1>12 DEF FlushBlocked, FlushDone
    <2>2. stack # <<>> /\ s \in Seq(Frame) /\ IsFlush(f)
      BY <1>1, <2>1, PopFrame DEF Running, IsFlush
    <2>3. Keeps(stack, s)
      BY <1>1, <2>1, <2>2, KeepsEnd
    <2>4. stack' \in {s, FlushFailed(s, f.ev), <<Cb("flushComplete")>> \o s}
      <3>1. CASE FlushBlocked
        BY <3>1, Zenon DEF FlushBlocked
      <3>2. CASE FlushDone
        BY <3>2, Zenon DEF FlushDone
      <3> QED
        BY <1>12, <3>1, <3>2
    <2>5. FlushFailed(s, f.ev) \in {s, FailAndClose(s)}
      BY DEF FlushFailed
    <2>6. Keeps(s, FailAndClose(s)) /\ Keeps(s, <<Cb("flushComplete")>> \o s) /\ Keeps(s, s)
      BY <2>2, KeepsFailure, KeepsCallback DEF Keeps
    <2> HIDE DEF s
    <2>7. Keeps(s, stack')
      BY <2>4, <2>5, <2>6
    <2> QED
      BY <1>2, <2>1, <2>3, <2>7, KeepsBoth
  <1>13. CASE ReadReceive \/ ReadFire \/ ReadDiscard \/ ReadBatchDone \/ ReadExit
    <2>1. UNCHANGED <<queueVars, closeVars, lastId, wire>>
      BY <1>13 DEF ReadReceive, ReadFire, ReadDiscard, ReadBatchDone, ReadExit
    <2> QED
      BY <1>2, <1>13, <2>1, ReadKeeps
  <1>14. CASE Closing
    <2>1. CASE DoClose
      BY <1>4, <2>1 DEF DoClose
    <2>2. CASE CloseStep
      <3>1. closed /\ UNCHANGED <<closed, lastId, wire>>
        BY <2>2, ClosedWhenClosing DEF CloseStep
      <3>2. CASE queue # <<>>
        <4>1. Dropped
          BY <2>2, <3>2 DEF CloseStep, Dequeue, UpdateWritability, Dropped
        <4>2. PICK k : SentPrefix(k)
          BY DEF SentInv
        <4> DEFINE m == IF k > 0 THEN k - 1 ELSE 0
        <4>3. SentPrefix(m)' /\ WireInv' /\ (Channel!ChanNext \/ UNCHANGED <<Unsent, wire, closed>>)
          BY <1>1, <3>1, <4>1, <4>2, ChannelDrops
        <4> HIDE DEF m
        <4>4. SentInv'
          BY <3>1, <4>3 DEF SentInv
        <4> QED
          BY <4>3, <4>4 DEF Advances
      <3>3. CASE queue = <<>>
        BY <1>3, <2>2, <3>1, <3>3 DEF CloseStep, queueVars
      <3> QED
        BY <3>2, <3>3
    <2> QED
      BY <1>14, <2>1, <2>2 DEF Closing
  <1>15. ASSUME NEW read \in BOOLEAN, NEW write \in BOOLEAN, HandleReady(read, write)
         PROVE  Advances
    <2> DEFINE a == IF read /\ autoRead THEN <<StartRead>> ELSE <<>>
               f == FlushFrame(0, FALSE, TRUE)
               b == IF write THEN <<f>> ELSE <<>>
    <2>1. stack = <<>> /\ stack' = a \o b /\ UNCHANGED <<queueVars, closeVars, lastId, wire>>
      BY <1>15 DEF HandleReady
    <2>2. IsFlush(f) /\ f.left = 0 /\ ~IsFlush(StartRead)
      BY DEF IsFlush, FlushFrame, StartRead, ReadFrame
    <2> HIDE DEF f
    <2>3. b \in Seq({f}) /\ Keeps(stack, b)
      <3>1. NoBatch(<<>>) /\ <<>> \in Seq({f}) /\ <<f>> \in Seq({f}) /\ <<f>> \o <<>> = <<f>>
        BY DEF NoBatch
      <3>2. Keeps(<<>>, <<f>> \o <<>>)
        BY <2>2, <3>1, KeepsStart
      <3> QED
        BY <2>1, <3>1, <3>2 DEF Keeps
    <2>4. Keeps(b, a \o b)
      <3>1. Keeps(b, <<StartRead>> \o b)
        BY <2>2, <2>3, KeepsPush
      <3>2. Keeps(b, <<>> \o b)
        BY <2>3 DEF Keeps
      <3> HIDE DEF b
      <3> QED
        BY <3>1, <3>2
    <2> HIDE DEF a, b
    <2>5. Keeps(stack, stack')
      BY <2>1, <2>3, <2>4, KeepsBoth
    <2> QED
      BY <1>2, <2>1, <2>5
  <1>16. CASE HandleError
    <2>1. stack = <<>> /\ stack' = FailAndClose(<<>>)
      BY <1>16 DEF HandleError
    <2>2. <<>> \in Seq(Frame)
      OBVIOUS
    <2>3. Keeps(stack, stack')
      BY <2>1, <2>2, KeepsFailure
    <2> QED
      BY <1>2, <1>16, <2>3 DEF HandleError
  <1>17. CASE HandleHangup
    BY <1>4, <1>17 DEF HandleHangup
  <1>18. CASE Arrive \/ UNCHANGED vars
    <2>1. UNCHANGED coreVars
      BY <1>18 DEF Arrive, vars
    <2> QED
      BY <1>1, <1>2, <2>1 DEF coreVars
  <1> QED
    BY <1>5, <1>6, <1>7, <1>8, <1>9, <1>10, <1>11, <1>12, <1>13, <1>14, <1>15, <1>16,
       <1>17, <1>18
    DEF Next, MethodStep

(* The platform is chosen once. *)
LEMMA PlatformFixed == Spec => [](platform \in Platforms)
  <1>1. Init => platform \in Platforms
    BY DEF Init
  <1>2. platform \in Platforms /\ [Next]_vars => (platform \in Platforms)'
    <2> SUFFICES ASSUME [Next]_vars
                 PROVE  platform' = platform
      OBVIOUS
    <2>1. ASSUME NEW size, NEW addrOK, NEW valid, Write(size, addrOK, valid)
          PROVE  platform' = platform
      BY <2>1 DEF Write
    <2>2. ASSUME NEW read, NEW write, HandleReady(read, write)
          PROVE  platform' = platform
      BY <2>2 DEF HandleReady
    <2>3. CASE MethodStep
      BY <2>3 DEF MethodStep, FlushDequeue, FlushSend, FlushBlocked, FlushDone, ReadReceive,
                  ReadFire, ReadDiscard, ReadBatchDone, ReadExit, Closing
    <2>4. CASE Flush \/ Read \/ Close \/ HandlerReturn
      BY <2>4 DEF Flush, Read, Close, HandlerReturn
    <2>5. CASE HandleError \/ HandleHangup \/ Arrive \/ UNCHANGED vars
      BY <2>5 DEF HandleError, HandleHangup, Arrive, vars
    <2> QED
      BY <2>1, <2>2, <2>3, <2>4, <2>5 DEF Next
  <1> QED
    BY <1>1, <1>2, PTL DEF Spec

ChannelInv == OutInv /\ WireInv /\ SentInv

(* Where handlers leave a batch in progress alone and failures come before *)
(* the first datagram of a batch, the invariant holds and every step is    *)
(* one of the channel.                                                     *)
LEMMA ChannelNext ==
  ASSUME ReentrantFlush = FALSE, NoPartialFailure
  PROVE  ChannelInv /\ OutInv' /\ platform \in Platforms /\ [Next]_vars
           => ChannelInv' /\ (Channel!ChanNext \/ UNCHANGED <<Unsent, wire, closed>>)
  BY ChannelStep DEF ChannelInv, OutInv, Advances

LEMMA ChannelStart == Init => WireInv /\ SentInv /\ Channel!ChanInit
  <1> SUFFICES ASSUME Init
               PROVE  WireInv /\ SentInv /\ Channel!ChanInit
    OBVIOUS
  <1>1. CoreInit(<<>>)
    BY DEF Init
  <1>2. SentPrefix(0) /\ WireInv /\ Channel!ChanInit
    BY <1>1, ChannelStarts
  <1>3. Batch(stack, 0)
    <2>1. stack = <<Cb("active")>> \o <<>>
      BY <1>1 DEF CoreInit
    <2>2. <<>> \in Seq(Frame) /\ Batch(<<>>, 0)
      BY DEF Batch, NoBatch
    <2>3. Keeps(<<>>, <<Cb("active")>> \o <<>>)
      BY <2>2, KeepsCallback
    <2> QED
      BY <2>1, <2>2, <2>3 DEF Keeps
  <1> QED
    BY <1>2, <1>3 DEF SentInv

(* The endpoint on a readiness poller implements DatagramChannel: what     *)
(* Write accepted goes to the socket in order and at most once, and leaves *)
(* the queue unsent only after Close, however would-blocks, write-ready    *)
(* events, failures, reads, handlers and Close interleave.                 *)
THEOREM ReadinessImplementsChannel ==
  ASSUME ReentrantFlush = FALSE, NoPartialFailure
  PROVE  Spec => ImplementsChannel
  <1>1. Init => WireInv /\ SentInv /\ Channel!ChanInit
    BY ChannelStart
  <1>2. ChannelInv /\ OutInv' /\ platform \in Platforms /\ [Next]_vars
          => ChannelInv' /\ [Channel!ChanNext]_<<Unsent, wire, ~closed>>
    <2>1. UNCHANGED <<Unsent, wire, closed>> => UNCHANGED <<Unsent, wire, ~closed>>
      OBVIOUS
    <2> QED
      BY <2>1, ChannelNext
  <1>3. OutInv /\ WireInv /\ SentInv => ChannelInv
    BY DEF ChannelInv
  <1> QED
    BY <1>1, <1>2, <1>3, OutInvariance, PlatformFixed, PTL
    DEF Spec, ImplementsChannel, Channel!ChanSpec, Channel!chanVars
=============================================================================
