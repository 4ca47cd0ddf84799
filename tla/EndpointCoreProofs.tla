------------------------ MODULE EndpointCoreProofs ------------------------
(***************************************************************************)
(* What the operations of EndpointCore preserve, for every value of the    *)
(* constants. The set F stands for the frames of the module that completes *)
(* EndpointCore.                                                           *)
(***************************************************************************)
EXTENDS EndpointCore, SequenceTheorems, WellFoundedInduction, TLAPS

(* The frames that may be on the stack of an open endpoint too.            *)
PlainFrame == CoreFrame \ {CloseFrame}

(* Callbacks and a pending call of Close are plain frames. *)
LEMMA PlainFrames ==
  /\ \A kind \in CbKinds : Cb(kind) \in PlainFrame
  /\ DoCloseFrame \in PlainFrame
  BY DEF PlainFrame, CoreFrame, Cb, CloseFrame, DoCloseFrame

(* A callback frame pushed on a stack of frames gives a stack of frames.   *)
LEMMA PushFrame ==
  ASSUME NEW F, NEW f \in F, NEW s \in Seq(F)
  PROVE  /\ <<f>> \o s \in Seq(F)
         /\ <<f>> \o s # <<>>
         /\ Head(<<f>> \o s) = f
         /\ Tail(<<f>> \o s) = s
  OBVIOUS

(* The continuation of every error path is a stack of frames.              *)
LEMMA FailAndCloseType ==
  ASSUME NEW F, PlainFrame \subseteq F, NEW s \in Seq(F)
  PROVE  FailAndClose(s) \in Seq(F)
  <1>1. Cb("exception") \in F /\ DoCloseFrame \in F
    BY PlainFrames DEF CbKinds
  <1> QED
    BY <1>1 DEF FailAndClose

(* The pop of a running frame. *)
LEMMA PopFrame ==
  ASSUME NEW F, stack \in Seq(F), NEW op, Running(op)
  PROVE  stack # <<>> /\ Head(stack) \in F /\ Tail(stack) \in Seq(F)
  BY DEF Running

(* updateWritability keeps the hysteresis and fires at most one callback.  *)
LEMMA UpdateWritabilityStep ==
  ASSUME NEW F, PlainFrame \subseteq F, NEW rest \in Seq(F), NEW bytes \in Nat,
         CoreInv, closed' = closed, UpdateWritability(bytes, rest)
  PROVE  /\ outboundBytes' \in Nat
         /\ writable' \in BOOLEAN
         /\ WatermarkHysteresis'
         /\ closed' => ~writable'
         /\ stack' \in Seq(F)
  <1>1. outboundBytes' = bytes /\ writable' = NextWritable(bytes)
    BY DEF UpdateWritability
  <1>2. writable' \in BOOLEAN
    BY <1>1, Zenon DEF NextWritable
  <1>3. writable' <=> ~closed /\ (IF writable THEN bytes < High ELSE bytes <= Low)
    BY <1>1, Zenon DEF NextWritable
  <1>4. WatermarkHysteresis' /\ (closed' => ~writable')
    BY <1>1, <1>2, <1>3, WatermarkAssumption DEF WatermarkHysteresis
  <1>5. Cb("writability") \in F
    BY PlainFrames DEF CbKinds
  <1>6. stack' \in Seq(F)
    BY <1>5 DEF UpdateWritability
  <1> QED
    BY <1>1, <1>2, <1>4, <1>6

(* A step that touches neither the queue nor the life cycle.               *)
LEMMA CoreUntouched ==
  ASSUME CoreInv, UNCHANGED <<queueVars, closeVars, lastId>>, wire' \in Seq(Ids)
  PROVE  CoreInv'
  BY DEF CoreInv, CoreTypeOK, queueVars, closeVars, WatermarkHysteresis, ReleasedBeforeClosed

(* dequeue keeps the invariant, whatever the caller goes on with.          *)
LEMMA DequeuePreserves ==
  ASSUME NEW F, PlainFrame \subseteq F, NEW rest \in Seq(F),
         CoreInv, Dequeue(rest), UNCHANGED <<closeVars, lastId, wire>>
  PROVE  CoreInv' /\ stack' \in Seq(F)
  <1>1. CASE queue = <<>>
    <2>1. UNCHANGED queueVars /\ stack' = rest
      BY <1>1 DEF Dequeue
    <2>2. wire' \in Seq(Ids)
      BY DEF CoreInv, CoreTypeOK
    <2> QED
      BY <2>1, <2>2, CoreUntouched
  <1>2. CASE queue # <<>>
    <2> DEFINE left == outboundBytes - Head(queue).size
               bytes == IF left < 0 THEN 0 ELSE left
    <2>1. /\ queue' = Tail(queue)
          /\ refs' = [refs EXCEPT ![Head(queue).id] = @ - 1]
          /\ UpdateWritability(bytes, rest)
      BY <1>2 DEF Dequeue
    <2>2. queue \in Seq(Datagram) /\ outboundBytes \in Nat /\ refs \in [Ids -> Int]
      BY DEF CoreInv, CoreTypeOK
    <2>3. Head(queue) \in Datagram /\ Tail(queue) \in Seq(Datagram)
      BY <1>2, <2>2
    <2>4. Head(queue).size \in Nat
      BY <2>3, WriteAssumption DEF Datagram
    <2>5. bytes \in Nat
      BY <2>2, <2>4
    <2>6. closed' = closed
      BY DEF closeVars
    <2>7. /\ outboundBytes' \in Nat /\ writable' \in BOOLEAN /\ WatermarkHysteresis'
          /\ closed' => ~writable'
          /\ stack' \in Seq(F)
      <3> HIDE DEF bytes
      <3> QED
        BY <2>1, <2>5, <2>6, UpdateWritabilityStep
    <2>8. queue' \in Seq(Datagram) /\ refs' \in [Ids -> Int]
      <3>1. Head(queue).id \in Ids
        BY <2>3 DEF Datagram
      <3>2. refs[Head(queue).id] - 1 \in Int
        BY <2>2, <3>1
      <3> QED
        BY <2>1, <2>2, <2>3, <3>1, <3>2
    <2>9. CoreTypeOK'
      BY <2>7, <2>8 DEF CoreInv, CoreTypeOK, closeVars
    <2>10. ReleasedBeforeClosed'
      BY <1>2 DEF CoreInv, ReleasedBeforeClosed, closeVars
    <2> QED
      BY <2>7, <2>9, <2>10 DEF CoreInv
  <1> QED
    BY <1>1, <1>2

(* Write keeps the invariant; in particular it queues nothing once Close   *)
(* has begun.                                                              *)
LEMMA CoreWritePreserves ==
  ASSUME NEW F, PlainFrame \subseteq F, stack \in Seq(F), CoreInv,
         NEW size \in Sizes, NEW addrOK \in AddrKinds, NEW valid \in BOOLEAN,
         CoreWrite(size, addrOK, valid)
  PROVE  CoreInv' /\ stack' \in Seq(F)
  <1>1. /\ lastId' = lastId + 1 /\ lastId' \in Ids
        /\ UNCHANGED <<closeVars, wire>>
    BY WriteAssumption DEF CoreWrite, CoreInv, CoreTypeOK, Ids
  <1>2. lastId' \in 0 .. MaxWrites
    BY <1>1 DEF Ids
  <1>3. CASE valid /\ ~closed
    <2> DEFINE d == [id |-> lastId + 1, size |-> size, addrOK |-> addrOK]
    <2>1. /\ queue' = Append(queue, d)
          /\ UpdateWritability(outboundBytes + d.size, stack)
          /\ refs' = [refs EXCEPT ![lastId + 1] = @ + 1]
      BY <1>3 DEF CoreWrite, Enqueue
    <2>2. d \in Datagram
      BY <1>1 DEF Datagram
    <2>3. queue' \in Seq(Datagram) /\ refs' \in [Ids -> Int]
      <3>1. queue \in Seq(Datagram) /\ refs \in [Ids -> Int] /\ lastId + 1 \in Ids
        BY <1>1 DEF CoreInv, CoreTypeOK
      <3>2. refs[lastId + 1] + 1 \in Int
        BY <3>1
      <3> HIDE DEF d
      <3> QED
        BY <2>1, <2>2, <3>1, <3>2
    <2>4. outboundBytes + d.size \in Nat
      BY WriteAssumption DEF CoreInv, CoreTypeOK
    <2>5. closed' = closed
      BY <1>1 DEF closeVars
    <2>6. /\ outboundBytes' \in Nat /\ writable' \in BOOLEAN /\ WatermarkHysteresis'
          /\ closed' => ~writable'
          /\ stack' \in Seq(F)
      <3> HIDE DEF d
      <3> QED
        BY <2>1, <2>4, <2>5, UpdateWritabilityStep
    <2>7. CoreTypeOK'
      BY <1>1, <1>2, <2>3, <2>6 DEF CoreInv, CoreTypeOK, closeVars
    <2>8. ReleasedBeforeClosed'
      BY <1>1, <1>3 DEF CoreInv, ReleasedBeforeClosed, closeVars
    <2> QED
      BY <2>6, <2>7, <2>8 DEF CoreInv
  <1>4. CASE ~(valid /\ ~closed)
    <2>1. UNCHANGED <<queueVars, stack>>
      BY <1>4 DEF CoreWrite
    <2> QED
      BY <1>1, <1>2, <2>1
      DEF CoreInv, CoreTypeOK, queueVars, closeVars, WatermarkHysteresis, ReleasedBeforeClosed
  <1> QED
    BY <1>3, <1>4

(* Marking the endpoint closed keeps the invariant. *)
LEMMA CloseCallPreserves ==
  ASSUME NEW F, CoreFrame \subseteq F, NEW rest \in Seq(F), CoreInv, CloseCall(rest)
  PROVE  CoreInv' /\ stack' \in Seq(F)
  <1>1. Cb("writability") \in F /\ CloseFrame \in F
    BY DEF CoreFrame, CbKinds
  <1>2. closed \in BOOLEAN /\ writable \in BOOLEAN
    BY DEF CoreInv, CoreTypeOK
  <1>3. stack' \in Seq(F)
    <2>1. CASE closed
      BY <2>1, <1>2 DEF CloseCall
    <2>2. CASE ~closed /\ writable
      BY <2>2, <1>1, <1>2 DEF CloseCall
    <2>3. CASE ~closed /\ ~writable
      BY <2>3, <1>1, <1>2 DEF CloseCall
    <2> QED
      BY <2>1, <2>2, <2>3, <1>2
  <1>4. closed' = TRUE /\ ~writable' /\ writable' \in BOOLEAN
    BY <1>2 DEF CloseCall, CoreInv
  <1>5. UNCHANGED <<queue, outboundBytes, refs, fdOpen, allocOpen, inactiveFired, lastId, wire>>
    BY DEF CloseCall
  <1>6. CoreTypeOK'
    BY <1>4, <1>5 DEF CoreInv, CoreTypeOK
  <1>7. WatermarkHysteresis' /\ ReleasedBeforeClosed'
    BY <1>4, <1>5 DEF CoreInv, WatermarkHysteresis, ReleasedBeforeClosed
  <1> QED
    BY <1>3, <1>4, <1>6, <1>7 DEF CoreInv

(* The rest of Close keeps the invariant: the descriptor, the allocator    *)
(* and the inactive event come after the queue is empty. closed is a       *)
(* hypothesis, the stack invariant of the extending module supplies it.    *)
LEMMA CloseStepPreserves ==
  ASSUME NEW F, PlainFrame \subseteq F, stack \in Seq(F), CoreInv, closed, CloseStep
  PROVE  CoreInv' /\ stack' \in Seq(F)
  <1>1. UNCHANGED <<closed, lastId, wire>>
    BY DEF CloseStep
  <1>2. CASE queue # <<>>
    <2>1. Dequeue(stack) /\ UNCHANGED <<closeVars, lastId, wire>>
      BY <1>2 DEF CloseStep, closeVars
    <2> QED
      BY <2>1, DequeuePreserves
  <1>3. CASE queue = <<>>
    <2>1. /\ fdOpen' = FALSE /\ allocOpen' = FALSE /\ inactiveFired' = TRUE
          /\ stack' = (IF inactiveFired THEN <<>> ELSE <<Cb("inactive")>>) \o Tail(stack)
          /\ UNCHANGED queueVars
      BY <1>3 DEF CloseStep
    <2>2. Cb("inactive") \in F /\ Tail(stack) \in Seq(F)
      BY PlainFrames, PopFrame DEF CbKinds, CloseStep
    <2>3. stack' \in Seq(F)
      BY <2>1, <2>2
    <2>4. CoreInv'
      BY <2>1, <1>1, <1>3
      DEF CoreInv, CoreTypeOK, queueVars, WatermarkHysteresis, ReleasedBeforeClosed
    <2> QED
      BY <2>3, <2>4
  <1> QED
    BY <1>2, <1>3

(* The state in which the loop registers the endpoint satisfies CoreInv.   *)
LEMMA CoreInitInv ==
  ASSUME NEW F, PlainFrame \subseteq F, NEW rest \in Seq(F), CoreInit(rest)
  PROVE  CoreInv /\ stack \in Seq(F)
  <1>1. Cb("active") \in F
    BY PlainFrames DEF CbKinds
  <1>2. stack \in Seq(F)
    BY <1>1 DEF CoreInit
  <1>3. CoreTypeOK
    <2>1. queue \in Seq(Datagram) /\ wire \in Seq(Ids)
      BY DEF CoreInit
    <2>2. refs \in [Ids -> Int]
      BY DEF CoreInit
    <2>3. lastId \in 0 .. MaxWrites
      BY WriteAssumption DEF CoreInit
    <2> QED
      BY <2>1, <2>2, <2>3 DEF CoreInit, CoreTypeOK
  <1>4. WatermarkHysteresis
    BY WatermarkAssumption DEF CoreInit, WatermarkHysteresis
  <1> QED
    BY <1>2, <1>3, <1>4 DEF CoreInit, CoreInv, ReleasedBeforeClosed

-----------------------------------------------------------------------------
(* Induction over the natural numbers, for sets.                           *)

(* A set of natural numbers that is not empty has a least element.         *)
LEMMA LeastNatural ==
  ASSUME NEW T \in SUBSET Nat, T # {}
  PROVE  \E x \in T : \A y \in T : x <= y
  <1> DEFINE R == {p \in Nat \X Nat : p[1] < p[2]}
  <1>1. IsWellFoundedOn(R, Nat)
    BY NatLessThanWellFounded DEF OpToRel
  <1>2. PICK x \in T : \A y \in T : ~ (<<y, x>> \in R)
    <2> HIDE DEF R
    <2> QED
      BY <1>1, WFMin
  <1>3. ASSUME NEW y \in T
        PROVE  x <= y
    <2>1. x \in Nat /\ y \in Nat
      OBVIOUS
    <2>2. <<y, x>> \in Nat \X Nat /\ ~ (<<y, x>> \in R)
      BY <1>2, <2>1
    <2>3. ~(y < x)
      BY <2>2
    <2> QED
      BY <2>1, <2>3
  <1> QED
    BY <1>3

(* A set with zero and all successors holds every natural number.          *)
LEMMA NaturalInduction ==
  ASSUME NEW S, 0 \in S, \A n \in Nat : n \in S => n + 1 \in S
  PROVE  \A n \in Nat : n \in S
  <1> SUFFICES ASSUME Nat \ S # {}
               PROVE  FALSE
    OBVIOUS
  <1>1. PICK x \in Nat \ S : \A y \in Nat \ S : x <= y
    BY LeastNatural
  <1>2. x # 0 /\ x - 1 \in Nat
    BY <1>1
  <1>3. x - 1 \in S
    BY <1>1, <1>2
  <1> QED
    BY <1>1, <1>2, <1>3

-----------------------------------------------------------------------------
(* The sum that BytesMatchQueue compares with. PrefixSums(q, f) says that  *)
(* f[i] is the size of the first i datagrams of q.                         *)

PrefixSums(q, f) ==
  /\ f \in [Nat -> Nat]
  /\ f[0] = 0
  /\ \A i \in 1 .. Len(q) : f[i] = f[i - 1] + q[i].size
  /\ \A i, j \in Nat : i <= j => f[i] <= f[j]

(* What FoldLeft makes of the first n datagrams.                           *)
FoldEquation(g, q, n) ==
  g = [s \in SUBSET (1 .. n) |-> IF s = {} THEN 0 ELSE g[s \ {Max(s)}] + q[Max(s)].size]

(* The greatest element of a set of integers. *)
LEMMA MaxIs ==
  ASSUME NEW s, s \subseteq Int, NEW x \in s, \A y \in s : x >= y
  PROVE  Max(s) = x
  <1> DEFINE m == CHOOSE m \in s : \A y \in s : m >= y
  <1>1. m \in s /\ \A y \in s : m >= y
    OBVIOUS
  <1>2. m = x
    <2>1. m \in Int /\ x \in Int /\ m >= x /\ x >= m
      BY <1>1
    <2> HIDE DEF m
    <2> QED
      BY <2>1
  <1> QED
    BY <1>2 DEF Max

(* The recursion of FoldLeft has a solution, for every number of elements. *)
LEMMA FoldExists ==
  ASSUME NEW q
  PROVE  \A n \in Nat : \E g : FoldEquation(g, q, n)
  <1> DEFINE S == {n \in Nat : \E g : FoldEquation(g, q, n)}
  <1>1. 0 \in S
    <2> DEFINE g == [s \in SUBSET (1 .. 0) |-> 0]
    <2>1. \A s \in SUBSET (1 .. 0) : s = {}
      OBVIOUS
    <2>2. FoldEquation(g, q, 0)
      BY <2>1 DEF FoldEquation
    <2> QED
      BY <2>2
  <1>2. ASSUME NEW n \in Nat, n \in S
        PROVE  n + 1 \in S
    <2>1. PICK h : FoldEquation(h, q, n)
      BY <1>2
    <2> DEFINE g == [s \in SUBSET (1 .. n + 1) |->
                       IF n + 1 \in s THEN h[s \ {n + 1}] + q[n + 1].size ELSE h[s]]
               v(s) == IF s = {} THEN 0 ELSE g[s \ {Max(s)}] + q[Max(s)].size
    <2>2. ASSUME NEW s \in SUBSET (1 .. n + 1)
          PROVE  g[s] = v(s)
      <3>1. CASE n + 1 \in s
        <4>1. s \subseteq Int /\ \A y \in s : n + 1 >= y
          OBVIOUS
        <4>2. Max(s) = n + 1
          BY <3>1, <4>1, MaxIs
        <4>3. n + 1 \notin s \ {n + 1} /\ s \ {n + 1} \in SUBSET (1 .. n + 1)
          OBVIOUS
        <4>4. g[s \ {n + 1}] = h[s \ {n + 1}]
          BY <4>3
        <4> QED
          BY <3>1, <4>2, <4>4
      <3>2. CASE n + 1 \notin s
        <4>1. s \in SUBSET (1 .. n)
          BY <3>2
        <4>2. g[s] = h[s]
          BY <3>2
        <4>3. h[s] = IF s = {} THEN 0 ELSE h[s \ {Max(s)}] + q[Max(s)].size
          BY <2>1, <4>1 DEF FoldEquation
        <4>4. n + 1 \notin s \ {Max(s)} /\ s \ {Max(s)} \in SUBSET (1 .. n + 1)
          BY <3>2
        <4>5. g[s \ {Max(s)}] = h[s \ {Max(s)}]
          BY <4>4
        <4> HIDE DEF g
        <4> QED
          BY <4>2, <4>3, <4>5
      <3> QED
        BY <3>1, <3>2
    <2>3. FoldEquation(g, q, n + 1)
      <3>1. g = [s \in SUBSET (1 .. n + 1) |-> g[s]]
        OBVIOUS
      <3>2. [s \in SUBSET (1 .. n + 1) |-> g[s]] = [s \in SUBSET (1 .. n + 1) |-> v(s)]
        <4> HIDE DEF g, v
        <4> QED
          BY <2>2
      <3> HIDE DEF g
      <3> QED
        BY <3>1, <3>2 DEF FoldEquation
    <2> QED
      BY <2>3
  <1> HIDE DEF S
  <1>3. \A n \in Nat : n \in S
    BY <1>1, <1>2, NaturalInduction
  <1> QED
    BY <1>3 DEF S

TotalSize(q) == FoldLeft(LAMBDA sum, d : sum + d.size, 0, q)

(* The fold over a queue is the last of its prefix sums.                   *)
LEMMA TotalIsLastSum ==
  ASSUME NEW D, NEW q \in Seq(D), NEW f, PrefixSums(q, f)
  PROVE  TotalSize(q) = f[Len(q)]
  <1> DEFINE fold == CHOOSE g : FoldEquation(g, q, Len(q))
             S == {n \in Nat : n <= Len(q) => fold[1 .. n] = f[n]}
  <1>1. Len(q) \in Nat /\ DOMAIN q = 1 .. Len(q)
    OBVIOUS
  <1>2. TotalSize(q) = fold[1 .. Len(q)]
    BY <1>1 DEF TotalSize, FoldLeft, MapThenFoldSet, FoldEquation
  <1>3. FoldEquation(fold, q, Len(q))
    <2>1. \E g : FoldEquation(g, q, Len(q))
      BY <1>1, FoldExists
    <2> QED
      BY <2>1
  <1> HIDE DEF fold
  <1>4. 0 \in S
    <2>1. 1 .. 0 = {} /\ 1 .. 0 \in SUBSET (1 .. Len(q))
      OBVIOUS
    <2>2. fold[1 .. 0] = 0
      BY <1>3, <2>1 DEF FoldEquation
    <2> QED
      BY <2>2 DEF PrefixSums
  <1>5. ASSUME NEW n \in Nat, n \in S
        PROVE  n + 1 \in S
    <2> SUFFICES ASSUME n + 1 <= Len(q)
                 PROVE  fold[1 .. n + 1] = f[n + 1]
      OBVIOUS
    <2>1. fold[1 .. n] = f[n]
      BY <1>1, <1>5
    <2>2. 1 .. n + 1 \subseteq Int /\ n + 1 \in 1 .. n + 1 /\ \A y \in 1 .. n + 1 : n + 1 >= y
      OBVIOUS
    <2>3. Max(1 .. n + 1) = n + 1
      BY <2>2, MaxIs
    <2>4. 1 .. n + 1 \subseteq 1 .. Len(q) /\ 1 .. n + 1 # {}
      <3>1. Len(q) \in Nat /\ n + 1 <= Len(q)
        BY <1>1
      <3>2. \A y \in 1 .. n + 1 : y \in 1 .. Len(q)
        BY <3>1
      <3>3. 1 \in 1 .. n + 1
        OBVIOUS
      <3> QED
        BY <3>2, <3>3
    <2>5. (1 .. n + 1) \ {n + 1} = 1 .. n
      OBVIOUS
    <2>6. fold[1 .. n + 1] = fold[1 .. n] + q[n + 1].size
      BY <1>3, <2>3, <2>4, <2>5 DEF FoldEquation
    <2>7. n + 1 \in 1 .. Len(q) /\ n + 1 - 1 = n
      BY <1>1
    <2>8. f[n + 1] = f[n] + q[n + 1].size
      <3>1. \A i \in 1 .. Len(q) : f[i] = f[i - 1] + q[i].size
        BY DEF PrefixSums
      <3>2. f[n + 1] = f[n + 1 - 1] + q[n + 1].size
        BY <2>7, <3>1
      <3> QED
        BY <2>7, <3>2
    <2> QED
      BY <2>1, <2>6, <2>8
  <1>6. Len(q) \in S
    <2> HIDE DEF S
    <2> QED
      BY <1>1, <1>4, <1>5, NaturalInduction
  <1> QED
    BY <1>1, <1>2, <1>6

-----------------------------------------------------------------------------
(* The queue: its datagrams are in the order of the Write calls, and       *)
(* outboundBytes is the sum of their sizes. With CoreInv these are         *)
(* preserved by each of the three things that happen to the queue.         *)

QueueOrdered ==
  /\ \A i, j \in 1 .. Len(queue) : i < j => queue[i].id < queue[j].id
  /\ \A i \in 1 .. Len(queue) : queue[i].id <= lastId

BytesSum == \E f : PrefixSums(queue, f) /\ outboundBytes = f[Len(queue)]

QueueInv == QueueOrdered /\ BytesSum

Accepted ==
  \E d \in Datagram :
    /\ ~closed
    /\ d.id = lastId + 1 /\ lastId' = lastId + 1
    /\ queue' = Append(queue, d)
    /\ outboundBytes' = outboundBytes + d.size
    /\ refs' = [refs EXCEPT ![d.id] = @ + 1]
    /\ UNCHANGED <<closeVars, wire>>

Dropped ==
  /\ queue # <<>>
  /\ queue' = Tail(queue)
  /\ outboundBytes' = IF outboundBytes - Head(queue).size < 0 THEN 0
                      ELSE outboundBytes - Head(queue).size
  /\ refs' = [refs EXCEPT ![Head(queue).id] = @ - 1]
  /\ UNCHANGED <<lastId, wire>>

QueueKept ==
  /\ UNCHANGED <<queue, outboundBytes>>
  /\ lastId' \in {lastId, lastId + 1}

(* The elements of a sequence after Append and Tail. *)
LEMMA AppendElements ==
  ASSUME NEW S, NEW q \in Seq(S), NEW d \in S
  PROVE  /\ Append(q, d) \in Seq(S) /\ Len(Append(q, d)) = Len(q) + 1
         /\ \A i \in 1 .. Len(q) : Append(q, d)[i] = q[i]
         /\ Append(q, d)[Len(q) + 1] = d
  OBVIOUS

LEMMA TailElements ==
  ASSUME NEW S, NEW q \in Seq(S), q # <<>>
  PROVE  /\ Tail(q) \in Seq(S) /\ Len(q) \in Nat \ {0} /\ Len(Tail(q)) = Len(q) - 1
         /\ \A i \in 1 .. Len(q) - 1 : Tail(q)[i] = q[i + 1]
         /\ Head(q) = q[1] /\ Head(q) \in S
  OBVIOUS

(* The size of a datagram. *)
LEMMA SizeType == \A d \in Datagram : d.size \in Nat
  BY WriteAssumption DEF Datagram

(* Prefix sums of a queue that grew at its end, and of one that lost its   *)
(* head.                                                                   *)
LEMMA SumsOfAppend ==
  ASSUME NEW D, \A d \in D : d.size \in Nat,
         NEW q \in Seq(D), NEW d \in D, NEW f, PrefixSums(q, f)
  PROVE  \E g : PrefixSums(Append(q, d), g) /\ g[Len(q) + 1] = f[Len(q)] + d.size
  <1> DEFINE n == Len(q)
             g == [i \in Nat |-> IF i <= n THEN f[i] ELSE f[n] + d.size]
             r == Append(q, d)
  <1>1. d.size \in Nat /\ n \in Nat
    OBVIOUS
  <1>2. f \in [Nat -> Nat] /\ f[0] = 0
    BY DEF PrefixSums
  <1>sums. \A i \in 1 .. n : f[i] = f[i - 1] + q[i].size
    BY DEF PrefixSums
  <1>mono. \A i, j \in Nat : i <= j => f[i] <= f[j]
    BY DEF PrefixSums
  <1>3. Len(r) = n + 1 /\ r[n + 1] = d /\ \A i \in 1 .. n : r[i] = q[i]
    BY AppendElements
  <1> HIDE DEF n, r
  <1>4. f[n] \in Nat /\ f[n] + d.size \in Nat
    BY <1>1, <1>2
  <1>5. g \in [Nat -> Nat] /\ g[0] = 0
    <2>1. \A i \in Nat : f[i] \in Nat
      BY <1>2
    <2>2. 0 <= n
      BY <1>1
    <2> QED
      BY <1>2, <1>4, <2>1, <2>2
  <1>6. \A i, j \in Nat : i <= j => g[i] <= g[j]
    <2> SUFFICES ASSUME NEW i \in Nat, NEW j \in Nat, i <= j
                 PROVE  g[i] <= g[j]
      OBVIOUS
    <2>1. CASE j <= n
      BY <1>1, <1>2, <1>mono, <2>1
    <2>2. CASE i <= n /\ ~(j <= n)
      <3>1. f[i] <= f[n] /\ f[i] \in Nat
        BY <1>1, <1>2, <1>mono, <2>2
      <3>2. g[i] = f[i] /\ g[j] = f[n] + d.size
        BY <2>2
      <3> QED
        BY <1>1, <1>4, <3>1, <3>2
    <2>3. CASE ~(i <= n) /\ ~(j <= n)
      <3>1. g[i] = f[n] + d.size /\ g[j] = f[n] + d.size
        BY <2>3
      <3> QED
        BY <1>4, <3>1
    <2> QED
      BY <1>1, <2>1, <2>2, <2>3
  <1>7. \A i \in 1 .. Len(r) : g[i] = g[i - 1] + r[i].size
    <2> SUFFICES ASSUME NEW i \in 1 .. n + 1
                 PROVE  g[i] = g[i - 1] + r[i].size
      BY <1>3
    <2>1. CASE i <= n
      <3>1. i \in 1 .. n /\ i \in Nat /\ i - 1 \in Nat /\ i - 1 <= n
        BY <1>1, <2>1
      <3>2. g[i] = f[i] /\ g[i - 1] = f[i - 1] /\ r[i] = q[i]
        BY <1>3, <3>1, <2>1
      <3>3. f[i] = f[i - 1] + q[i].size
        BY <1>sums, <3>1
      <3> QED
        BY <3>2, <3>3
    <2>2. CASE ~(i <= n)
      <3>1. i = n + 1 /\ i - 1 = n /\ i \in Nat
        BY <1>1, <2>2
      <3>2. g[i] = f[n] + d.size /\ g[i - 1] = f[n]
        BY <1>1, <2>2, <3>1
      <3> QED
        BY <1>3, <3>1, <3>2
    <2> QED
      BY <2>1, <2>2
  <1>8. PrefixSums(r, g)
    <2> HIDE DEF g
    <2> QED
      BY <1>5, <1>6, <1>7 DEF PrefixSums
  <1>9. g[n + 1] = f[n] + d.size
    BY <1>1
  <1> QED
    BY <1>8, <1>9 DEF n, r

LEMMA SumsOfTail ==
  ASSUME NEW D, \A d \in D : d.size \in Nat,
         NEW q \in Seq(D), q # <<>>, NEW f, PrefixSums(q, f)
  PROVE  /\ \E g : PrefixSums(Tail(q), g) /\ g[Len(q) - 1] = f[Len(q)] - Head(q).size
         /\ f[Len(q)] >= Head(q).size
         /\ f[Len(q)] \in Nat
  <1> DEFINE n == Len(q)
             g == [i \in Nat |-> f[i + 1] - f[1]]
             r == Tail(q)
  <1>1. Head(q).size \in Nat
    BY TailElements
  <1>2. f \in [Nat -> Nat] /\ f[0] = 0
    BY DEF PrefixSums
  <1>sums. \A i \in 1 .. n : f[i] = f[i - 1] + q[i].size
    BY DEF PrefixSums
  <1>mono. \A i, j \in Nat : i <= j => f[i] <= f[j]
    BY DEF PrefixSums
  <1>3. /\ n \in Nat \ {0} /\ Len(r) = n - 1
        /\ \A i \in 1 .. n - 1 : r[i] = q[i + 1]
        /\ Head(q) = q[1]
    BY TailElements
  <1> HIDE DEF n, r
  <1>4. f[1] = Head(q).size
    <2>1. 1 \in 1 .. n /\ 1 - 1 = 0
      BY <1>3
    <2>2. f[1] = f[1 - 1] + q[1].size
      BY <1>sums, <2>1
    <2>3. f[1 - 1] = 0 /\ q[1].size \in Nat
      BY <1>1, <1>2, <1>3, <2>1
    <2> QED
      BY <1>3, <2>2, <2>3
  <1>5. ASSUME NEW i \in Nat
        PROVE  g[i] = f[i + 1] - f[1] /\ f[i + 1] >= f[1] /\ f[i + 1] \in Nat /\ g[i] \in Nat
    <2>1. i + 1 \in Nat /\ 1 <= i + 1 /\ 1 \in Nat
      OBVIOUS
    <2>2. f[i + 1] \in Nat /\ f[1] \in Nat /\ f[1] <= f[i + 1]
      BY <1>2, <1>mono, <2>1
    <2> QED
      BY <2>2
  <1>6. g \in [Nat -> Nat] /\ g[0] = 0
    <2>1. g \in [Nat -> Nat]
      BY <1>5
    <2>2. 0 + 1 = 1 /\ f[1] - f[1] = 0
      BY <1>1, <1>4
    <2> QED
      BY <2>1, <2>2
  <1>7. \A i, j \in Nat : i <= j => g[i] <= g[j]
    <2> SUFFICES ASSUME NEW i \in Nat, NEW j \in Nat, i <= j
                 PROVE  g[i] <= g[j]
      OBVIOUS
    <2>1. f[i + 1] <= f[j + 1]
      BY <1>mono
    <2>2. /\ g[i] = f[i + 1] - f[1] /\ g[j] = f[j + 1] - f[1]
          /\ f[i + 1] \in Nat /\ f[j + 1] \in Nat /\ f[1] \in Nat
      BY <1>1, <1>4, <1>5
    <2> HIDE DEF g
    <2> DEFINE a == f[i + 1]
               b == f[j + 1]
               c == f[1]
    <2>3. a <= b /\ a \in Nat /\ b \in Nat /\ c \in Nat
      BY <2>1, <2>2
    <2>4. a - c <= b - c
      <3> HIDE DEF a, b, c
      <3> QED
        BY <2>3
    <2> QED
      BY <2>2, <2>4
  <1>8. \A i \in 1 .. Len(r) : g[i] = g[i - 1] + r[i].size
    <2> SUFFICES ASSUME NEW i \in 1 .. n - 1
                 PROVE  g[i] = g[i - 1] + r[i].size
      BY <1>3
    <2>1. i \in Nat /\ i - 1 \in Nat /\ i + 1 \in 1 .. n /\ i + 1 - 1 = i /\ i - 1 + 1 = i
      BY <1>3
    <2>2. f[i + 1] = f[i] + q[i + 1].size
      <3>1. f[i + 1] = f[i + 1 - 1] + q[i + 1].size
        BY <1>sums, <2>1
      <3> QED
        BY <2>1, <3>1
    <2>3. g[i] = f[i + 1] - f[1] /\ g[i - 1] = f[i] - f[1] /\ f[i] \in Nat /\ f[1] \in Nat
      <3>1. g[i - 1] = f[i - 1 + 1] - f[1]
        BY <2>1
      <3>2. f[i] \in Nat /\ f[1] \in Nat
        BY <1>2, <2>1
      <3> QED
        BY <2>1, <3>1, <3>2
    <2>4. r[i] = q[i + 1] /\ q[i + 1].size \in Nat
      <3>1. q[i + 1] \in D
        BY <2>1 DEF n
      <3>2. q[i + 1].size \in Nat
        BY <3>1
      <3> QED
        BY <1>3, <3>2
    <2> HIDE DEF g
    <2> QED
      BY <2>2, <2>3, <2>4
  <1>9. PrefixSums(r, g)
    <2> HIDE DEF g
    <2> QED
      BY <1>6, <1>7, <1>8 DEF PrefixSums
  <1>10. g[n - 1] = f[n] - Head(q).size /\ f[n] >= f[1] /\ f[n] \in Nat
    <2>1. n - 1 \in Nat /\ n - 1 + 1 = n
      BY <1>3
    <2>2. g[n - 1] = f[n - 1 + 1] - f[1] /\ f[n - 1 + 1] >= f[1] /\ f[n - 1 + 1] \in Nat
      BY <1>5, <2>1
    <2> HIDE DEF g
    <2> QED
      BY <1>4, <2>1, <2>2
  <1> QED
    BY <1>4, <1>9, <1>10 DEF n, r
(* Write accepts one datagram or leaves the queue alone.                   *)
LEMMA WriteMoves ==
  ASSUME NEW size \in Sizes, NEW addrOK \in AddrKinds, NEW valid \in BOOLEAN,
         CoreInv, CoreWrite(size, addrOK, valid)
  PROVE  Accepted \/ (QueueKept /\ UNCHANGED <<refs, stack>>)
  <1>1. lastId + 1 \in Ids /\ lastId' = lastId + 1 /\ UNCHANGED <<closeVars, wire>>
    BY WriteAssumption DEF CoreWrite, CoreInv, CoreTypeOK, Ids
  <1>2. CASE valid /\ ~closed
    <2> DEFINE d == [id |-> lastId + 1, size |-> size, addrOK |-> addrOK]
    <2>1. /\ queue' = Append(queue, d) /\ outboundBytes' = outboundBytes + d.size
          /\ refs' = [refs EXCEPT ![lastId + 1] = @ + 1]
      BY <1>2 DEF CoreWrite, Enqueue, UpdateWritability
    <2>2. d \in Datagram /\ d.id = lastId + 1
      BY <1>1 DEF Datagram
    <2> HIDE DEF d
    <2> QED
      BY <1>1, <1>2, <2>1, <2>2 DEF Accepted
  <1>3. CASE ~(valid /\ ~closed)
    BY <1>1, <1>3 DEF CoreWrite, QueueKept, queueVars
  <1> QED
    BY <1>2, <1>3

(* dequeue drops the head or does nothing. *)
LEMMA DequeueMoves ==
  ASSUME NEW rest, Dequeue(rest), UNCHANGED <<lastId, wire>>
  PROVE  Dropped \/ (QueueKept /\ UNCHANGED refs)
  BY DEF Dequeue, UpdateWritability, Dropped, QueueKept, queueVars

(* Close drops the head, one datagram at a time, or leaves the queue.      *)
LEMMA ClosingMoves ==
  ASSUME CoreClose \/ DoClose \/ CloseStep
  PROVE  Dropped \/ (QueueKept /\ UNCHANGED refs)
  <1>1. ASSUME NEW rest, CloseCall(rest)
        PROVE  QueueKept /\ UNCHANGED refs
    BY <1>1 DEF CloseCall, QueueKept
  <1>2. CASE CloseStep
    <2>1. CASE queue # <<>>
      BY <1>2, <2>1, DequeueMoves DEF CloseStep
    <2>2. CASE queue = <<>>
      BY <1>2, <2>2 DEF CloseStep, QueueKept, queueVars
    <2> QED
      BY <2>1, <2>2
  <1> QED
    BY <1>1, <1>2 DEF CoreClose, DoClose

(* The queue invariant holds of the empty queue. *)
LEMMA QueueInitInv ==
  ASSUME NEW rest, CoreInit(rest)
  PROVE  QueueInv
  <1> DEFINE f == [i \in Nat |-> 0]
  <1>1. queue = <<>> /\ outboundBytes = 0 /\ Len(queue) = 0
    BY DEF CoreInit
  <1>2. PrefixSums(queue, f) /\ f[0] = 0
    BY <1>1 DEF PrefixSums
  <1>3. BytesSum
    <2> HIDE DEF f
    <2> QED
      BY <1>1, <1>2 DEF BytesSum
  <1>4. QueueOrdered
    BY <1>1 DEF QueueOrdered
  <1> QED
    BY <1>3, <1>4 DEF QueueInv

(* Whatever happens to the queue preserves its invariant; the clamp at     *)
(* zero in dequeue is never taken.                                         *)
LEMMA QueueStep ==
  ASSUME CoreInv, QueueInv, Accepted \/ Dropped \/ QueueKept
  PROVE  QueueInv'
  <1>1. queue \in Seq(Datagram) /\ lastId \in Nat /\ \A i \in 1 .. Len(queue) : queue[i].id \in Nat
    <2>1. queue \in Seq(Datagram) /\ lastId \in Nat
      BY WriteAssumption DEF CoreInv, CoreTypeOK
    <2>2. \A d \in Datagram : d.id \in Nat
      BY DEF Datagram, Ids
    <2> QED
      BY <2>1, <2>2
  <1>2. /\ \A i, j \in 1 .. Len(queue) : i < j => queue[i].id < queue[j].id
        /\ \A i \in 1 .. Len(queue) : queue[i].id <= lastId
    BY DEF QueueInv, QueueOrdered
  <1>3. PICK f : PrefixSums(queue, f) /\ outboundBytes = f[Len(queue)]
    BY DEF QueueInv, BytesSum
  <1>4. CASE Accepted
    <2>1. PICK d \in Datagram :
            /\ d.id = lastId + 1 /\ lastId' = lastId + 1
            /\ queue' = Append(queue, d)
            /\ outboundBytes' = outboundBytes + d.size
      BY <1>4 DEF Accepted
    <2>2. /\ Len(queue') = Len(queue) + 1 /\ queue'[Len(queue) + 1] = d
          /\ \A i \in 1 .. Len(queue) : queue'[i] = queue[i]
      BY <1>1, <2>1, AppendElements
    <2>3. BytesSum'
      <3>1. PICK g : PrefixSums(Append(queue, d), g) /\ g[Len(queue) + 1] = f[Len(queue)] + d.size
        BY <1>1, <1>3, SizeType, SumsOfAppend
      <3> QED
        BY <1>3, <2>1, <2>2, <3>1 DEF BytesSum
    <2>4. QueueOrdered'
      <3>1. ASSUME NEW i \in 1 .. Len(queue) + 1
            PROVE  /\ queue'[i].id <= lastId'
                   /\ i # Len(queue) + 1 => i \in 1 .. Len(queue) /\ queue'[i].id = queue[i].id
                                            /\ queue[i].id < lastId + 1
        BY <1>1, <1>2, <2>1, <2>2
      <3>2. ASSUME NEW i \in 1 .. Len(queue) + 1, NEW j \in 1 .. Len(queue) + 1, i < j
            PROVE  queue'[i].id < queue'[j].id
        <4>1. i # Len(queue) + 1 /\ i \in 1 .. Len(queue)
          BY <1>1, <3>2
        <4>2. queue'[i].id = queue[i].id /\ queue[i].id < lastId + 1
          BY <3>1, <4>1
        <4>3. CASE j = Len(queue) + 1
          BY <2>1, <2>2, <4>2, <4>3
        <4>4. CASE j # Len(queue) + 1
          <5>1. j \in 1 .. Len(queue) /\ queue'[j].id = queue[j].id
            BY <3>1, <4>4
          <5> QED
            BY <1>2, <3>2, <4>1, <4>2, <5>1
        <4> QED
          BY <4>3, <4>4
      <3> QED
        BY <2>2, <3>1, <3>2 DEF QueueOrdered
    <2> QED
      BY <2>3, <2>4 DEF QueueInv
  <1>5. CASE Dropped
    <2>1. queue # <<>> /\ queue' = Tail(queue) /\ lastId' = lastId
      BY <1>5 DEF Dropped
    <2>2. /\ Len(queue) \in Nat \ {0} /\ Len(queue') = Len(queue) - 1
          /\ \A i \in 1 .. Len(queue) - 1 : queue'[i] = queue[i + 1]
          /\ Head(queue).size \in Nat
      BY <1>1, <2>1, TailElements, SizeType
    <2>3. BytesSum'
      <3>1. PICK g : PrefixSums(Tail(queue), g)
                       /\ g[Len(queue) - 1] = f[Len(queue)] - Head(queue).size
        BY <1>1, <1>3, <2>1, SizeType, SumsOfTail
      <3>2. f[Len(queue)] >= Head(queue).size /\ f[Len(queue)] \in Nat
        BY <1>1, <1>3, <2>1, SizeType, SumsOfTail
      <3>3. outboundBytes' = outboundBytes - Head(queue).size
        BY <1>3, <1>5, <2>2, <3>2 DEF Dropped
      <3> QED
        BY <1>3, <2>1, <2>2, <3>1, <3>3 DEF BytesSum
    <2>4. QueueOrdered'
      <3>1. ASSUME NEW i \in 1 .. Len(queue')
            PROVE  i + 1 \in 1 .. Len(queue) /\ queue'[i] = queue[i + 1]
        BY <2>2
      <3> QED
        BY <1>2, <2>1, <3>1 DEF QueueOrdered
    <2> QED
      BY <2>3, <2>4 DEF QueueInv
  <1>6. CASE QueueKept
    <2>1. queue' = queue /\ outboundBytes' = outboundBytes /\ lastId' >= lastId /\ lastId' \in Nat
      BY <1>1, <1>6 DEF QueueKept
    <2>2. BytesSum'
      BY <2>1 DEF QueueInv, BytesSum
    <2>3. QueueOrdered'
      BY <1>1, <1>2, <2>1 DEF QueueOrdered
    <2> QED
      BY <2>2, <2>3 DEF QueueInv
  <1> QED
    BY <1>4, <1>5, <1>6

(* PendingOutboundBytes is the sum that the fold computes.                 *)
LEMMA BytesFollow ==
  ASSUME CoreInv, QueueInv
  PROVE  BytesMatchQueue
  <1>1. queue \in Seq(Datagram)
    BY DEF CoreInv, CoreTypeOK
  <1>2. PICK f : PrefixSums(queue, f) /\ outboundBytes = f[Len(queue)]
    BY DEF QueueInv, BytesSum
  <1>3. outboundBytes = TotalSize(queue)
    BY <1>1, <1>2, TotalIsLastSum
  <1> QED
    BY <1>3 DEF BytesMatchQueue, TotalSize

(* The ids in the queue after a datagram came in or left.                  *)
LEMMA QueuedAfterAccept ==
  ASSUME CoreInv, QueueInv, Accepted
  PROVE  /\ lastId + 1 \in Ids
         /\ refs' = [refs EXCEPT ![lastId + 1] = @ + 1]
         /\ ~Queued(lastId + 1)
         /\ \A id : Queued(id)' <=> Queued(id) \/ id = lastId + 1
  <1>1. queue \in Seq(Datagram) /\ lastId \in Nat
    BY WriteAssumption DEF CoreInv, CoreTypeOK
  <1>2. PICK d \in Datagram :
          /\ d.id = lastId + 1 /\ lastId' = lastId + 1
          /\ queue' = Append(queue, d)
          /\ refs' = [refs EXCEPT ![d.id] = @ + 1]
    BY DEF Accepted
  <1>3. /\ Len(queue) \in Nat /\ Len(queue') = Len(queue) + 1 /\ queue'[Len(queue) + 1] = d
        /\ \A i \in 1 .. Len(queue) : queue'[i] = queue[i]
        /\ queue' \in Seq(Datagram)
    BY <1>1, <1>2, AppendElements
  <1>4. DOMAIN queue = 1 .. Len(queue) /\ DOMAIN queue' = 1 .. Len(queue) + 1
    BY <1>1, <1>3
  <1>5. ~Queued(lastId + 1)
    <2>1. \A i \in 1 .. Len(queue) : queue[i].id <= lastId
      BY DEF QueueInv, QueueOrdered
    <2> QED
      BY <1>1, <1>4, <2>1 DEF Queued
  <1>6. ASSUME NEW id
        PROVE  Queued(id)' <=> Queued(id) \/ id = lastId + 1
    <2>1. Queued(id)' <=> \E i \in 1 .. Len(queue) + 1 : queue'[i].id = id
      BY <1>4 DEF Queued
    <2>2. Queued(id) <=> \E i \in 1 .. Len(queue) : queue[i].id = id
      BY <1>4 DEF Queued
    <2>3. \A i \in 1 .. Len(queue) + 1 : i \in 1 .. Len(queue) \/ i = Len(queue) + 1
      BY <1>3
    <2>4. 1 .. Len(queue) \subseteq 1 .. Len(queue) + 1 /\ Len(queue) + 1 \in 1 .. Len(queue) + 1
      BY <1>3
    <2> QED
      BY <1>2, <1>3, <2>1, <2>2, <2>3, <2>4
  <1>7. lastId + 1 \in Ids
    BY <1>2 DEF Datagram
  <1> QED
    BY <1>2, <1>5, <1>6, <1>7

LEMMA QueuedAfterDrop ==
  ASSUME CoreInv, QueueInv, Dropped
  PROVE  /\ queue # <<>> /\ Head(queue).id \in Ids
         /\ refs' = [refs EXCEPT ![Head(queue).id] = @ - 1]
         /\ Queued(Head(queue).id)
         /\ \A id : Queued(id)' <=> Queued(id) /\ id # Head(queue).id
  <1> DEFINE h == Head(queue).id
  <1>1. queue \in Seq(Datagram)
    BY DEF CoreInv, CoreTypeOK
  <1>2. /\ queue # <<>> /\ queue' = Tail(queue)
        /\ refs' = [refs EXCEPT ![Head(queue).id] = @ - 1]
    BY DEF Dropped
  <1>3. /\ Len(queue) \in Nat \ {0} /\ Len(queue') = Len(queue) - 1
        /\ \A i \in 1 .. Len(queue) - 1 : queue'[i] = queue[i + 1]
        /\ queue' \in Seq(Datagram)
        /\ Head(queue) = queue[1] /\ Head(queue) \in Datagram
    BY <1>1, <1>2, TailElements
  <1>4. DOMAIN queue = 1 .. Len(queue) /\ DOMAIN queue' = 1 .. Len(queue) - 1
    BY <1>1, <1>3
  <1>5. h \in Ids
    BY <1>3 DEF Datagram
  <1>6. 1 \in 1 .. Len(queue)
    BY <1>3
  <1>7. Queued(h)
    BY <1>3, <1>4, <1>6 DEF Queued
  <1>8. \A i \in 2 .. Len(queue) : queue[i].id # h
    <2>1. \A i, j \in 1 .. Len(queue) : i < j => queue[i].id < queue[j].id
      BY DEF QueueInv, QueueOrdered
    <2>2. \A i \in 2 .. Len(queue) : i \in 1 .. Len(queue) /\ 1 < i
      BY <1>3
    <2>3. h \in Int /\ h = queue[1].id
      BY <1>3, <1>5 DEF Ids
    <2> HIDE DEF h
    <2> QED
      BY <1>6, <2>1, <2>2, <2>3
  <1>9. ASSUME NEW id
        PROVE  Queued(id)' <=> Queued(id) /\ id # h
    <2>1. Queued(id)' <=> \E i \in 1 .. Len(queue) - 1 : queue[i + 1].id = id
      BY <1>3, <1>4 DEF Queued
    <2>2. Queued(id) <=> \E i \in 1 .. Len(queue) : queue[i].id = id
      BY <1>4 DEF Queued
    <2>3. \A i \in 1 .. Len(queue) : i = 1 \/ (i \in 2 .. Len(queue) /\ i - 1 \in 1 .. Len(queue) - 1
                                                 /\ i - 1 + 1 = i)
      BY <1>3
    <2>4. \A i \in 1 .. Len(queue) - 1 : i + 1 \in 2 .. Len(queue) /\ i + 1 \in 1 .. Len(queue)
      BY <1>3
    <2>5. Queued(id)' => Queued(id) /\ id # h
      BY <1>8, <2>1, <2>2, <2>4
    <2>6. Queued(id) /\ id # h => Queued(id)'
      BY <1>3, <2>1, <2>2, <2>3
    <2> QED
      BY <2>5, <2>6
  <1> QED
    BY <1>2, <1>5, <1>7, <1>9
-----------------------------------------------------------------------------
(* Close runs to its end: a closed endpoint that has not released          *)
(* everything has the rest of Close on its stack, under callbacks only.    *)

Released == queue = <<>> /\ ~fdOpen /\ ~allocOpen /\ inactiveFired

ClosingAt(i) == stack[i] = CloseFrame /\ \A j \in 1 .. i - 1 : stack[j].op = "cb"

ClosingInv == closed => Released \/ \E i \in 1 .. Len(stack) : ClosingAt(i)

(* Until everything is released a handler or the rest of Close runs.       *)
LEMMA ClosingTop ==
  ASSUME NEW F, stack \in Seq(F), ClosingInv, closed, ~Released
  PROVE  /\ stack # <<>> /\ Head(stack).op \in {"cb", "close"}
         /\ \A op : Running(op) => op \in {"cb", "close"}
  <1>1. PICK i \in 1 .. Len(stack) : ClosingAt(i)
    BY DEF ClosingInv
  <1>2. stack # <<>> /\ Head(stack) = stack[1] /\ Len(stack) \in Nat
    BY <1>1
  <1>3. CloseFrame.op = "close"
    BY DEF CloseFrame
  <1>4. CASE i = 1
    BY <1>1, <1>2, <1>3, <1>4 DEF ClosingAt, Running
  <1>5. CASE i # 1
    <2>1. 1 \in 1 .. i - 1
      BY <1>1, <1>2, <1>5
    <2> QED
      BY <1>1, <1>2, <2>1 DEF ClosingAt, Running
  <1> QED
    BY <1>4, <1>5

(* A step of the loop, of a handler that does not close, or of a method    *)
(* that was interrupted before.                                            *)
LEMMA ClosingKept ==
  ASSUME NEW F, stack \in Seq(F), ClosingInv, UNCHANGED closeVars,
         Released => queue' = <<>>,
         \/ ~closed
         \/ \E op : op \notin {"cb", "close"} /\ Running(op)
         \/ stack' = stack /\ queue' = queue
         \/ stack = <<>>
  PROVE  ClosingInv'
  <1> SUFFICES ASSUME closed'
               PROVE  (Released \/ \E i \in 1 .. Len(stack) : ClosingAt(i))'
    BY DEF ClosingInv
  <1>1. closed /\ UNCHANGED <<fdOpen, allocOpen, inactiveFired>>
    BY DEF closeVars
  <1>2. CASE Released
    BY <1>1, <1>2 DEF Released
  <1>3. CASE ~Released
    <2>1. stack' = stack
      BY <1>1, <1>3, ClosingTop
    <2> QED
      BY <1>1, <1>3, <2>1 DEF ClosingInv, ClosingAt
  <1> QED
    BY <1>2, <1>3

(* Write when closed changes neither the queue nor the stack.              *)
LEMMA ClosingWrite ==
  ASSUME NEW F, stack \in Seq(F), ClosingInv,
         NEW size, NEW addrOK, NEW valid, CoreWrite(size, addrOK, valid)
  PROVE  ClosingInv'
  <1>1. UNCHANGED closeVars
    BY DEF CoreWrite
  <1>2. closed => UNCHANGED <<queueVars, stack>>
    BY DEF CoreWrite
  <1> QED
    BY <1>1, <1>2 DEF queueVars, closeVars, ClosingInv, Released, ClosingAt

(* Close puts its rest on the stack, under the writability callback.       *)
LEMMA ClosingCall ==
  ASSUME NEW F, stack \in Seq(F), CoreFrame \subseteq F, NEW rest \in Seq(F), ClosingInv, CoreInv,
         CloseCall(rest), rest = stack \/ Running("doClose") \/ stack = <<>>
  PROVE  ClosingInv'
  <1>1. UNCHANGED <<queue, fdOpen, allocOpen, inactiveFired>> /\ closed' = TRUE
    BY DEF CloseCall
  <1>2. closed \in BOOLEAN /\ writable \in BOOLEAN
    BY DEF CoreInv, CoreTypeOK
  <1>3. CASE closed
    <2>1. stack' = rest
      BY <1>3 DEF CloseCall
    <2>2. CASE Released
      BY <1>1, <2>2 DEF ClosingInv, Released
    <2>3. CASE ~Released
      <3>1. stack' = stack
        BY <1>3, <2>1, <2>3, ClosingTop
      <3> QED
        BY <1>1, <1>3, <2>3, <3>1 DEF ClosingInv, ClosingAt
    <2> QED
      BY <2>2, <2>3
  <1>4. CASE ~closed /\ writable
    <2> DEFINE s == <<Cb("writability"), CloseFrame>>
    <2>1. stack' = s \o rest
      BY <1>4 DEF CloseCall
    <2>2. Cb("writability") \in F /\ CloseFrame \in F
      BY DEF CoreFrame, CbKinds
    <2>3. Len(stack') >= 2 /\ stack'[1] = Cb("writability") /\ stack'[2] = CloseFrame
      BY <2>1, <2>2
    <2>4. 2 \in 1 .. Len(stack')
      BY <2>1, <2>2
    <2>5. ClosingAt(2)'
      BY <2>3 DEF ClosingAt, Cb
    <2> QED
      BY <2>4, <2>5 DEF ClosingInv
  <1>5. CASE ~closed /\ ~writable
    <2>1. stack' = <<CloseFrame>> \o rest
      BY <1>5 DEF CloseCall
    <2>2. CloseFrame \in F
      BY DEF CoreFrame
    <2>3. 1 \in 1 .. Len(stack') /\ stack'[1] = CloseFrame
      BY <2>1, <2>2
    <2>4. ClosingAt(1)'
      BY <2>3 DEF ClosingAt
    <2> QED
      BY <2>3, <2>4 DEF ClosingInv
  <1> QED
    BY <1>2, <1>3, <1>4, <1>5

(* A handler that returns uncovers the rest of Close.                      *)
LEMMA ClosingReturn ==
  ASSUME NEW F, stack \in Seq(F), ClosingInv, CbReturn
  PROVE  ClosingInv'
  <1>1. Running("cb") /\ stack' = Tail(stack) /\ UNCHANGED <<queueVars, closeVars>>
    BY DEF CbReturn
  <1>2. CASE ~closed \/ Released
    BY <1>1, <1>2 DEF queueVars, closeVars, ClosingInv, Released
  <1>3. CASE closed /\ ~Released
    <2>1. PICK i \in 1 .. Len(stack) : ClosingAt(i)
      BY <1>3 DEF ClosingInv
    <2>2. stack # <<>> /\ Head(stack) = stack[1] /\ Head(stack).op = "cb"
      BY <1>1, <2>1 DEF Running
    <2>3. i # 1
      BY <2>1, <2>2 DEF ClosingAt, CloseFrame
    <2>4. /\ Len(stack) \in Nat \ {0} /\ Len(stack') = Len(stack) - 1
          /\ \A j \in 1 .. Len(stack) - 1 : stack'[j] = stack[j + 1]
      BY <1>1, <2>2, TailElements
    <2>5. i - 1 \in 1 .. Len(stack') /\ stack'[i - 1] = stack[i]
      <3>1. i - 1 \in 1 .. Len(stack) - 1 /\ i - 1 + 1 = i
        BY <2>1, <2>3, <2>4
      <3> QED
        BY <2>4, <3>1
    <2>6. ASSUME NEW j \in 1 .. i - 1 - 1
          PROVE  stack'[j].op = "cb"
      <3>1. j \in 1 .. Len(stack) - 1 /\ j + 1 \in 1 .. i - 1
        BY <2>1, <2>4
      <3> QED
        BY <2>1, <2>4, <3>1 DEF ClosingAt
    <2>7. ClosingAt(i - 1)'
      BY <2>1, <2>5, <2>6 DEF ClosingAt
    <2> QED
      BY <2>5, <2>7 DEF ClosingInv
  <1> QED
    BY <1>2, <1>3

(* The rest of Close stays on the stack until it has done its work.        *)
LEMMA ClosingStep ==
  ASSUME NEW F, stack \in Seq(F), CoreInv, ClosingInv, closed, CloseStep
  PROVE  ClosingInv'
  <1>1. closed' = closed
    BY DEF CloseStep
  <1>2. CASE queue = <<>>
    <2>1. Released'
      BY <1>2 DEF CloseStep, Released, queueVars
    <2> QED
      BY <2>1 DEF ClosingInv
  <1>3. CASE queue # <<>>
    <2>1. Dequeue(stack) /\ UNCHANGED <<fdOpen, allocOpen, inactiveFired>>
      BY <1>3 DEF CloseStep
    <2>2. stack' = stack
      <3>1. PICK bytes : UpdateWritability(bytes, stack)
        BY <1>3, <2>1 DEF Dequeue
      <3>2. writable = FALSE
        BY DEF CoreInv, CoreTypeOK
      <3>3. writable' = FALSE
        BY <3>1, Zenon DEF UpdateWritability, NextWritable
      <3> QED
        BY <3>1, <3>2, <3>3 DEF UpdateWritability
    <2>3. ~Released
      BY <1>3 DEF Released
    <2> QED
      BY <1>1, <2>2, <2>3 DEF ClosingInv, ClosingAt
  <1> QED
    BY <1>2, <1>3

(* Close is complete when the stack is empty. *)
LEMMA ClosedFollows ==
  ASSUME CoreInv, QueueInv, ClosingInv
  PROVE  ClosedIsFinal
  <1> SUFFICES ASSUME closed, stack = <<>>
               PROVE  /\ queue = <<>> /\ outboundBytes = 0 /\ ~writable
                      /\ ~fdOpen /\ ~allocOpen /\ inactiveFired
    BY DEF ClosedIsFinal
  <1>1. Released
    <2>1. Len(stack) = 0
      OBVIOUS
    <2> QED
      BY <2>1 DEF ClosingInv
  <1>2. outboundBytes = 0
    <2>1. PICK f : PrefixSums(queue, f) /\ outboundBytes = f[Len(queue)]
      BY DEF QueueInv, BytesSum
    <2>2. Len(queue) = 0
      BY <1>1 DEF Released
    <2> QED
      BY <2>1, <2>2 DEF PrefixSums
  <1> QED
    BY <1>1, <1>2 DEF Released, CoreInv
-----------------------------------------------------------------------------
(* The refinement of DatagramChannel. A prefix of the queue may be on the  *)
(* wire already; the rest of it is younger than all the socket has.        *)

WireInv ==
  /\ \A i, j \in 1 .. Len(wire) : i < j => wire[i] < wire[j]
  /\ \A i \in 1 .. Len(wire) : wire[i] <= lastId

Younger(id) == \A j \in 1 .. Len(wire) : wire[j] < id

SentPrefix(k) ==
  /\ k \in 0 .. Len(queue)
  /\ \A i \in 1 .. k : OnWire(queue[i].id)
  /\ \A i \in k + 1 .. Len(queue) : Younger(queue[i].id)

UnsentFrom(k) == [i \in 1 .. Len(queue) - k |-> queue[k + i].id]

(* The entries of the queue and of the wire are numbers of Write calls.    *)
Numbered ==
  /\ Len(queue) \in Nat /\ Len(wire) \in Nat /\ lastId \in Nat
  /\ \A i \in 1 .. Len(queue) : queue[i].id \in Ids /\ queue[i].id \in Nat \ {0}
  /\ \A i \in 1 .. Len(wire) : wire[i] \in Ids /\ wire[i] \in Nat \ {0}

LEMMA Numbers == CoreInv => Numbered
  <1> SUFFICES ASSUME CoreInv
               PROVE  Numbered
    OBVIOUS
  <1>1. queue \in Seq(Datagram) /\ wire \in Seq(Ids) /\ lastId \in Nat
    BY WriteAssumption DEF CoreInv, CoreTypeOK
  <1>2. (\A d \in Datagram : d.id \in Ids) /\ \A id \in Ids : id \in Nat \ {0}
    BY DEF Datagram, Ids
  <1>3. \A i \in 1 .. Len(queue) : queue[i] \in Datagram
    BY <1>1
  <1>4. \A i \in 1 .. Len(wire) : wire[i] \in Ids
    BY <1>1
  <1> QED
    BY <1>1, <1>2, <1>3, <1>4 DEF Numbered

(* What is pending in the channel is the queue after such a prefix.        *)
LEMMA UnsentIs == CoreInv => \A k : SentPrefix(k) => Unsent = UnsentFrom(k)
  <1> SUFFICES ASSUME CoreInv, NEW k, SentPrefix(k)
               PROVE  Unsent = UnsentFrom(k)
    OBVIOUS
  <1> DEFINE LastAt(m) == /\ m > 0 => OnWire(queue[m].id)
                          /\ \A i \in m + 1 .. Len(queue) : ~OnWire(queue[i].id)
  <1>1. k \in 0 .. Len(queue) /\ Len(queue) \in Nat
    BY Numbers DEF SentPrefix, Numbered
  <1>2. \A i \in k + 1 .. Len(queue) : ~OnWire(queue[i].id)
    <2> SUFFICES ASSUME NEW i \in k + 1 .. Len(queue), NEW j \in 1 .. Len(wire),
                        wire[j] = queue[i].id
                 PROVE  FALSE
      <3>1. DOMAIN wire = 1 .. Len(wire)
        BY DEF CoreInv, CoreTypeOK
      <3> QED
        BY <3>1 DEF OnWire
    <2>1. wire[j] < queue[i].id
      BY DEF SentPrefix, Younger
    <2>2. wire[j] \in Nat
      BY Numbers DEF Numbered
    <2> QED
      BY <2>1, <2>2
  <1>3. k > 0 => OnWire(queue[k].id)
    <2>1. k > 0 => k \in 1 .. k
      BY <1>1
    <2> QED
      BY <2>1 DEF SentPrefix
  <1>4. LastAt(k)
    BY <1>2, <1>3
  <1>5. ASSUME NEW m \in 0 .. Len(queue), LastAt(m)
        PROVE  m = k
    <2>1. CASE m < k
      <3>1. k \in m + 1 .. Len(queue) /\ k > 0
        BY <1>1, <2>1
      <3> QED
        BY <1>3, <1>5, <3>1
    <2>2. CASE m > k
      <3>1. m \in k + 1 .. Len(queue) /\ m > 0
        BY <1>1, <2>2
      <3> QED
        BY <1>2, <1>5, <3>1
    <2> QED
      BY <1>1, <2>1, <2>2
  <1>6. LastSent = CHOOSE m \in 0 .. Len(queue) : LastAt(m)
    BY DEF LastSent
  <1>7. LastSent = k
    <2> HIDE DEF LastAt
    <2> QED
      BY <1>1, <1>4, <1>5, <1>6
  <1> QED
    BY <1>7 DEF Unsent, UnsentFrom

(* The pending datagrams as a sequence. *)
UnsentPlaces(k) ==
  /\ Unsent \in Seq(Ids) /\ Len(Unsent) = Len(queue) - k
  /\ \A i \in 1 .. Len(queue) - k : Unsent[i] = queue[k + i].id

LEMMA UnsentElements == CoreInv => \A k : SentPrefix(k) => UnsentPlaces(k)
  <1> SUFFICES ASSUME CoreInv, NEW k, SentPrefix(k)
               PROVE  UnsentPlaces(k)
    OBVIOUS
  <1>1. k \in 0 .. Len(queue) /\ Len(queue) \in Nat
    BY Numbers DEF SentPrefix, Numbered
  <1>2. Len(queue) - k \in Nat
    BY <1>1
  <1>3. Unsent = [i \in 1 .. Len(queue) - k |-> queue[k + i].id]
    BY UnsentIs DEF UnsentFrom
  <1>4. \A i \in 1 .. Len(queue) - k : k + i \in 1 .. Len(queue)
    BY <1>1
  <1>5. \A i \in 1 .. Len(queue) - k : queue[k + i].id \in Ids
    BY <1>4, Numbers DEF Numbered
  <1>6. [i \in 1 .. Len(queue) - k |-> queue[k + i].id] \in Seq(Ids)
    BY <1>2, <1>5, IsASeq
  <1> QED
    BY <1>2, <1>3, <1>4, <1>6 DEF UnsentPlaces

(* The same of the next state. *)
LEMMA NumbersNext == (CoreInv => Numbered)'
  BY Numbers, PTL
LEMMA UnsentElementsNext == (CoreInv => \A k : SentPrefix(k) => UnsentPlaces(k))'
  BY UnsentElements, PTL

(* Write appends to what is pending. *)
LEMMA ChannelAccepts ==
  ASSUME CoreInv, CoreInv', QueueInv, WireInv, NEW k, SentPrefix(k), Accepted
  PROVE  SentPrefix(k)' /\ WireInv' /\ Channel!ChanNext
  <1>1. /\ Numbered /\ Numbered' /\ UnsentPlaces(k)
        /\ k \in 0 .. Len(queue) /\ queue \in Seq(Datagram)
    BY Numbers, NumbersNext, UnsentElements DEF SentPrefix, CoreInv, CoreTypeOK
  <1>2. PICK d \in Datagram :
          /\ ~closed /\ d.id = lastId + 1 /\ lastId' = lastId + 1
          /\ queue' = Append(queue, d)
          /\ UNCHANGED <<closed, wire>>
    BY DEF Accepted, closeVars
  <1>3. /\ Len(queue') = Len(queue) + 1 /\ queue'[Len(queue) + 1] = d
        /\ \A i \in 1 .. Len(queue) : queue'[i] = queue[i]
    BY <1>1, <1>2, AppendElements
  <1>4. Len(queue) \in Nat /\ lastId \in Nat /\ lastId + 1 \in Ids /\ Len(wire) \in Nat
    BY <1>1, <1>2 DEF Numbered, Datagram
  <1>5. SentPrefix(k)'
    <2>1. ASSUME NEW i \in 1 .. k
          PROVE  OnWire(queue[i].id)'
      <3>1. i \in 1 .. Len(queue) /\ queue'[i] = queue[i]
        BY <1>1, <1>3, <1>4
      <3> QED
        BY <1>2, <3>1 DEF SentPrefix, OnWire
    <2>2. ASSUME NEW i \in k + 1 .. Len(queue) + 1
          PROVE  Younger(queue[i].id)'
      <3>1. CASE i = Len(queue) + 1
        <4>1. \A j \in 1 .. Len(wire) : wire[j] <= lastId /\ wire[j] \in Nat
          BY <1>1 DEF WireInv, Numbered
        <4>2. queue'[i].id = lastId + 1
          BY <1>2, <1>3, <3>1
        <4> QED
          BY <1>2, <1>4, <4>1, <4>2 DEF Younger
      <3>2. CASE i # Len(queue) + 1
        <4>1. i \in k + 1 .. Len(queue) /\ i \in 1 .. Len(queue)
          BY <1>1, <1>4, <3>2
        <4> QED
          BY <1>2, <1>3, <4>1 DEF SentPrefix, Younger
      <3> QED
        BY <3>1, <3>2
    <2>3. k \in 0 .. Len(queue')
      BY <1>1, <1>3, <1>4
    <2> QED
      BY <1>3, <2>1, <2>2, <2>3 DEF SentPrefix
  <1>6. WireInv'
    <2>1. \A i \in 1 .. Len(wire) : wire[i] \in Nat /\ wire[i] <= lastId
      BY <1>1 DEF WireInv, Numbered
    <2>2. \A i \in 1 .. Len(wire) : wire[i] <= lastId + 1
      BY <1>4, <2>1
    <2> QED
      BY <1>2, <2>2 DEF WireInv
  <1>7. UnsentPlaces(k)'
    BY <1>5, UnsentElementsNext
  <1>8. Unsent' = Append(Unsent, lastId + 1)
    <2> DEFINE s == Append(Unsent, lastId + 1)
               n == Len(queue) - k
    <2>1. n \in Nat /\ k \in Nat /\ Len(queue) + 1 - k = n + 1 /\ k + (n + 1) = Len(queue) + 1
      BY <1>1, <1>4
    <2>2. /\ s \in Seq(Ids) /\ Len(s) = n + 1 /\ s[n + 1] = lastId + 1
          /\ \A i \in 1 .. n : s[i] = Unsent[i]
      BY <1>1, <1>4, AppendElements DEF UnsentPlaces
    <2>3. Unsent' \in Seq(Ids) /\ Len(Unsent') = n + 1
      BY <1>3, <1>7, <2>1 DEF UnsentPlaces
    <2>4. ASSUME NEW i \in 1 .. n + 1
          PROVE  Unsent'[i] = s[i]
      <3>1. Unsent'[i] = queue'[k + i].id
        BY <1>3, <1>7, <2>1 DEF UnsentPlaces
      <3>2. CASE i = n + 1
        BY <1>2, <1>3, <2>1, <2>2, <3>1, <3>2
      <3>3. CASE i # n + 1
        <4>1. i \in 1 .. n /\ k + i \in 1 .. Len(queue)
          BY <1>1, <1>4, <2>1, <3>3
        <4>2. s[i] = queue[k + i].id
          BY <1>1, <2>2, <4>1 DEF UnsentPlaces
        <4> QED
          BY <1>3, <3>1, <4>1, <4>2
      <3> QED
        BY <3>2, <3>3
    <2> HIDE DEF s, n
    <2>5. Unsent' = s
      BY <2>2, <2>3, <2>4, SeqEqual
    <2> QED
      BY <2>5 DEF s
  <1>9. lastId + 1 > Channel!Newest
    <2>1. CASE Unsent # <<>>
      <3>1. Len(Unsent) \in 1 .. Len(queue) - k /\ k + Len(Unsent) = Len(queue)
            /\ Len(queue) \in 1 .. Len(queue)
        BY <1>1, <1>4, <2>1 DEF UnsentPlaces
      <3>2. Unsent[Len(Unsent)] = queue[Len(queue)].id
        BY <1>1, <3>1 DEF UnsentPlaces
      <3>3. queue[Len(queue)].id <= lastId /\ queue[Len(queue)].id \in Nat
        BY <1>1, <3>1 DEF QueueInv, QueueOrdered, Numbered
      <3> QED
        BY <1>4, <2>1, <3>2, <3>3 DEF Channel!Newest
    <2>2. CASE Unsent = <<>> /\ wire # <<>>
      <3>1. Len(wire) \in 1 .. Len(wire)
        BY <2>2 DEF CoreInv, CoreTypeOK
      <3>2. wire[Len(wire)] <= lastId /\ wire[Len(wire)] \in Nat
        BY <1>1, <3>1 DEF WireInv, Numbered
      <3> QED
        BY <1>4, <2>2, <3>2 DEF Channel!Newest
    <2>3. CASE Unsent = <<>> /\ wire = <<>>
      BY <1>4, <2>3 DEF Channel!Newest
    <2> QED
      BY <2>1, <2>2, <2>3
  <1>10. Channel!Accept(lastId + 1)
    BY <1>2, <1>8, <1>9 DEF Channel!Accept
  <1> QED
    BY <1>4, <1>5, <1>6, <1>10 DEF Channel!ChanNext
(* dequeue takes the head off; if the socket has it, nothing is pending    *)
(* less, otherwise the channel is closed and gives it up.                  *)
LEMMA ChannelDrops ==
  ASSUME CoreInv, CoreInv', WireInv, NEW k, SentPrefix(k), Dropped, UNCHANGED closed,
         closed \/ k > 0
  PROVE  /\ SentPrefix(IF k > 0 THEN k - 1 ELSE 0)' /\ WireInv'
         /\ Channel!ChanNext \/ UNCHANGED <<Unsent, wire, closed>>
  <1> DEFINE m == IF k > 0 THEN k - 1 ELSE 0
  <1>1. /\ Numbered /\ UnsentPlaces(k)
        /\ k \in 0 .. Len(queue) /\ queue \in Seq(Datagram)
    BY Numbers, UnsentElements DEF SentPrefix, CoreInv, CoreTypeOK
  <1>2. queue # <<>> /\ queue' = Tail(queue) /\ UNCHANGED <<lastId, wire>>
    BY DEF Dropped
  <1>3. /\ Len(queue') = Len(queue) - 1 /\ Len(queue) \in Nat \ {0}
        /\ \A i \in 1 .. Len(queue) - 1 : queue'[i] = queue[i + 1]
    BY <1>1, <1>2, TailElements
  <1>4. /\ m \in 0 .. Len(queue) - 1 /\ k \in Nat
        /\ k > 0 => m + 1 = k
        /\ k = 0 => m = 0
    BY <1>1, <1>3
  <1> HIDE DEF m
  <1>5. SentPrefix(m)'
    <2>1. ASSUME NEW i \in 1 .. m
          PROVE  OnWire(queue[i].id)'
      <3>1. i + 1 \in 1 .. k /\ i \in 1 .. Len(queue) - 1
        BY <1>3, <1>4
      <3>2. queue'[i] = queue[i + 1] /\ OnWire(queue[i + 1].id)
        BY <1>3, <3>1 DEF SentPrefix
      <3> QED
        BY <1>2, <3>2 DEF OnWire
    <2>2. ASSUME NEW i \in m + 1 .. Len(queue) - 1
          PROVE  Younger(queue[i].id)'
      <3>1. i + 1 \in k + 1 .. Len(queue) /\ i \in 1 .. Len(queue) - 1
        BY <1>3, <1>4
      <3>2. queue'[i] = queue[i + 1] /\ Younger(queue[i + 1].id)
        BY <1>3, <3>1 DEF SentPrefix
      <3> QED
        BY <1>2, <3>2 DEF Younger
    <2> QED
      BY <1>3, <1>4, <2>1, <2>2 DEF SentPrefix
  <1>6. WireInv'
    BY <1>2 DEF WireInv
  <1>7. UnsentPlaces(m)'
    BY <1>5, UnsentElementsNext
  <1>8. CASE k > 0
    <2> DEFINE n == Len(queue) - k
    <2>1. n \in Nat /\ Len(queue) - 1 - m = n
      <3>1. Len(queue) \in Nat /\ k \in 0 .. Len(queue) /\ m \in Int /\ m + 1 = k
        BY <1>1, <1>3, <1>4, <1>8
      <3> QED
        BY <3>1
    <2>2. Unsent \in Seq(Ids) /\ Len(Unsent) = n /\ Unsent' \in Seq(Ids) /\ Len(Unsent') = n
      BY <1>1, <1>3, <1>7, <2>1 DEF UnsentPlaces
    <2>3. ASSUME NEW i \in 1 .. n
          PROVE  Unsent'[i] = Unsent[i]
      <3>1. Unsent'[i] = queue'[m + i].id /\ Unsent[i] = queue[k + i].id
        BY <1>1, <1>3, <1>7, <2>1 DEF UnsentPlaces
      <3>2. m + i \in 1 .. Len(queue) - 1 /\ m + i + 1 = k + i
        BY <1>1, <1>3, <1>4, <1>8, <2>1
      <3> QED
        BY <1>3, <3>1, <3>2
    <2> HIDE DEF n
    <2>4. Unsent' = Unsent
      BY <2>2, <2>3, SeqEqual
    <2> QED
      BY <1>2, <1>5, <1>6, <2>4 DEF m
  <1>9. CASE k = 0
    <2> DEFINE n == Len(queue)
               s == SubSeq(Unsent, 1 + 1, Len(Unsent))
    <2>1. n \in Nat \ {0} /\ n - k = n /\ Len(queue') = n - 1 /\ n - 1 - m = n - 1
      BY <1>3, <1>4, <1>9
    <2>2. Unsent \in Seq(Ids) /\ Len(Unsent) = n /\ \A i \in 1 .. n : Unsent[i] = queue[i].id
      BY <1>1, <1>9, <2>1 DEF UnsentPlaces
    <2>3. Unsent' \in Seq(Ids) /\ Len(Unsent') = n - 1
          /\ \A i \in 1 .. n - 1 : Unsent'[i] = queue'[i].id
      BY <1>4, <1>7, <1>9, <2>1 DEF UnsentPlaces
    <2> HIDE DEF n
    <2>4. s \in Seq(Ids) /\ Len(s) = n - 1 /\ \A i \in 1 .. n - 1 : s[i] = Unsent[i + 1]
      BY <2>1, <2>2
    <2>5. ASSUME NEW i \in 1 .. n - 1
          PROVE  Unsent'[i] = s[i]
      <3>1. i + 1 \in 1 .. n
        BY <2>1
      <3>2. queue'[i] = queue[i + 1]
        BY <1>3 DEF n
      <3> QED
        BY <2>2, <2>3, <2>4, <3>1, <3>2
    <2> HIDE DEF s
    <2>6. Unsent' = s
      BY <2>3, <2>4, <2>5, SeqEqual
    <2>7. Channel!Discard(1)
      BY <1>2, <1>9, <2>6 DEF Channel!Discard, s
    <2>8. 1 \in 1 .. Len(Unsent)
      BY <2>1, <2>2
    <2>9. Channel!ChanNext
      BY <2>7, <2>8 DEF Channel!ChanNext
    <2> QED
      BY <1>5, <1>6, <1>9, <2>9 DEF m
  <1> QED
    BY <1>4, <1>8, <1>9

(* The socket takes the first entries of a queue it had none of.           *)
LEMMA ChannelTransmits ==
  ASSUME CoreInv, CoreInv', QueueInv, WireInv, SentPrefix(0), ~closed,
         NEW m \in 1 .. Len(queue),
         wire' = wire \o [i \in 1 .. m |-> queue[i].id],
         UNCHANGED <<queue, lastId, closed>>
  PROVE  SentPrefix(m)' /\ WireInv' /\ Channel!ChanNext
  <1> DEFINE t == [i \in 1 .. m |-> queue[i].id]
             n == Len(queue)
             w == Len(wire)
  <1>1. Numbered /\ UnsentPlaces(0) /\ wire \in Seq(Ids)
    BY Numbers, UnsentElements DEF CoreInv, CoreTypeOK
  <1>2. n \in Nat /\ w \in Nat /\ m \in 1 .. n /\ lastId \in Nat
    BY <1>1 DEF Numbered
  <1>3. \A i \in 1 .. m : i \in 1 .. n /\ queue[i].id \in Ids
    BY <1>1, <1>2 DEF Numbered
  <1>4. t \in Seq(Ids) /\ Len(t) = m /\ \A i \in 1 .. m : t[i] = queue[i].id
    BY <1>2, <1>3, IsASeq
  <1>5. wire' = wire \o t
    OBVIOUS
  <1> HIDE DEF t
  <1>6. /\ Len(wire') = w + m
        /\ \A j \in 1 .. w : wire'[j] = wire[j]
        /\ \A i \in 1 .. m : wire'[w + i] = t[i]
    BY <1>1, <1>2, <1>4, <1>5
  <1>7. \A j \in 1 .. w + m : j \in 1 .. w \/ (j - w \in 1 .. m /\ w + (j - w) = j)
    BY <1>2
  <1>8. ASSUME NEW j \in 1 .. w + m
        PROVE  \/ j \in 1 .. w /\ wire'[j] = wire[j]
               \/ j - w \in 1 .. m /\ wire'[j] = queue[j - w].id
    BY <1>4, <1>6, <1>7
  <1>9. \A i, j \in 1 .. n : i < j => queue[i].id < queue[j].id
    BY DEF QueueInv, QueueOrdered, n
  <1>10. \A i \in 1 .. n : queue[i].id <= lastId /\ queue[i].id \in Nat
    BY <1>1 DEF QueueInv, QueueOrdered, n, Numbered
  <1>11. \A i \in 1 .. n : \A j \in 1 .. w : wire[j] < queue[i].id
    <2>1. 0 + 1 .. n = 1 .. n
      OBVIOUS
    <2> QED
      BY <2>1 DEF SentPrefix, Younger, n, w
  <1>12. \A j \in 1 .. w : wire[j] \in Nat /\ wire[j] <= lastId
    BY <1>1 DEF WireInv, w, Numbered
  <1>13. \A i, j \in 1 .. w : i < j => wire[i] < wire[j]
    BY DEF WireInv, w
  <1> HIDE DEF n, w
  <1>14. SentPrefix(m)'
    <2>1. ASSUME NEW i \in 1 .. m
          PROVE  OnWire(queue[i].id)'
      <3>1. w + i \in 1 .. w + m
        BY <1>2
      <3>2. DOMAIN wire' = 1 .. w + m
        BY <1>1, <1>4, <1>5, <1>6
      <3>3. wire'[w + i] = queue'[i].id
        BY <1>4, <1>6
      <3> QED
        BY <3>1, <3>2, <3>3 DEF OnWire
    <2>2. ASSUME NEW i \in m + 1 .. n, NEW j \in 1 .. w + m
          PROVE  wire'[j] < queue[i].id
      <3>1. i \in 1 .. n
        BY <1>2
      <3>2. CASE j \in 1 .. w /\ wire'[j] = wire[j]
        BY <1>11, <3>1, <3>2
      <3>3. CASE j - w \in 1 .. m /\ wire'[j] = queue[j - w].id
        <4>1. j - w \in 1 .. n /\ j - w < i
          BY <1>2, <3>3
        <4> QED
          BY <1>9, <3>1, <3>3, <4>1
      <3> QED
        BY <1>8, <3>2, <3>3
    <2>3. \A i \in m + 1 .. Len(queue') : Younger(queue[i].id)'
      BY <1>6, <2>2 DEF Younger, n
    <2>4. m \in 0 .. Len(queue')
      BY <1>2 DEF n
    <2> QED
      BY <2>1, <2>3, <2>4 DEF SentPrefix
  <1>15. WireInv'
    <2>1. ASSUME NEW i \in 1 .. w + m, NEW j \in 1 .. w + m, i < j
          PROVE  wire'[i] < wire'[j]
      <3>1. CASE i \in 1 .. w /\ j \in 1 .. w
        BY <1>6, <1>13, <2>1, <3>1
      <3>2. CASE i \in 1 .. w /\ wire'[i] = wire[i] /\ j - w \in 1 .. m /\ wire'[j] = queue[j - w].id
        <4>1. j - w \in 1 .. n
          BY <1>2, <3>2
        <4> QED
          BY <1>11, <3>2, <4>1
      <3>3. CASE /\ i - w \in 1 .. m /\ wire'[i] = queue[i - w].id
                 /\ j - w \in 1 .. m /\ wire'[j] = queue[j - w].id
        <4>1. i - w \in 1 .. n /\ j - w \in 1 .. n /\ i - w < j - w
          BY <1>2, <2>1, <3>3
        <4> QED
          BY <1>9, <3>3, <4>1
      <3>4. CASE i - w \in 1 .. m /\ j \in 1 .. w
        BY <1>2, <2>1, <3>4
      <3> QED
        BY <1>8, <3>1, <3>2, <3>3, <3>4
    <2>2. ASSUME NEW i \in 1 .. w + m
          PROVE  wire'[i] <= lastId
      <3>1. CASE i \in 1 .. w /\ wire'[i] = wire[i]
        BY <1>12, <3>1
      <3>2. CASE i - w \in 1 .. m /\ wire'[i] = queue[i - w].id
        <4>1. i - w \in 1 .. n
          BY <1>2, <3>2
        <4> QED
          BY <1>10, <3>2, <4>1
      <3> QED
        BY <1>8, <3>1, <3>2
    <2> QED
      BY <1>6, <2>1, <2>2 DEF WireInv
  <1>16. Unsent \in Seq(Ids) /\ Len(Unsent) = n /\ \A i \in 1 .. n : Unsent[i] = queue[i].id
    <2>1. n - 0 = n /\ \A i \in 1 .. n : 0 + i = i
      BY <1>2
    <2> QED
      BY <1>1, <2>1 DEF UnsentPlaces, n
  <1>17. t = SubSeq(Unsent, 1, m)
    <2> DEFINE s == SubSeq(Unsent, 1, m)
    <2>1. s \in Seq(Ids) /\ Len(s) = m /\ \A i \in 1 .. m : s[i] = Unsent[i]
      BY <1>2, <1>16
    <2>2. \A i \in 1 .. m : s[i] = t[i]
      BY <1>3, <1>4, <1>16, <2>1
    <2> HIDE DEF s
    <2>3. s = t
      BY <1>4, <2>1, <2>2, SeqEqual
    <2> QED
      BY <2>3 DEF s
  <1>18. Unsent' = SubSeq(Unsent, m + 1, Len(Unsent))
    <2> DEFINE s == SubSeq(Unsent, m + 1, Len(Unsent))
    <2>1. /\ s \in Seq(Ids) /\ Len(s) = n - m
          /\ \A i \in 1 .. n - m : m + i \in 1 .. n /\ s[i] = Unsent[m + i]
      BY <1>2, <1>16
    <2>2. /\ Unsent' \in Seq(Ids) /\ Len(Unsent') = n - m
          /\ \A i \in 1 .. n - m : Unsent'[i] = queue[m + i].id
      BY <1>14, UnsentElementsNext DEF UnsentPlaces, n
    <2>3. \A i \in 1 .. n - m : Unsent'[i] = s[i]
      BY <1>16, <2>1, <2>2
    <2> HIDE DEF s
    <2>4. Unsent' = s
      BY <2>1, <2>2, <2>3, SeqEqual
    <2> QED
      BY <2>4 DEF s
  <1>19. Channel!Transmit(m)
    BY <1>5, <1>17, <1>18 DEF Channel!Transmit
  <1>20. m \in 1 .. Len(Unsent)
    BY <1>2, <1>16
  <1> QED
    BY <1>14, <1>15, <1>19, <1>20 DEF Channel!ChanNext

(* A step that leaves the queue and the wire alone, Close among them.      *)
LEMMA ChannelRests ==
  ASSUME CoreInv, WireInv, NEW k, SentPrefix(k), UNCHANGED <<queue, wire>>,
         lastId' \in {lastId, lastId + 1}, closed' \in {closed, TRUE}
  PROVE  /\ SentPrefix(k)' /\ WireInv'
         /\ Channel!ChanNext \/ UNCHANGED <<Unsent, wire, closed>>
  <1>1. SentPrefix(k)'
    BY DEF SentPrefix, OnWire, Younger
  <1>2. WireInv'
    <2>1. Numbered
      BY Numbers
    <2>2. \A i \in 1 .. Len(wire) : wire[i] <= lastId'
      BY <2>1 DEF Numbered, WireInv
    <2> QED
      BY <2>2 DEF WireInv
  <1>3. Unsent' = Unsent
    BY DEF Unsent, LastSent, OnWire
  <1>4. closed' = closed \/ (closed' = TRUE /\ Channel!Shut)
    BY <1>3 DEF Channel!Shut
  <1> QED
    BY <1>1, <1>2, <1>3, <1>4 DEF Channel!ChanNext

(* At the start nothing is pending. *)
LEMMA ChannelStarts ==
  ASSUME NEW rest, CoreInit(rest)
  PROVE  SentPrefix(0) /\ WireInv /\ Channel!ChanInit
  <1>1. queue = <<>> /\ wire = <<>> /\ closed = FALSE /\ Len(queue) = 0 /\ Len(wire) = 0
    BY DEF CoreInit
  <1>2. SentPrefix(0) /\ WireInv
    BY <1>1 DEF SentPrefix, WireInv
  <1>3. LastSent = 0
    BY <1>1 DEF LastSent
  <1>4. Unsent = <<>>
    BY <1>1, <1>3 DEF Unsent
  <1> QED
    BY <1>1, <1>2, <1>4 DEF Channel!ChanInit
=============================================================================
