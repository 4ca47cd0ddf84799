---------------------------- MODULE CodecProofs ----------------------------
(***************************************************************************)
(* Proofs about Codec: every item has one holder until it is released, and *)
(* the storage of a datagram's address is not used again while the         *)
(* datagram lives, for any number of items, peers and envelopes and for    *)
(* calls nested to any depth.                                              *)
(*                                                                         *)
(* An item is in one of five places: with the application, in the queue,   *)
(* carried by a running read or write, or waiting in the list of one of    *)
(* the codecs. The invariant says that the places are disjoint and that    *)
(* none holds an item twice (SplitInv), that the ledger of releases agrees *)
(* with them (Ledger), and to whom the envelopes belong (EnvelopeInv).     *)
(***************************************************************************)
EXTENDS Codec, SequenceTheorems, FiniteSetTheorems, WellFoundedInduction, TLAPS

-----------------------------------------------------------------------------
(* The places, of any stack, list and queue.                               *)

Carriers == {"read", "write"}
Codecs   == {"decode", "encode"}

(* A codec's copy of a message has an address of its own, and its position *)
(* in the list is positive.                                                *)
Frames == {f \in FrameType : f.op \in Codecs => f.msg.alias = 0 /\ f.at > 0}

MessagesIn(s) == {s[j].msg : j \in {k \in DOMAIN s : s[k].op \in Carriers}}

Uses(s, op) == \E j \in DOMAIN s : s[j].op = op

InnermostIn(s, op) ==
  LET at == {j \in DOMAIN s : s[j].op = op}
  IN IF at = {} THEN NoMessage.item ELSE s[CHOOSE j \in at : \A k \in at : k <= j].at

(* What is left of a list from a position on.                              *)
Rest(list, at) == {list[j] : j \in {k \in DOMAIN list : k >= at}}

WaitingIn(s, list, op) ==
  IF Uses(s, op) THEN Rest(list, InnermostIn(s, op)) ELSE ToSet(list)

ItemsOf(ms) == {m.item : m \in ms}

(* No item is in two of five places.                                       *)
Disjoint(a, q, s, d, e) ==
  /\ a \cap q = {} /\ a \cap s = {} /\ a \cap d = {} /\ a \cap e = {}
  /\ q \cap s = {} /\ q \cap d = {} /\ q \cap e = {}
  /\ s \cap d = {} /\ s \cap e = {} /\ d \cap e = {}

(* No item is twice in one of them.                                        *)
SetOnce(ms)   == \A m, n \in ms : m.item = n.item => m = n
QueueOnce(q)  == \A j, k \in DOMAIN q : q[j].item = q[k].item => j = k
ListOnce(l)   == \A j, k \in DOMAIN l : l[j] = l[k] => j = k
StackOnce(s)  == \A j, k \in DOMAIN s :
                   s[j].op \in Carriers /\ s[k].op \in Carriers
                     /\ s[j].msg.item = s[k].msg.item => j = k

AppItems     == ItemsOf(app)
QueueItems   == ItemsOf(ToSet(queue))
StackItems   == ItemsOf(MessagesIn(stack))
DecoderItems == WaitingIn(stack, out.decoder, "decode")
EncoderItems == WaitingIn(stack, out.encoder, "encode")

-----------------------------------------------------------------------------
(* The invariant.                                                          *)

Shape ==
  /\ pooled \in PoolModes /\ remote \in Remotes
  /\ ip \in [Envelopes -> Peers]
  /\ pool \in [Envelopes -> Nat]
  /\ envelopes \in 0 .. MaxEnvelopes
  /\ kinds \in Seq({"buf", "other"}) /\ Len(kinds) <= MaxItems
  /\ releases \in [Items -> Nat]
  /\ out \in [decoder : Seq(Items), encoder : Seq(Items)]
  /\ Len(out.decoder) <= MaxItems /\ Len(out.encoder) <= MaxItems
  /\ app \subseteq MessageType
  /\ queue \in Seq(QueuedType)
  /\ closed \in BOOLEAN
  /\ stack \in Seq(Frames)
  /\ overlapped \in BOOLEAN

SplitInv ==
  /\ Disjoint(AppItems, QueueItems, StackItems, DecoderItems, EncoderItems)
  /\ SetOnce(app) /\ QueueOnce(queue) /\ StackOnce(stack)
  /\ ListOnce(out.decoder) /\ ListOnce(out.encoder)

(* A list nobody uses is empty, and all its items were made.               *)
ListInv ==
  /\ ~Uses(stack, "decode") => out.decoder = <<>>
  /\ ~Uses(stack, "encode") => out.encoder = <<>>
  /\ \A j \in DOMAIN out.decoder : out.decoder[j] <= Len(kinds)
  /\ \A j \in DOMAIN out.encoder : out.encoder[j] <= Len(kinds)

HeldItems == AppItems \cup QueueItems \cup StackItems \cup DecoderItems \cup EncoderItems

(* What the releases say of n items made, of which those in h are held.    *)
Ledger(h, rel, n, gone) ==
  /\ h \subseteq 1 .. n
  /\ gone \subseteq 1 .. n
  /\ \A i \in h : rel[i] = 0
  /\ \A i \in Items : i > n => rel[i] = 0
  /\ \A i \in 1 .. n : rel[i] <= IF i \in gone THEN 2 ELSE 1

(* None of the n items made was lost.                                      *)
Covered(h, rel, n) == \A i \in 1 .. n : i \in h \/ rel[i] > 0

LedgerInv == /\ Ledger(HeldItems, releases, Len(kinds), refused)
             /\ ~overlapped => Covered(HeldItems, releases, Len(kinds))

LiveMessages == app \cup ToSet(queue) \cup MessagesIn(stack)

(* An address lives in the envelope of its datagram or on its own; an      *)
(* envelope in use is not in the pool and has one message.                 *)
EnvelopesOf(live, p, n, addr) ==
  /\ \A m \in live : /\ m.env <= n
                     /\ m.alias \in {0, m.env}
                     /\ m.alias # 0 => addr[m.alias] = m.peer
                     /\ m.type = "addressed" => m.env = 0
                     /\ m.env # 0 => p[m.env] = 0
  /\ \A m, k \in live : m.env = k.env /\ m.env # 0 => m = k
  /\ \A e \in Envelopes : p[e] <= 1 /\ (p[e] = 1 => e <= n)

EnvelopeInv == EnvelopesOf(LiveMessages, pool, envelopes, ip)

CodecInv == Shape /\ SplitInv /\ ListInv /\ LedgerInv /\ EnvelopeInv
-----------------------------------------------------------------------------
(* Stacks.                                                                 *)

(* The elements of a sequence with one more.                               *)
LEMMA PushElements ==
  ASSUME NEW F, NEW s \in Seq(F), NEW f \in F
  PROVE  /\ Append(s, f) \in Seq(F) /\ Append(s, f) # <<>>
         /\ Len(s) \in Nat /\ DOMAIN s = 1 .. Len(s)
         /\ Len(Append(s, f)) = Len(s) + 1
         /\ DOMAIN Append(s, f) = 1 .. Len(s) + 1
         /\ \A j \in DOMAIN s : Append(s, f)[j] = s[j]
         /\ Append(s, f)[Len(s) + 1] = f
  BY AppendProperties, LenProperties

(* A sequence that is not empty has a last element on top of its front.    *)
LEMMA PopElements ==
  ASSUME NEW F, NEW s \in Seq(F), s # <<>>
  PROVE  /\ Front(s) \in Seq(F)
         /\ Last(s) \in F
         /\ s = Append(Front(s), Last(s))
  <1>1. Len(s) \in Nat /\ Len(s) > 0 /\ DOMAIN s = 1 .. Len(s)
    BY EmptySeq, LenProperties
  <1>2. /\ Front(s) \in Seq(F) /\ Len(Front(s)) = Len(s) - 1
        /\ \A j \in 1 .. Len(s) - 1 : Front(s)[j] = s[j]
    BY <1>1 DEF Front
  <1>3. Last(s) \in F
    BY <1>1 DEF Last
  <1> DEFINE t == Append(Front(s), Last(s))
  <1>4. t \in Seq(F) /\ Len(t) = Len(s)
        /\ (\A j \in 1 .. Len(s) - 1 : t[j] = s[j]) /\ t[Len(s)] = s[Len(s)]
    <2>1. DOMAIN Front(s) = 1 .. Len(s) - 1
      BY <1>2, LenProperties
    <2>2. /\ t \in Seq(F) /\ Len(t) = Len(Front(s)) + 1
          /\ \A j \in DOMAIN Front(s) : t[j] = Front(s)[j]
          /\ t[Len(Front(s)) + 1] = Last(s)
      BY <1>2, <1>3, PushElements
    <2>3. t[Len(s)] = Last(s)
      <3> HIDE DEF t
      <3> QED
        BY <1>1, <1>2, <2>2
    <2>4. Last(s) = s[Len(s)]
      BY DEF Last
    <2> HIDE DEF t
    <2>5. ASSUME NEW j \in 1 .. Len(s) - 1
          PROVE  t[j] = s[j]
      BY <1>2, <2>1, <2>2
    <2>6. Len(t) = Len(s)
      BY <1>1, <1>2, <2>2
    <2> QED
      BY <2>2, <2>3, <2>4, <2>5, <2>6
  <1>5. \A j \in 1 .. Len(s) : t[j] = s[j]
    <2> HIDE DEF t
    <2> QED
      BY <1>1, <1>4
  <1>6. s = t
    <2> HIDE DEF t
    <2> QED
      BY <1>1, <1>4, <1>5, SeqEqual
  <1> QED
    BY <1>2, <1>3, <1>6

(* The messages of a stack with one more frame.                            *)
LEMMA PushMessages ==
  ASSUME NEW F, NEW s \in Seq(F), NEW f \in F
  PROVE  MessagesIn(Append(s, f)) =
           MessagesIn(s) \cup (IF f.op \in Carriers THEN {f.msg} ELSE {})
  <1> DEFINE t == Append(s, f)
  <1>1. /\ Len(s) \in Nat /\ DOMAIN s = 1 .. Len(s) /\ DOMAIN t = 1 .. Len(s) + 1
        /\ \A j \in DOMAIN s : t[j] = s[j]
        /\ t[Len(s) + 1] = f
    BY PushElements
  <1> HIDE DEF t
  <1>2. DOMAIN t = DOMAIN s \cup {Len(s) + 1}
    BY <1>1
  <1>3. ASSUME NEW m
        PROVE  m \in MessagesIn(t) <=>
                 m \in MessagesIn(s) \cup (IF f.op \in Carriers THEN {f.msg} ELSE {})
    BY <1>1, <1>2, Zenon DEF MessagesIn
  <1> QED
    BY <1>3 DEF t

(* Which codecs run, with one more frame.                                  *)
LEMMA PushUses ==
  ASSUME NEW F, NEW s \in Seq(F), NEW f \in F, NEW op
  PROVE  Uses(Append(s, f), op) <=> Uses(s, op) \/ f.op = op
  <1> DEFINE t == Append(s, f)
  <1>1. /\ Len(s) \in Nat /\ DOMAIN s = 1 .. Len(s) /\ DOMAIN t = 1 .. Len(s) + 1
        /\ \A j \in DOMAIN s : t[j] = s[j]
        /\ t[Len(s) + 1] = f
    BY PushElements
  <1> HIDE DEF t
  <1>2. DOMAIN t = DOMAIN s \cup {Len(s) + 1}
    BY <1>1
  <1>3. Uses(t, op) <=> Uses(s, op) \/ f.op = op
    BY <1>1, <1>2, Zenon DEF Uses
  <1> QED
    BY <1>3 DEF t

(* A non-empty set of positions has a last one.                            *)
LEMMA LastPosition ==
  ASSUME NEW n \in Nat, NEW T \in SUBSET (1 .. n), T # {}
  PROVE  \E j \in T : \A k \in T : k <= j
  <1> DEFINE R == {p \in Nat \X Nat : p[1] < p[2]}
             D == {n - k : k \in T}
  <1>1. IsWellFoundedOn(R, Nat)
    BY NatLessThanWellFounded DEF OpToRel
  <1>2. D \subseteq Nat /\ D # {}
    <2>1. ASSUME NEW k \in T
          PROVE  n - k \in Nat
      OBVIOUS
    <2>2. PICK k : k \in T
      OBVIOUS
    <2>3. n - k \in D
      BY <2>2
    <2> QED
      BY <2>1, <2>3
  <1>3. PICK x \in D : \A y \in D : ~ (<<y, x>> \in R)
    <2> HIDE DEF R, D
    <2> QED
      BY <1>1, <1>2, WFMin
  <1>4. PICK j \in T : x = n - j
    <2>1. x \in D
      BY <1>3
    <2> QED
      BY <2>1
  <1>5. ASSUME NEW k \in T
        PROVE  k <= j
    <2>1. n - k \in D /\ n - k \in Nat /\ x \in Nat
      BY <1>2
    <2>2. <<n - k, x>> \in Nat \X Nat /\ ~ (<<n - k, x>> \in R)
      BY <1>3, <2>1
    <2>3. ~(n - k < x)
      BY <2>2
    <2> QED
      BY <1>4, <2>1, <2>3
  <1> QED
    BY <1>5

(* The innermost activation is the frame that no other of its kind is      *)
(* above.                                                                  *)
LEMMA InnermostIs ==
  ASSUME NEW F, NEW s \in Seq(F), NEW op, NEW j \in DOMAIN s, s[j].op = op,
         \A k \in DOMAIN s : s[k].op = op => k <= j
  PROVE  InnermostIn(s, op) = s[j].at
  <1> DEFINE T == {k \in DOMAIN s : s[k].op = op}
             c == CHOOSE x \in T : \A k \in T : k <= x
  <1>1. DOMAIN s \subseteq Int
    BY LenProperties
  <1>2. j \in T /\ \A k \in T : k <= j
    OBVIOUS
  <1>3. c \in T /\ \A k \in T : k <= c
    BY <1>2
  <1>4. c = j
    <2>1. c \in Int /\ j \in Int /\ c <= j /\ j <= c
      BY <1>1, <1>2, <1>3
    <2> HIDE DEF c, T
    <2> QED
      BY <2>1
  <1>5. InnermostIn(s, op) = s[c].at
    BY <1>2 DEF InnermostIn
  <1> QED
    BY <1>4, <1>5

(* What waits in a list, with one more frame.                              *)
LEMMA PushWaiting ==
  ASSUME NEW F, NEW s \in Seq(F), NEW f \in F, NEW op, NEW list
  PROVE  WaitingIn(Append(s, f), list, op) =
           IF f.op = op THEN Rest(list, f.at) ELSE WaitingIn(s, list, op)
  <1> DEFINE t == Append(s, f)
  <1>1. /\ Len(s) \in Nat /\ DOMAIN s = 1 .. Len(s) /\ DOMAIN t = 1 .. Len(s) + 1
        /\ \A j \in DOMAIN s : t[j] = s[j]
        /\ t[Len(s) + 1] = f
        /\ t \in Seq(F)
    BY PushElements
  <1>2. Uses(t, op) <=> Uses(s, op) \/ f.op = op
    BY PushUses
  <1> HIDE DEF t
  <1>3. CASE f.op = op
    <2>1. InnermostIn(t, op) = t[Len(s) + 1].at
      BY <1>1, <1>3, InnermostIs
    <2> QED
      BY <1>1, <1>2, <1>3, <2>1 DEF WaitingIn, t
  <1>4. CASE f.op # op /\ Uses(s, op)
    <2> DEFINE T == {k \in DOMAIN s : s[k].op = op}
    <2>1. T # {} /\ T \in SUBSET (1 .. Len(s))
      BY <1>1, <1>4 DEF Uses
    <2>2. PICK j \in T : \A k \in T : k <= j
      BY <1>1, <2>1, LastPosition
    <2>3. InnermostIn(s, op) = s[j].at
      BY <2>2, InnermostIs
    <2>4. j \in DOMAIN t /\ t[j] = s[j] /\ t[j].op = op
      BY <1>1, <2>2
    <2>5. \A k \in DOMAIN t : t[k].op = op => k <= j
      BY <1>1, <1>4, <2>2
    <2>6. InnermostIn(t, op) = t[j].at
      BY <1>1, <2>4, <2>5, InnermostIs
    <2> QED
      BY <1>2, <1>4, <2>3, <2>4, <2>6 DEF WaitingIn, t
  <1>5. CASE f.op # op /\ ~Uses(s, op)
    BY <1>2, <1>5 DEF WaitingIn, t
  <1> QED
    BY <1>3, <1>4, <1>5

(* Who carries what, with one more frame.                                  *)
LEMMA PushOnce ==
  ASSUME NEW F, NEW s \in Seq(F), NEW f \in F
  PROVE  StackOnce(Append(s, f)) <=>
           /\ StackOnce(s)
           /\ f.op \in Carriers => f.msg.item \notin ItemsOf(MessagesIn(s))
  <1> DEFINE t == Append(s, f)
  <1>1. /\ Len(s) \in Nat /\ DOMAIN s = 1 .. Len(s) /\ DOMAIN t = 1 .. Len(s) + 1
        /\ \A j \in DOMAIN s : t[j] = s[j]
        /\ t[Len(s) + 1] = f
    BY PushElements
  <1> HIDE DEF t
  <1>2. DOMAIN t = DOMAIN s \cup {Len(s) + 1} /\ Len(s) + 1 \notin DOMAIN s
    BY <1>1
  <1>3. ASSUME NEW i
        PROVE  i \in ItemsOf(MessagesIn(s)) <=>
                 \E k \in DOMAIN s : s[k].op \in Carriers /\ s[k].msg.item = i
    BY Zenon DEF ItemsOf, MessagesIn
  <1>4. ASSUME StackOnce(t)
        PROVE  StackOnce(s) /\ (f.op \in Carriers => f.msg.item \notin ItemsOf(MessagesIn(s)))
    <2>1. StackOnce(s)
      BY <1>1, <1>2, <1>4, Zenon DEF StackOnce
    <2>2. ASSUME f.op \in Carriers, f.msg.item \in ItemsOf(MessagesIn(s))
          PROVE  FALSE
      <3>1. PICK k \in DOMAIN s : s[k].op \in Carriers /\ s[k].msg.item = f.msg.item
        BY <1>3, <2>2
      <3> QED
        BY <1>1, <1>2, <1>4, <2>2, <3>1, Zenon DEF StackOnce
    <2> QED
      BY <2>1, <2>2
  <1>5. ASSUME StackOnce(s), f.op \in Carriers => f.msg.item \notin ItemsOf(MessagesIn(s))
        PROVE  StackOnce(t)
    <2>1. ASSUME NEW j \in DOMAIN s, s[j].op \in Carriers, f.op \in Carriers
          PROVE  s[j].msg.item # f.msg.item
      BY <1>3, <1>5, <2>1
    <2> QED
      BY <1>1, <1>2, <1>5, <2>1, Zenon DEF StackOnce
  <1> QED
    BY <1>4, <1>5 DEF t
-----------------------------------------------------------------------------
(* Releases.                                                               *)

(* `after' counts one more release of every item of r, or two if it is     *)
(* also in `twice', and no other.                                          *)
Spent(before, after, r, twice) ==
  /\ after \in [Items -> Nat]
  /\ \A i \in Items \ r : after[i] = before[i]
  /\ \A i \in Items \cap r : /\ after[i] > before[i]
                             /\ after[i] <= before[i] + IF i \in twice THEN 2 ELSE 1

(* The envelopes of the messages of ms are put into the pool.              *)
Put(before, after, ms) ==
  /\ after \in [Envelopes -> Nat]
  /\ \A e \in Envelopes : (\A m \in ms : m.env # e) => after[e] = before[e]
  /\ \A e \in Envelopes : (\E m \in ms : m.env = e) => after[e] = before[e] + 1

(* The cardinality of a set with at most two elements.                     *)
LEMMA FewElements ==
  ASSUME NEW S, NEW a, NEW b, S \subseteq {a, b}
  PROVE  /\ Cardinality(S) \in Nat
         /\ S = {} => Cardinality(S) = 0
         /\ S # {} => Cardinality(S) > 0
         /\ Cardinality(S) <= 2
         /\ S # {} /\ (\A x, y \in S : x = y) => Cardinality(S) = 1
  <1>1. IsFiniteSet({a}) /\ Cardinality({a}) = 1
    BY FS_Singleton
  <1>2. IsFiniteSet({a} \cup {b}) /\ Cardinality({a} \cup {b}) <= 2
    BY <1>1, FS_AddElement
  <1>3. S \in SUBSET ({a} \cup {b})
    OBVIOUS
  <1>4. IsFiniteSet(S) /\ Cardinality(S) <= Cardinality({a} \cup {b})
    BY <1>2, <1>3, FS_Subset
  <1>5. Cardinality({a} \cup {b}) \in Nat /\ Cardinality(S) \in Nat
    BY <1>2, <1>4, FS_CardinalityType
  <1>6. Cardinality(S) = 0 <=> S = {}
    BY <1>4, FS_EmptySet
  <1>7. ASSUME S # {}, \A x, y \in S : x = y
        PROVE  Cardinality(S) = 1
    <2>1. PICK x : S = {x}
      BY <1>7
    <2> QED
      BY <2>1, FS_Singleton
  <1> QED
    BY <1>2, <1>4, <1>5, <1>6, <1>7

(* ReleaseItems counts one release of every item of a sequence, two of the *)
(* first one if it is in the sequence twice.                               *)
LEMMA ReleasesSpend ==
  ASSUME NEW is \in Seq(Items), NEW twice,
         releases \in [Items -> Nat], ReleaseItems(is),
         \A j, k \in DOMAIN is : is[j] = is[k] => j = k \/ is[j] \in twice,
         \A j, k \in DOMAIN is : is[j] = is[k] => j = k \/ j = 1 \/ k = 1
  PROVE  Spent(releases, releases', ToSet(is), twice)
  <1> DEFINE at(i) == {j \in DOMAIN is : is[j] = i}
  <1>1. releases' = [i \in Items |-> releases[i] + Cardinality(at(i))]
    BY DEF ReleaseItems
  <1>2. ASSUME NEW i \in Items
        PROVE  /\ Cardinality(at(i)) \in Nat
               /\ i \notin ToSet(is) => Cardinality(at(i)) = 0
               /\ i \in ToSet(is) => Cardinality(at(i)) > 0 /\ Cardinality(at(i)) <= 2
               /\ i \in ToSet(is) /\ i \notin twice => Cardinality(at(i)) = 1
    <2>1. PICK a : at(i) \subseteq {1, a}
      <3>1. CASE at(i) \subseteq {1}
        BY <3>1
      <3>2. CASE \E a \in at(i) : a # 1
        <4>1. PICK a \in at(i) : a # 1
          BY <3>2
        <4> QED
          BY <4>1
      <3> QED
        BY <3>1, <3>2
    <2>2. i \notin ToSet(is) <=> at(i) = {}
      BY DEF ToSet
    <2>3. i \notin twice => \A x, y \in at(i) : x = y
      OBVIOUS
    <2> HIDE DEF at
    <2> QED
      BY <2>1, <2>2, <2>3, FewElements
  <1> HIDE DEF at
  <1> QED
    BY <1>1, <1>2 DEF Spent

(* A sequence without repetitions. *)
LEMMA ReleasesSpendOnce ==
  ASSUME NEW is \in Seq(Items), releases \in [Items -> Nat], ReleaseItems(is), ListOnce(is)
  PROVE  Spent(releases, releases', ToSet(is), {})
  BY ReleasesSpend DEF ListOnce

(* No release at all. *)
LEMMA NothingSpent ==
  ASSUME releases \in [Items -> Nat], UNCHANGED releases
  PROVE  Spent(releases, releases', {}, {})
  BY DEF Spent

(* One item.                                                               *)
LEMMA ReleaseOne ==
  ASSUME NEW i \in Items, releases \in [Items -> Nat], ReleaseItems(<<i>>)
  PROVE  Spent(releases, releases', {i}, {})
  <1> DEFINE is == <<i>>
  <1>1. is \in Seq(Items) /\ DOMAIN is = {1} /\ is[1] = i
    OBVIOUS
  <1>2. ReleaseItems(is)
    OBVIOUS
  <1> HIDE DEF is
  <1>3. ListOnce(is) /\ ToSet(is) = {i}
    BY <1>1 DEF ListOnce, ToSet
  <1> QED
    BY <1>1, <1>2, <1>3, ReleasesSpendOnce

(* PutEnvelopes returns the envelope of each message once, if no two share *)
(* one.                                                                    *)
LEMMA PutsOnce ==
  ASSUME NEW ms \in Seq(MessageType), pool \in [Envelopes -> Nat], PutEnvelopes(ms),
         \A j, k \in DOMAIN ms : ms[j].env = ms[k].env /\ ms[j].env # 0 => j = k
  PROVE  Put(pool, pool', ToSet(ms))
  <1> DEFINE at(e) == {j \in DOMAIN ms : ms[j].env = e}
  <1>1. pool' = [e \in Envelopes |-> pool[e] + Cardinality(at(e))]
    BY DEF PutEnvelopes
  <1>2. ASSUME NEW e \in Envelopes
        PROVE  /\ Cardinality(at(e)) \in Nat
               /\ (\A m \in ToSet(ms) : m.env # e) => Cardinality(at(e)) = 0
               /\ (\E m \in ToSet(ms) : m.env = e) => Cardinality(at(e)) = 1
    <2>1. e # 0
      BY CodecAssumption DEF Envelopes
    <2>2. \A x, y \in at(e) : x = y
      BY <2>1
    <2>3. PICK a : at(e) \subseteq {a, a}
      <3>1. CASE at(e) = {}
        BY <3>1
      <3>2. CASE at(e) # {}
        <4>1. PICK a : a \in at(e)
          BY <3>2
        <4> QED
          BY <2>2, <4>1
      <3> QED
        BY <3>1, <3>2
    <2>4. (\A m \in ToSet(ms) : m.env # e) => at(e) = {}
      BY DEF ToSet
    <2>5. (\E m \in ToSet(ms) : m.env = e) => at(e) # {}
      BY DEF ToSet
    <2> HIDE DEF at
    <2> QED
      BY <2>2, <2>3, <2>4, <2>5, FewElements
  <1> HIDE DEF at
  <1>3. pool' \in [Envelopes -> Nat]
    BY <1>1, <1>2
  <1>4. \A e \in Envelopes : pool'[e] = pool[e] + Cardinality(at(e))
    BY <1>1
  <1>5. ASSUME NEW e \in Envelopes, \A m \in ToSet(ms) : m.env # e
        PROVE  pool'[e] = pool[e]
    BY <1>2, <1>4, <1>5
  <1>6. ASSUME NEW e \in Envelopes, \E m \in ToSet(ms) : m.env = e
        PROVE  pool'[e] = pool[e] + 1
    BY <1>2, <1>4, <1>6
  <1> QED
    BY <1>3, <1>5, <1>6, Zenon DEF Put

(* One message.                                                            *)
LEMMA PutOne ==
  ASSUME NEW m \in MessageType, pool \in [Envelopes -> Nat], PutEnvelopes(<<m>>)
  PROVE  Put(pool, pool', {m})
  <1> DEFINE ms == <<m>>
  <1>1. ms \in Seq(MessageType) /\ DOMAIN ms = {1} /\ ms[1] = m
    OBVIOUS
  <1>2. PutEnvelopes(ms)
    OBVIOUS
  <1> HIDE DEF ms
  <1>3. ToSet(ms) = {m}
    BY <1>1 DEF ToSet
  <1> QED
    BY <1>1, <1>2, <1>3, PutsOnce

(* ReleaseAll of one message.                                              *)
LEMMA ReleaseMessage ==
  ASSUME NEW m \in MessageType, m.item \in Items, releases \in [Items -> Nat],
         pool \in [Envelopes -> Nat], ReleaseAll(<<m>>)
  PROVE  Spent(releases, releases', {m.item}, {}) /\ Put(pool, pool', {m})
  <1> DEFINE ms == <<m>>
             is == [j \in DOMAIN ms |-> ms[j].item]
  <1>1. is = <<m.item>>
    OBVIOUS
  <1>2. ReleaseItems(is) /\ PutEnvelopes(ms)
    BY DEF ReleaseAll
  <1>3. ReleaseItems(<<m.item>>)
    BY <1>1, <1>2
  <1> QED
    BY <1>2, <1>3, ReleaseOne, PutOne
-----------------------------------------------------------------------------
(* Steps of the ledger and of the envelopes.                               *)

(* Of n2 items, n of them made before, those of h2 are held and those of r *)
(* released; both were held before or are new.                             *)
Moved(h, h2, r, n, n2) ==
  /\ h2 \subseteq 1 .. n2 /\ r \subseteq 1 .. n2 /\ h2 \cap r = {}
  /\ \A i \in h2 \cup r : i \in h \/ i > n

(* The items of endpoint.Write calls that failed may grow.                 *)
Grown(gone, gone2, twice, n2) ==
  gone \subseteq gone2 /\ gone2 \subseteq 1 .. n2 /\ twice \subseteq gone2

(* The ledger stays right when items are made and the held ones handed on  *)
(* or released, whoever holds them afterwards.                             *)
LEMMA LedgerStep ==
  ASSUME NEW h, NEW h2, NEW rel \in [Items -> Nat], NEW rel2,
         NEW n \in Nat, NEW n2 \in Nat, n <= n2, n2 <= MaxItems,
         NEW gone, NEW gone2, NEW r, NEW twice,
         Ledger(h, rel, n, gone), Spent(rel, rel2, r, twice),
         Moved(h, h2, r, n, n2), Grown(gone, gone2, twice, n2)
  PROVE  Ledger(h2, rel2, n2, gone2)
  <1>0. /\ gone \subseteq gone2 /\ gone2 \subseteq 1 .. n2 /\ twice \subseteq gone2
        /\ h2 \subseteq 1 .. n2 /\ r \subseteq 1 .. n2 /\ h2 \cap r = {}
        /\ \A i \in h2 : i \in h \/ i > n
        /\ \A i \in r : i \in h \/ i > n
    BY DEF Moved, Grown
  <1>1. MaxItems \in Nat /\ Items = 1 .. MaxItems
    BY CodecAssumption DEF Items
  <1>2. 1 .. n \subseteq Items /\ 1 .. n2 \subseteq Items /\ 1 .. n \subseteq 1 .. n2
    BY <1>1
  <1>3. ASSUME NEW i \in h2
        PROVE  rel2[i] = 0
    <2>1. i \in Items /\ i \notin r /\ (i \in h \/ i > n)
      BY <1>0, <1>2
    <2>2. rel2[i] = rel[i]
      BY <2>1 DEF Spent
    <2> QED
      BY <2>1, <2>2 DEF Ledger
  <1>4. ASSUME NEW i \in Items, i > n2
        PROVE  rel2[i] = 0
    <2>1. i \notin r /\ i > n
      BY <1>0, <1>1, <1>4
    <2>2. rel2[i] = rel[i]
      BY <2>1 DEF Spent
    <2> QED
      BY <2>1, <2>2 DEF Ledger
  <1>5. ASSUME NEW i \in 1 .. n2
        PROVE  rel2[i] <= IF i \in gone2 THEN 2 ELSE 1
    <2>0. i \in Items /\ rel[i] \in Nat /\ rel2[i] \in Nat
      BY <1>2 DEF Spent
    <2>1. CASE i \in r
      <3>1. rel[i] = 0
        BY <1>0, <2>0, <2>1 DEF Ledger
      <3>2. rel2[i] <= rel[i] + IF i \in twice THEN 2 ELSE 1
        BY <2>0, <2>1 DEF Spent
      <3> QED
        BY <1>0, <2>0, <3>1, <3>2
    <2>2. CASE i \notin r
      <3>1. rel2[i] = rel[i]
        BY <2>0, <2>2 DEF Spent
      <3>2. CASE i \in 1 .. n
        <4>1. rel[i] <= IF i \in gone THEN 2 ELSE 1
          BY <3>2 DEF Ledger
        <4> QED
          BY <1>0, <2>0, <3>1, <4>1
      <3>3. CASE i > n
        BY <2>0, <3>1, <3>3 DEF Ledger
      <3> QED
        BY <3>2, <3>3
    <2> QED
      BY <2>1, <2>2
  <1> QED
    BY <1>0, <1>3, <1>4, <1>5 DEF Ledger

(* ... and loses none, if every item is then held or released in the step. *)
LEMMA LedgerCovers ==
  ASSUME NEW h, NEW h2, NEW rel \in [Items -> Nat], NEW rel2,
         NEW n \in Nat, NEW n2 \in Nat, n <= n2, n2 <= MaxItems, NEW r, NEW twice,
         Covered(h, rel, n), Spent(rel, rel2, r, twice),
         \A i \in 1 .. n2 : i \in h \/ i > n => i \in h2 \/ i \in r
  PROVE  Covered(h2, rel2, n2)
  <1> SUFFICES ASSUME NEW i \in 1 .. n2
               PROVE  i \in h2 \/ rel2[i] > 0
    BY DEF Covered
  <1>1. i \in Items /\ rel[i] \in Nat /\ rel2[i] \in Nat
    BY CodecAssumption DEF Spent, Items
  <1>2. CASE i \in h \/ i > n
    <2>1. i \in h2 \/ i \in r
      BY <1>2
    <2>2. i \in r => rel2[i] > 0
      BY <1>1 DEF Spent
    <2> QED
      BY <2>1, <2>2
  <1>3. CASE i \notin h /\ i <= n
    <2>1. rel[i] > 0
      BY <1>3 DEF Covered
    <2>2. i \in r \/ rel2[i] = rel[i]
      BY <1>1 DEF Spent
    <2>3. i \in r => rel2[i] > rel[i]
      BY <1>1 DEF Spent
    <2> QED
      BY <1>1, <2>1, <2>2, <2>3
  <1> QED
    BY <1>2, <1>3

(* Messages without an envelope may join the live ones, and any may leave. *)
LEMMA EnvelopesKept ==
  ASSUME NEW live, NEW p, NEW n, NEW addr, EnvelopesOf(live, p, n, addr), n \in Nat,
         NEW live2,
         \A m \in live2 : m \in live \/ (m.env = 0 /\ m.alias = 0)
  PROVE  EnvelopesOf(live2, p, n, addr)
  BY DEF EnvelopesOf

(* A message that goes to the queue keeps its envelope and its address.    *)
LEMMA EnvelopesMoved ==
  ASSUME NEW live, NEW p, NEW n, NEW addr, EnvelopesOf(live, p, n, addr),
         NEW m \in live, m \in MessageType,
         NEW live2,
         \A k \in live2 : (k \in live /\ k # m) \/ k = AsDatagram(m)
  PROVE  EnvelopesOf(live2, p, n, addr)
  <1> DEFINE d == AsDatagram(m)
  <1>1. /\ d.env = m.env /\ d.alias = m.alias /\ d.peer = m.peer /\ d.type = "datagram"
    BY DEF AsDatagram, MessageType
  <1>2. \A k \in live2 : (k \in live /\ k # m) \/ k = d
    OBVIOUS
  <1> HIDE DEF d
  <1> QED
    BY <1>1, <1>2 DEF EnvelopesOf

(* Messages that leave may take their envelopes to the pool.               *)
LEMMA EnvelopesPut ==
  ASSUME NEW live, NEW p \in [Envelopes -> Nat], NEW n \in 0 .. MaxEnvelopes, NEW addr,
         EnvelopesOf(live, p, n, addr), live \subseteq MessageType,
         NEW ms, ms \subseteq live, NEW p2, Put(p, p2, ms),
         NEW live2, \A m \in live2 : m \in live /\ m \notin ms
  PROVE  EnvelopesOf(live2, p2, n, addr)
  <1>1. MaxEnvelopes \in Nat /\ Envelopes = 1 .. MaxEnvelopes
    BY CodecAssumption DEF Envelopes
  <1>2. ASSUME NEW m \in live2, m.env # 0
        PROVE  p2[m.env] = 0
    <2>1. m.env \in Envelopes
      BY <1>1, <1>2 DEF MessageType
    <2>2. \A k \in ms : k.env # m.env
      BY <1>2 DEF EnvelopesOf
    <2>3. p2[m.env] = p[m.env]
      BY <2>1, <2>2 DEF Put
    <2> QED
      BY <1>2, <2>3 DEF EnvelopesOf
  <1>3. ASSUME NEW e \in Envelopes
        PROVE  p2[e] <= 1 /\ (p2[e] = 1 => e <= n)
    <2>1. CASE \E m \in ms : m.env = e
      <3>1. PICK m \in ms : m.env = e
        BY <2>1
      <3>2. p[e] = 0 /\ e <= n
        BY <1>1, <3>1 DEF EnvelopesOf
      <3>3. p2[e] = p[e] + 1
        BY <2>1 DEF Put
      <3> QED
        BY <3>2, <3>3
    <2>2. CASE \A m \in ms : m.env # e
      <3>1. p2[e] = p[e]
        BY <2>2 DEF Put
      <3> QED
        BY <3>1 DEF EnvelopesOf
    <2> QED
      BY <2>1, <2>2
  <1>4. \A m \in live2 : m \in live
    OBVIOUS
  <1> QED
    BY <1>2, <1>3, <1>4 DEF EnvelopesOf
-----------------------------------------------------------------------------
(* Queues, lists and sets of messages.                                     *)

(* The items of a set of messages with one more, and with one less.        *)
LEMMA ItemsPlus ==
  ASSUME NEW ms, NEW m
  PROVE  ItemsOf(ms \cup {m}) = ItemsOf(ms) \cup {m.item}
  BY Zenon DEF ItemsOf

LEMMA ItemsMinus ==
  ASSUME NEW ms, NEW m \in ms, SetOnce(ms)
  PROVE  /\ m.item \in ItemsOf(ms)
         /\ ItemsOf(ms \ {m}) = ItemsOf(ms) \ {m.item}
         /\ SetOnce(ms \ {m})
  BY Zenon DEF ItemsOf, SetOnce

LEMMA OnceWith ==
  ASSUME NEW ms, NEW m, SetOnce(ms), m.item \notin ItemsOf(ms)
  PROVE  SetOnce(ms \cup {m})
  BY Zenon DEF ItemsOf, SetOnce

(* The elements of a queue with one more.                                  *)
LEMMA EnqueuedSet ==
  ASSUME NEW F, NEW q \in Seq(F), NEW m \in F
  PROVE  /\ Append(q, m) \in Seq(F)
         /\ ToSet(Append(q, m)) = ToSet(q) \cup {m}
         /\ QueueOnce(q) /\ m.item \notin ItemsOf(ToSet(q)) => QueueOnce(Append(q, m))
  <1> DEFINE t == Append(q, m)
  <1>1. /\ t \in Seq(F) /\ Len(q) \in Nat /\ DOMAIN q = 1 .. Len(q)
        /\ DOMAIN t = 1 .. Len(q) + 1
        /\ \A j \in DOMAIN q : t[j] = q[j]
        /\ t[Len(q) + 1] = m
    BY PushElements
  <1> HIDE DEF t
  <1>2. DOMAIN t = DOMAIN q \cup {Len(q) + 1}
    BY <1>1
  <1>3. ToSet(t) = ToSet(q) \cup {m}
    <2>1. ASSUME NEW x
          PROVE  x \in ToSet(t) <=> x \in ToSet(q) \cup {m}
      BY <1>1, <1>2, Zenon DEF ToSet
    <2> QED
      BY <2>1
  <1>4. ASSUME QueueOnce(q), m.item \notin ItemsOf(ToSet(q))
        PROVE  QueueOnce(t)
    <2>1. \A j \in DOMAIN q : q[j].item # m.item
      BY <1>4, Zenon DEF ItemsOf, ToSet
    <2> QED
      BY <1>1, <1>2, <1>4, <2>1, Zenon DEF QueueOnce
  <1> QED
    BY <1>1, <1>3, <1>4 DEF t

(* The elements of a queue without its head.                               *)
LEMMA DequeuedSet ==
  ASSUME NEW F, NEW q \in Seq(F), q # <<>>, QueueOnce(q)
  PROVE  /\ Tail(q) \in Seq(F) /\ Head(q) \in F /\ Head(q) \in ToSet(q)
         /\ \A m : m \in ToSet(Tail(q)) <=> m \in ToSet(q) /\ m.item # Head(q).item
         /\ QueueOnce(Tail(q))
  <1> DEFINE t == Tail(q)
  <1>1. /\ Len(q) \in Nat /\ Len(q) > 0 /\ DOMAIN q = 1 .. Len(q) /\ Head(q) = q[1]
        /\ t \in Seq(F) /\ Head(q) \in F
        /\ Len(t) = Len(q) - 1
        /\ \A j \in 1 .. Len(q) - 1 : t[j] = q[j + 1]
    BY HeadTailProperties, EmptySeq, LenProperties
  <1>2. DOMAIN t = 1 .. Len(q) - 1
    BY <1>1, LenProperties
  <1> HIDE DEF t
  <1>3. ASSUME NEW m
        PROVE  m \in ToSet(t) <=> m \in ToSet(q) /\ m.item # Head(q).item
    <2>1. ASSUME m \in ToSet(t)
          PROVE  m \in ToSet(q) /\ m.item # Head(q).item
      <3>1. PICK j \in 1 .. Len(q) - 1 : m = t[j]
        BY <1>2, <2>1 DEF ToSet
      <3>2. j + 1 \in DOMAIN q /\ 1 \in DOMAIN q /\ j + 1 # 1 /\ m = q[j + 1]
        BY <1>1, <3>1
      <3> QED
        BY <1>1, <3>2, Zenon DEF QueueOnce, ToSet
    <2>2. ASSUME m \in ToSet(q), m.item # Head(q).item
          PROVE  m \in ToSet(t)
      <3>1. PICK j \in DOMAIN q : m = q[j]
        BY <2>2 DEF ToSet
      <3>2. j # 1
        BY <1>1, <2>2, <3>1
      <3>3. j - 1 \in 1 .. Len(q) - 1 /\ t[j - 1] = m
        BY <1>1, <3>1, <3>2
      <3> QED
        BY <1>2, <3>3 DEF ToSet
    <2> QED
      BY <2>1, <2>2
  <1>4. QueueOnce(t)
    <2>1. ASSUME NEW j \in DOMAIN t, NEW k \in DOMAIN t, t[j].item = t[k].item
          PROVE  j = k
      <3>1. /\ j + 1 \in DOMAIN q /\ k + 1 \in DOMAIN q
            /\ q[j + 1].item = q[k + 1].item
        BY <1>1, <1>2, <2>1
      <3>2. j + 1 = k + 1
        BY <3>1 DEF QueueOnce
      <3> QED
        BY <1>2, <3>2
    <2> QED
      BY <2>1 DEF QueueOnce
  <1>5. Head(q) \in ToSet(q)
    BY <1>1 DEF ToSet
  <1> QED
    BY <1>1, <1>3, <1>4, <1>5 DEF t

(* What is left of a list.                                                 *)
LEMMA RestFacts ==
  ASSUME NEW l \in Seq(Items)
  PROVE  /\ Len(l) \in Nat /\ DOMAIN l = 1 .. Len(l)
         /\ Rest(l, 1) = ToSet(l)
         /\ \A at \in Nat : at > Len(l) => Rest(l, at) = {}
         /\ \A at : Rest(l, at) \subseteq ToSet(l)
         /\ ToSet(l) \subseteq Items
         /\ \A at \in DOMAIN l : l[at] \in Rest(l, at) /\ l[at] \in Items
         /\ ListOnce(l) => \A at \in DOMAIN l : Rest(l, at + 1) = Rest(l, at) \ {l[at]}
  <1>1. Len(l) \in Nat /\ DOMAIN l = 1 .. Len(l) /\ \A j \in DOMAIN l : l[j] \in Items
    OBVIOUS
  <1>2. ASSUME ListOnce(l), NEW at \in DOMAIN l
        PROVE  Rest(l, at + 1) = Rest(l, at) \ {l[at]}
    <2>1. ASSUME NEW i, i \in Rest(l, at + 1)
          PROVE  i \in Rest(l, at) /\ i # l[at]
      <3>1. PICK j \in DOMAIN l : j >= at + 1 /\ i = l[j]
        BY <2>1 DEF Rest
      <3>2. j >= at /\ j # at
        BY <1>1, <3>1
      <3> QED
        BY <1>2, <3>1, <3>2 DEF Rest, ListOnce
    <2>2. ASSUME NEW i, i \in Rest(l, at), i # l[at]
          PROVE  i \in Rest(l, at + 1)
      <3>1. PICK j \in DOMAIN l : j >= at /\ i = l[j]
        BY <2>2 DEF Rest
      <3>2. j >= at + 1
        BY <1>1, <2>2, <3>1
      <3> QED
        BY <3>1, <3>2 DEF Rest
    <2> QED
      BY <2>1, <2>2
  <1>3. ASSUME NEW at \in DOMAIN l
        PROVE  l[at] \in Rest(l, at)
    <2>1. at >= at
      BY <1>1
    <2> QED
      BY <2>1 DEF Rest
  <1>4. Rest(l, 1) = ToSet(l)
    <2>1. {k \in DOMAIN l : k >= 1} = DOMAIN l
      BY <1>1
    <2> QED
      BY <2>1, Zenon DEF Rest, ToSet
  <1>5. ASSUME NEW at \in Nat, at > Len(l)
        PROVE  Rest(l, at) = {}
    BY <1>1, <1>5 DEF Rest
  <1>6. ToSet(l) \subseteq Items /\ \A at : Rest(l, at) \subseteq ToSet(l)
    BY <1>1 DEF ToSet, Rest
  <1> QED
    BY <1>1, <1>2, <1>3, <1>4, <1>5, <1>6

(* An empty list holds nothing.                                            *)
LEMMA EmptyList ==
  /\ <<>> \in Seq(Items) /\ Len(<<>>) = 0 /\ ListOnce(<<>>) /\ DOMAIN <<>> = {}
  /\ ToSet(<<>>) = {}
  /\ \A at : Rest(<<>>, at) = {}
  /\ \A s, op : WaitingIn(s, <<>>, op) = {}
  <1>1. DOMAIN <<>> = {} /\ <<>> \in Seq(Items) /\ Len(<<>>) = 0
    OBVIOUS
  <1>2. ToSet(<<>>) = {} /\ ListOnce(<<>>)
    BY <1>1 DEF ToSet, ListOnce
  <1>3. \A at : Rest(<<>>, at) = {}
    BY <1>1 DEF Rest
  <1> QED
    BY <1>1, <1>2, <1>3, Zenon DEF WaitingIn

(* What a codec's call made: new items, each once.                         *)
LEMMA OutputItems ==
  ASSUME kinds \in Seq({"buf", "other"}), Len(kinds) <= MaxItems,
         NEW ks \in Outputs, MakeItems(ks)
  PROVE  /\ kinds' \in Seq({"buf", "other"})
         /\ Len(kinds) \in Nat /\ Len(kinds)' \in Nat
         /\ Len(kinds) <= Len(kinds)' /\ Len(kinds)' <= MaxItems
         /\ MadeItems(ks) \in Seq(Items) /\ Len(MadeItems(ks)) <= MaxItems
         /\ ListOnce(MadeItems(ks))
         /\ \A i : i \in ToSet(MadeItems(ks)) <=> i \in 1 .. Len(kinds)' /\ i > Len(kinds)
         /\ \A j \in DOMAIN MadeItems(ks) : MadeItems(ks)[j] <= Len(kinds)'
  <1>1. MaxItems \in Nat /\ MaxOut \in Nat /\ Items = 1 .. MaxItems /\ Len(kinds) \in Nat
    BY CodecAssumption DEF Items
  <1>2. PICK n \in Nat : ks \in [1 .. n -> {"buf", "other"}] /\ Len(kinds) + n <= MaxItems
    <2>1. PICK n \in 0 .. IF MaxItems - Len(kinds) < MaxOut THEN MaxItems - Len(kinds)
                                                           ELSE MaxOut :
            ks \in [1 .. n -> {"buf", "other"}]
      BY Zenon DEF Outputs
    <2>2. n \in Nat /\ Len(kinds) + n <= MaxItems
      BY <1>1, <2>1
    <2> QED
      BY <2>1, <2>2
  <1>3. ks \in Seq({"buf", "other"}) /\ Len(ks) = n /\ DOMAIN ks = 1 .. n
    BY <1>2, IsASeq
  <1>4. kinds' \in Seq({"buf", "other"}) /\ Len(kinds)' = Len(kinds) + n
    <2>1. kinds \o ks \in Seq({"buf", "other"}) /\ Len(kinds \o ks) = Len(kinds) + Len(ks)
      BY <1>3, ConcatProperties
    <2> QED
      BY <1>3, <2>1 DEF MakeItems
  <1> DEFINE l == MadeItems(ks)
  <1>5. l = [j \in 1 .. n |-> Len(kinds) + j]
    BY <1>3 DEF MadeItems
  <1> HIDE DEF l
  <1>6. l \in [1 .. n -> Items]
    BY <1>1, <1>2, <1>5
  <1>7. l \in Seq(Items) /\ Len(l) = n /\ DOMAIN l = 1 .. n
    BY <1>6, IsASeq
  <1>8. ListOnce(l)
    BY <1>1, <1>5, <1>7 DEF ListOnce
  <1>9. ASSUME NEW i
        PROVE  i \in ToSet(l) <=> i \in 1 .. Len(kinds)' /\ i > Len(kinds)
    <2>1. ASSUME i \in ToSet(l)
          PROVE  i \in 1 .. Len(kinds)' /\ i > Len(kinds)
      BY <1>1, <1>4, <1>5, <1>7, <2>1 DEF ToSet
    <2>2. ASSUME i \in 1 .. Len(kinds)', i > Len(kinds)
          PROVE  i \in ToSet(l)
      <3>1. i - Len(kinds) \in 1 .. n /\ l[i - Len(kinds)] = i
        BY <1>1, <1>4, <1>5, <2>2
      <3> QED
        BY <1>7, <3>1 DEF ToSet
    <2> QED
      BY <2>1, <2>2
  <1>10. \A j \in DOMAIN l : l[j] <= Len(kinds)'
    BY <1>1, <1>4, <1>5, <1>7
  <1> QED
    BY <1>1, <1>2, <1>4, <1>7, <1>8, <1>9, <1>10 DEF l
-----------------------------------------------------------------------------
(* The running frame.                                                      *)

Base == Front(stack)

(* Two stacks with the same places.                                        *)
SameViews(s, t) ==
  /\ MessagesIn(t) = MessagesIn(s)
  /\ StackOnce(t) <=> StackOnce(s)
  /\ Uses(t, "decode") <=> Uses(s, "decode")
  /\ Uses(t, "encode") <=> Uses(s, "encode")
  /\ \A l : WaitingIn(t, l, "decode") = WaitingIn(s, l, "decode")
  /\ \A l : WaitingIn(t, l, "encode") = WaitingIn(s, l, "encode")

LEMMA HandlerFrame == Handler \in Frames /\ Handler.op = "handler"
  <1>1. MaxItems \in Nat /\ MaxEnvelopes \in Nat /\ NoPeer \in Peers
    BY CodecAssumption
  <1>2. NoMessage \in MessageType
    BY <1>1 DEF NoMessage, Message, MessageType
  <1> QED
    BY <1>1, <1>2 DEF Handler, Frame, Frames, FrameType, Codecs

(* The frames that the actions push.                                       *)
LEMMA FrameIn ==
  ASSUME NEW op \in {"handler", "read", "decode", "write", "encode"}, NEW m \in MessageType,
         NEW at \in 0 .. MaxItems + 1,
         op \in Codecs => m.alias = 0 /\ at > 0
  PROVE  /\ Frame(op, m, at) \in Frames
         /\ Frame(op, m, at).op = op /\ Frame(op, m, at).msg = m /\ Frame(op, m, at).at = at
  BY DEF Frame, Frames, FrameType

(* The handler's frame carries nothing and uses no list.                   *)
LEMMA PushHandler ==
  ASSUME NEW s \in Seq(Frames)
  PROVE  Append(s, Handler) \in Seq(Frames) /\ SameViews(s, Append(s, Handler))
  <1>1. Handler \in Frames /\ Handler.op \notin Carriers
        /\ Handler.op # "decode" /\ Handler.op # "encode"
    BY HandlerFrame DEF Carriers
  <1> DEFINE f == Handler
  <1>2. f \in Frames /\ f.op \notin Carriers /\ f.op # "decode" /\ f.op # "encode"
    BY <1>1
  <1> HIDE DEF f
  <1>3. Append(s, f) \in Seq(Frames)
    BY <1>2, PushElements
  <1>4. MessagesIn(Append(s, f)) = MessagesIn(s)
    <2>1. MessagesIn(Append(s, f)) =
            MessagesIn(s) \cup (IF f.op \in Carriers THEN {f.msg} ELSE {})
      BY <1>2, PushMessages
    <2> QED
      BY <1>2, <2>1
  <1>5. StackOnce(Append(s, f)) <=> StackOnce(s)
    BY <1>2, PushOnce
  <1>6. /\ Uses(Append(s, f), "decode") <=> Uses(s, "decode")
        /\ Uses(Append(s, f), "encode") <=> Uses(s, "encode")
    BY <1>2, PushUses
  <1>7. ASSUME NEW l
        PROVE  /\ WaitingIn(Append(s, f), l, "decode") = WaitingIn(s, l, "decode")
               /\ WaitingIn(Append(s, f), l, "encode") = WaitingIn(s, l, "encode")
    BY <1>2, PushWaiting
  <1>8. SameViews(s, Append(s, f))
    BY <1>4, <1>5, <1>6, <1>7 DEF SameViews
  <1> QED
    BY <1>3, <1>8 DEF f

(* The stack is the running frame on its base.                             *)
LEMMA OnBase ==
  ASSUME Shape, stack # <<>>
  PROVE  Base \in Seq(Frames) /\ Top \in Frames /\ stack = Append(Base, Top)
  BY PopElements DEF Shape, Base, Top

(* A frame adds its message to the places, and nothing else.               *)
LEMMA PushCarrier ==
  ASSUME NEW s \in Seq(Frames), NEW f \in Frames, f.op \in Carriers
  PROVE  /\ Append(s, f) \in Seq(Frames)
         /\ MessagesIn(Append(s, f)) = MessagesIn(s) \cup {f.msg}
         /\ StackOnce(Append(s, f)) <=>
              StackOnce(s) /\ f.msg.item \notin ItemsOf(MessagesIn(s))
         /\ \A op \in Codecs : Uses(Append(s, f), op) <=> Uses(s, op)
         /\ \A op \in Codecs : \A l : WaitingIn(Append(s, f), l, op) = WaitingIn(s, l, op)
  <1>1. \A op \in Codecs : f.op # op
    BY DEF Carriers, Codecs
  <1>2. Append(s, f) \in Seq(Frames)
    BY PushElements
  <1>3. MessagesIn(Append(s, f)) = MessagesIn(s) \cup {f.msg}
    BY PushMessages
  <1>4. StackOnce(Append(s, f)) <=> StackOnce(s) /\ f.msg.item \notin ItemsOf(MessagesIn(s))
    BY PushOnce
  <1>5. ASSUME NEW op \in Codecs
        PROVE  Uses(Append(s, f), op) <=> Uses(s, op)
    BY <1>1, PushUses
  <1>6. ASSUME NEW op \in Codecs, NEW l
        PROVE  WaitingIn(Append(s, f), l, op) = WaitingIn(s, l, op)
    BY <1>1, PushWaiting
  <1> QED
    BY <1>2, <1>3, <1>4, <1>5, <1>6

(* A codec's frame says from where on its list waits.                      *)
LEMMA PushDecode ==
  ASSUME NEW s \in Seq(Frames), NEW f \in Frames, f.op = "decode"
  PROVE  /\ Append(s, f) \in Seq(Frames)
         /\ MessagesIn(Append(s, f)) = MessagesIn(s)
         /\ StackOnce(Append(s, f)) <=> StackOnce(s)
         /\ Uses(Append(s, f), "decode")
         /\ Uses(Append(s, f), "encode") <=> Uses(s, "encode")
         /\ \A l : WaitingIn(Append(s, f), l, "decode") = Rest(l, f.at)
         /\ \A l : WaitingIn(Append(s, f), l, "encode") = WaitingIn(s, l, "encode")
  <1>1. f.op \notin Carriers /\ f.op # "encode"
    BY DEF Carriers
  <1>2. Append(s, f) \in Seq(Frames)
    BY PushElements
  <1>3. MessagesIn(Append(s, f)) = MessagesIn(s)
    <2>1. MessagesIn(Append(s, f)) =
            MessagesIn(s) \cup (IF f.op \in Carriers THEN {f.msg} ELSE {})
      BY PushMessages
    <2> QED
      BY <1>1, <2>1
  <1>4. StackOnce(Append(s, f)) <=> StackOnce(s)
    BY <1>1, PushOnce
  <1>5. Uses(Append(s, f), "decode") /\ (Uses(Append(s, f), "encode") <=> Uses(s, "encode"))
    BY <1>1, PushUses
  <1>6. ASSUME NEW l
        PROVE  /\ WaitingIn(Append(s, f), l, "decode") = Rest(l, f.at)
               /\ WaitingIn(Append(s, f), l, "encode") = WaitingIn(s, l, "encode")
    BY <1>1, PushWaiting
  <1> QED
    BY <1>2, <1>3, <1>4, <1>5, <1>6

LEMMA PushEncode ==
  ASSUME NEW s \in Seq(Frames), NEW f \in Frames, f.op = "encode"
  PROVE  /\ Append(s, f) \in Seq(Frames)
         /\ MessagesIn(Append(s, f)) = MessagesIn(s)
         /\ StackOnce(Append(s, f)) <=> StackOnce(s)
         /\ Uses(Append(s, f), "encode")
         /\ Uses(Append(s, f), "decode") <=> Uses(s, "decode")
         /\ \A l : WaitingIn(Append(s, f), l, "encode") = Rest(l, f.at)
         /\ \A l : WaitingIn(Append(s, f), l, "decode") = WaitingIn(s, l, "decode")
  <1>1. f.op \notin Carriers /\ f.op # "decode"
    BY DEF Carriers
  <1>2. Append(s, f) \in Seq(Frames)
    BY PushElements
  <1>3. MessagesIn(Append(s, f)) = MessagesIn(s)
    <2>1. MessagesIn(Append(s, f)) =
            MessagesIn(s) \cup (IF f.op \in Carriers THEN {f.msg} ELSE {})
      BY PushMessages
    <2> QED
      BY <1>1, <2>1
  <1>4. StackOnce(Append(s, f)) <=> StackOnce(s)
    BY <1>1, PushOnce
  <1>5. Uses(Append(s, f), "encode") /\ (Uses(Append(s, f), "decode") <=> Uses(s, "decode"))
    BY <1>1, PushUses
  <1>6. ASSUME NEW l
        PROVE  /\ WaitingIn(Append(s, f), l, "encode") = Rest(l, f.at)
               /\ WaitingIn(Append(s, f), l, "decode") = WaitingIn(s, l, "decode")
    BY <1>1, PushWaiting
  <1> QED
    BY <1>2, <1>3, <1>4, <1>5, <1>6

-----------------------------------------------------------------------------
(* What the invariant says of the running frame.                           *)

(* The decoder and the encoder hold what waits in their lists.             *)
LEMMA ItemsHeld ==
  ASSUME CodecInv
  PROVE  /\ Len(kinds) \in Nat /\ Len(kinds) <= MaxItems /\ MaxItems \in Nat
         /\ HeldItems \subseteq 1 .. Len(kinds) /\ 1 .. Len(kinds) \subseteq Items
         /\ \A m \in LiveMessages : m.item \in 1 .. Len(kinds) /\ m \in MessageType
         /\ \A m \in app : m.item \in AppItems
         /\ \A m \in ToSet(queue) : m.item \in QueueItems
         /\ \A m \in MessagesIn(stack) : m.item \in StackItems
  <1>1. MaxItems \in Nat /\ Len(kinds) \in Nat /\ Len(kinds) <= MaxItems
    BY CodecAssumption DEF CodecInv, Shape
  <1>2. HeldItems \subseteq 1 .. Len(kinds)
    BY DEF CodecInv, LedgerInv, Ledger
  <1>3. 1 .. Len(kinds) \subseteq Items
    BY <1>1 DEF Items
  <1>4. /\ \A m \in app : m.item \in AppItems
        /\ \A m \in ToSet(queue) : m.item \in QueueItems
        /\ \A m \in MessagesIn(stack) : m.item \in StackItems
    BY Zenon DEF AppItems, QueueItems, StackItems, ItemsOf
  <1>5. \A m \in LiveMessages : m.item \in HeldItems
    BY <1>4, Zenon DEF LiveMessages, HeldItems
  <1>6. app \subseteq MessageType
    BY DEF CodecInv, Shape
  <1>7. ToSet(queue) \subseteq MessageType
    <2>1. queue \in Seq(QueuedType)
      BY DEF CodecInv, Shape
    <2>2. \A j \in DOMAIN queue : queue[j] \in QueuedType
      BY <2>1
    <2> QED
      BY <2>2 DEF ToSet, QueuedType
  <1>8. MessagesIn(stack) \subseteq MessageType
    <2>1. stack \in Seq(Frames)
      BY DEF CodecInv, Shape
    <2>2. \A j \in DOMAIN stack : stack[j] \in Frames
      BY <2>1
    <2> QED
      BY <2>2 DEF MessagesIn, Frames, FrameType
  <1>9. \A m \in LiveMessages : m \in MessageType
    BY <1>6, <1>7, <1>8 DEF LiveMessages
  <1> QED
    BY <1>1, <1>2, <1>3, <1>4, <1>5, <1>9

(* Below a running read or write, and what it carries.                     *)
LEMMA TopCarries ==
  ASSUME CodecInv, stack # <<>>, Top.op \in Carriers
  PROVE  /\ Base \in Seq(Frames) /\ Top.msg \in MessageType
         /\ Top.msg \in LiveMessages
         /\ Top.msg.item \in 1 .. Len(kinds)
         /\ MessagesIn(stack) = MessagesIn(Base) \cup {Top.msg}
         /\ StackItems = ItemsOf(MessagesIn(Base)) \cup {Top.msg.item}
         /\ StackOnce(Base)
         /\ Top.msg.item \notin ItemsOf(MessagesIn(Base))
         /\ Top.msg.item \notin AppItems /\ Top.msg.item \notin QueueItems
         /\ Top.msg.item \notin DecoderItems /\ Top.msg.item \notin EncoderItems
         /\ Uses(stack, "decode") <=> Uses(Base, "decode")
         /\ Uses(stack, "encode") <=> Uses(Base, "encode")
         /\ DecoderItems = WaitingIn(Base, out.decoder, "decode")
         /\ EncoderItems = WaitingIn(Base, out.encoder, "encode")
  <1>1. Base \in Seq(Frames) /\ Top \in Frames /\ stack = Append(Base, Top)
    BY OnBase DEF CodecInv
  <1>2. /\ MessagesIn(stack) = MessagesIn(Base) \cup {Top.msg}
        /\ StackOnce(stack) <=> StackOnce(Base) /\ Top.msg.item \notin ItemsOf(MessagesIn(Base))
        /\ \A op \in Codecs : Uses(stack, op) <=> Uses(Base, op)
        /\ \A op \in Codecs : \A l : WaitingIn(stack, l, op) = WaitingIn(Base, l, op)
    <2> DEFINE b == Base
               f == Top
    <2>1. b \in Seq(Frames) /\ f \in Frames /\ f.op \in Carriers /\ stack = Append(b, f)
      BY <1>1
    <2> HIDE DEF b, f
    <2>2. /\ MessagesIn(stack) = MessagesIn(b) \cup {f.msg}
          /\ StackOnce(stack) <=> StackOnce(b) /\ f.msg.item \notin ItemsOf(MessagesIn(b))
          /\ \A op \in Codecs : Uses(stack, op) <=> Uses(b, op)
          /\ \A op \in Codecs : \A l : WaitingIn(stack, l, op) = WaitingIn(b, l, op)
      BY <2>1, PushCarrier
    <2> QED
      BY <2>2 DEF b, f
  <1>3. Top.msg \in LiveMessages
    BY <1>2 DEF LiveMessages
  <1>4. Top.msg \in MessageType /\ Top.msg.item \in 1 .. Len(kinds)
    BY <1>3, ItemsHeld
  <1>5. StackItems = ItemsOf(MessagesIn(Base)) \cup {Top.msg.item}
    BY <1>2, ItemsPlus DEF StackItems
  <1>6. StackOnce(stack)
    BY DEF CodecInv, SplitInv
  <1>7. /\ Top.msg.item \notin AppItems /\ Top.msg.item \notin QueueItems
        /\ Top.msg.item \notin DecoderItems /\ Top.msg.item \notin EncoderItems
    BY <1>5 DEF CodecInv, SplitInv, Disjoint
  <1>8. /\ Uses(stack, "decode") <=> Uses(Base, "decode")
        /\ Uses(stack, "encode") <=> Uses(Base, "encode")
    BY <1>2 DEF Codecs
  <1>9. /\ DecoderItems = WaitingIn(Base, out.decoder, "decode")
        /\ EncoderItems = WaitingIn(Base, out.encoder, "encode")
    BY <1>2 DEF Codecs, DecoderItems, EncoderItems
  <1>10. /\ MessagesIn(stack) = MessagesIn(Base) \cup {Top.msg}
         /\ StackOnce(Base) /\ Top.msg.item \notin ItemsOf(MessagesIn(Base))
    BY <1>2, <1>6
  <1> QED
    BY <1>1, <1>3, <1>4, <1>5, <1>7, <1>8, <1>9, <1>10

(* Below a running decode.                                                 *)
LEMMA TopDecodes ==
  ASSUME CodecInv, stack # <<>>, Top.op = "decode"
  PROVE  /\ Base \in Seq(Frames) /\ Top \in Frames
         /\ MessagesIn(stack) = MessagesIn(Base)
         /\ StackOnce(Base)
         /\ Uses(stack, "encode") <=> Uses(Base, "encode")
         /\ DecoderItems = Rest(out.decoder, Top.at)
         /\ EncoderItems = WaitingIn(Base, out.encoder, "encode")
  <1>1. Base \in Seq(Frames) /\ Top \in Frames /\ stack = Append(Base, Top)
    BY OnBase DEF CodecInv
  <1> DEFINE b == Base
             f == Top
  <1>2. b \in Seq(Frames) /\ f \in Frames /\ stack = Append(b, f) /\ f.op = "decode"
    BY <1>1
  <1> HIDE DEF b, f
  <1>3. /\ MessagesIn(stack) = MessagesIn(b)
        /\ StackOnce(stack) <=> StackOnce(b)
        /\ Uses(stack, "encode") <=> Uses(b, "encode")
        /\ WaitingIn(stack, out.decoder, "decode") = Rest(out.decoder, f.at)
        /\ WaitingIn(stack, out.encoder, "encode") = WaitingIn(b, out.encoder, "encode")
    BY <1>2, PushDecode
  <1>4. StackOnce(stack)
    BY DEF CodecInv, SplitInv
  <1> QED
    BY <1>1, <1>3, <1>4 DEF b, f, DecoderItems, EncoderItems

(* Below a running encode.                                                 *)
LEMMA TopEncodes ==
  ASSUME CodecInv, stack # <<>>, Top.op = "encode"
  PROVE  /\ Base \in Seq(Frames) /\ Top \in Frames
         /\ MessagesIn(stack) = MessagesIn(Base)
         /\ StackOnce(Base)
         /\ Uses(stack, "decode") <=> Uses(Base, "decode")
         /\ EncoderItems = Rest(out.encoder, Top.at)
         /\ DecoderItems = WaitingIn(Base, out.decoder, "decode")
  <1>1. Base \in Seq(Frames) /\ Top \in Frames /\ stack = Append(Base, Top)
    BY OnBase DEF CodecInv
  <1> DEFINE b == Base
             f == Top
  <1>2. b \in Seq(Frames) /\ f \in Frames /\ stack = Append(b, f) /\ f.op = "encode"
    BY <1>1
  <1> HIDE DEF b, f
  <1>3. /\ MessagesIn(stack) = MessagesIn(b)
        /\ StackOnce(stack) <=> StackOnce(b)
        /\ Uses(stack, "decode") <=> Uses(b, "decode")
        /\ WaitingIn(stack, out.encoder, "encode") = Rest(out.encoder, f.at)
        /\ WaitingIn(stack, out.decoder, "decode") = WaitingIn(b, out.decoder, "decode")
    BY <1>2, PushEncode
  <1>4. StackOnce(stack)
    BY DEF CodecInv, SplitInv
  <1> QED
    BY <1>1, <1>3, <1>4 DEF b, f, DecoderItems, EncoderItems

-----------------------------------------------------------------------------
(* The actions.                                                            *)

NewItems == {i \in 1 .. Len(kinds)' : i > Len(kinds)}

(* The ledger after a step that hands on, makes and releases items.        *)
LEMMA Settled ==
  ASSUME CodecInv,
         NEW r, NEW twice, Spent(releases, releases', r, twice),
         Len(kinds)' \in Nat, Len(kinds) <= Len(kinds)', Len(kinds)' <= MaxItems,
         refused \subseteq refused', refused' \subseteq 1 .. Len(kinds)', twice \subseteq refused',
         overlapped' \in BOOLEAN, overlapped => overlapped',
         HeldItems' \cup r \subseteq HeldItems \cup NewItems,
         HeldItems' \cap r = {},
         ~overlapped' => HeldItems \cup NewItems \subseteq HeldItems' \cup r
  PROVE  LedgerInv'
  <1>1. /\ Len(kinds) \in Nat /\ releases \in [Items -> Nat] /\ overlapped \in BOOLEAN
        /\ Ledger(HeldItems, releases, Len(kinds), refused)
    BY DEF CodecInv, Shape, LedgerInv
  <1>2. HeldItems \subseteq 1 .. Len(kinds) /\ 1 .. Len(kinds) \subseteq 1 .. Len(kinds)'
    BY <1>1 DEF Ledger
  <1>3. NewItems \subseteq 1 .. Len(kinds)' /\ \A i \in NewItems : i > Len(kinds)
    BY DEF NewItems
  <1>4. /\ \A i \in HeldItems' : i \in HeldItems \/ i > Len(kinds)
        /\ \A i \in r : i \in HeldItems \/ i > Len(kinds)
        /\ HeldItems' \subseteq 1 .. Len(kinds)' /\ r \subseteq 1 .. Len(kinds)'
    BY <1>2, <1>3
  <1>5. ASSUME ~overlapped', NEW i \in 1 .. Len(kinds)', i \in HeldItems \/ i > Len(kinds)
        PROVE  i \in HeldItems' \/ i \in r
    BY <1>5 DEF NewItems
  <1>6. /\ Ledger(HeldItems', releases', Len(kinds)', refused')
        /\ ~overlapped' => Covered(HeldItems', releases', Len(kinds)')
    <2> DEFINE h == HeldItems
               h2 == HeldItems'
               n == Len(kinds)
               n2 == Len(kinds)'
               rel2 == releases'
               gone2 == refused'
    <2>1. /\ Ledger(h, releases, n, refused) /\ Spent(releases, rel2, r, twice)
          /\ releases \in [Items -> Nat]
          /\ n \in Nat /\ n2 \in Nat /\ n <= n2 /\ n2 <= MaxItems
          /\ Moved(h, h2, r, n, n2) /\ Grown(refused, gone2, twice, n2)
      BY <1>1, <1>4 DEF Moved, Grown
    <2>2. ASSUME ~overlapped'
          PROVE  /\ Covered(h, releases, n)
                 /\ \A i \in 1 .. n2 : i \in h \/ i > n => i \in h2 \/ i \in r
      <3>1. ~overlapped => Covered(h, releases, n)
        BY DEF CodecInv, LedgerInv
      <3>2. ~overlapped
        BY <2>2
      <3> QED
        BY <1>5, <2>2, <3>1, <3>2
    <2> HIDE DEF h, h2, n, n2, rel2, gone2
    <2>3. Ledger(h2, rel2, n2, gone2)
      BY <2>1, LedgerStep
    <2>4. ASSUME ~overlapped'
          PROVE  Covered(h2, rel2, n2)
      <3>1. Covered(h, releases, n)
        BY <2>2, <2>4
      <3>2. \A i \in 1 .. n2 : i \in h \/ i > n => i \in h2 \/ i \in r
        BY <2>2, <2>4
      <3> QED
        BY <2>1, <3>1, <3>2, LedgerCovers
    <2> QED
      BY <2>3, <2>4 DEF h2, n2, rel2, gone2
  <1> QED
    BY <1>6 DEF LedgerInv

(* ... and when it makes none.                                             *)
LEMMA SettledOld ==
  ASSUME CodecInv, UNCHANGED <<kinds, overlapped>>,
         NEW r, NEW twice, Spent(releases, releases', r, twice),
         refused \subseteq refused', refused' \subseteq 1 .. Len(kinds), twice \subseteq refused',
         HeldItems' \cup r = HeldItems, HeldItems' \cap r = {}
  PROVE  LedgerInv'
  <1>1. /\ Len(kinds) \in Nat /\ Len(kinds) <= MaxItems /\ overlapped \in BOOLEAN
        /\ Len(kinds)' = Len(kinds) /\ overlapped' = overlapped
    BY DEF CodecInv, Shape
  <1>2. NewItems = {}
    BY <1>1 DEF NewItems
  <1>3. /\ Len(kinds)' \in Nat /\ Len(kinds) <= Len(kinds)' /\ Len(kinds)' <= MaxItems
        /\ refused' \subseteq 1 .. Len(kinds)'
    BY <1>1
  <1>4. /\ HeldItems' \cup r \subseteq HeldItems \cup NewItems
        /\ HeldItems \cup NewItems \subseteq HeldItems' \cup r
    BY <1>2
  <1>5. overlapped' \in BOOLEAN /\ (overlapped => overlapped')
    <2>1. overlapped \in BOOLEAN /\ overlapped' = overlapped
      BY <1>1
    <2>2. overlapped' \in BOOLEAN
      BY <2>1
    <2>3. overlapped => overlapped'
      BY <2>1
    <2> QED
      BY <2>2, <2>3
  <1> QED
    BY <1>3, <1>4, <1>5, Settled

(* The items of a list stay below the number made.                         *)
LEMMA ListBound ==
  ASSUME NEW l \in Seq(Items), NEW n \in Nat, NEW n2 \in Nat, n <= n2,
         \A j \in DOMAIN l : l[j] <= n
  PROVE  \A j \in DOMAIN l : l[j] <= n2
  <1>1. ASSUME NEW j \in DOMAIN l
        PROVE  l[j] <= n2
    <2>1. l[j] \in Items /\ l[j] <= n
      OBVIOUS
    <2>2. l[j] \in Int
      BY <2>1 DEF Items
    <2> QED
      BY <2>1, <2>2
  <1> QED
    BY <1>1

(* ... and still do when more are made.                                    *)
LEMMA ListsBounded ==
  ASSUME CodecInv, Len(kinds)' \in Nat, Len(kinds) <= Len(kinds)'
  PROVE  /\ \A j \in DOMAIN out.decoder : out.decoder[j] <= Len(kinds)'
         /\ \A j \in DOMAIN out.encoder : out.encoder[j] <= Len(kinds)'
  <1>1. /\ out.decoder \in Seq(Items) /\ out.encoder \in Seq(Items)
        /\ \A j \in DOMAIN out.decoder : out.decoder[j] <= Len(kinds)
        /\ \A j \in DOMAIN out.encoder : out.encoder[j] <= Len(kinds)
        /\ Len(kinds) \in Nat
    BY DEF CodecInv, Shape, ListInv
  <1> QED
    BY <1>1, ListBound

(* A step that leaves the lists and the codecs that use them.              *)
LEMMA ListsStay ==
  ASSUME CodecInv, UNCHANGED out, Len(kinds)' \in Nat, Len(kinds) <= Len(kinds)',
         \A op \in Codecs : Uses(stack, op) => Uses(stack', op)
  PROVE  ListInv'
  <1>1. /\ \A j \in DOMAIN out.decoder : out.decoder[j] <= Len(kinds)'
        /\ \A j \in DOMAIN out.encoder : out.encoder[j] <= Len(kinds)'
    BY ListsBounded
  <1>2. /\ ~Uses(stack', "decode") => out.decoder = <<>>
        /\ ~Uses(stack', "encode") => out.encoder = <<>>
    BY DEF CodecInv, ListInv, Codecs
  <1> QED
    BY <1>1, <1>2 DEF ListInv

(* A new item is pushed with the message that carries it.                  *)
LEMMA PushNew ==
  ASSUME CodecInv, NEW f \in Frames, f.op \in Carriers, NEW kind \in {"buf", "other"},
         Len(kinds) < MaxItems, f.msg.item = Len(kinds) + 1,
         MakeItems(<<kind>>), stack' = Append(stack, f),
         UNCHANGED <<modeVars, releases, endVars, out, app, overlapped>>,
         ip' \in [Envelopes -> Peers], pool' \in [Envelopes -> Nat],
         envelopes' \in 0 .. MaxEnvelopes,
         EnvelopesOf(LiveMessages \cup {f.msg}, pool', envelopes', ip')
  PROVE  CodecInv'
  <1>1. /\ stack \in Seq(Frames) /\ kinds \in Seq({"buf", "other"}) /\ Len(kinds) \in Nat
        /\ releases \in [Items -> Nat] /\ overlapped \in BOOLEAN /\ MaxItems \in Nat
        /\ refused \subseteq 1 .. Len(kinds)
    BY CodecAssumption DEF CodecInv, Shape, LedgerInv, Ledger
  <1>2. kinds' \in Seq({"buf", "other"}) /\ Len(kinds)' = Len(kinds) + 1
    <2>1. kinds' = Append(kinds, kind)
      BY <1>1, AppendIsConcat DEF MakeItems
    <2> QED
      BY <1>1, <2>1
  <1>3. /\ stack' \in Seq(Frames)
        /\ MessagesIn(stack') = MessagesIn(stack) \cup {f.msg}
        /\ StackOnce(stack') <=> StackOnce(stack) /\ f.msg.item \notin StackItems
        /\ \A op \in Codecs : Uses(stack', op) <=> Uses(stack, op)
        /\ \A op \in Codecs : \A l : WaitingIn(stack', l, op) = WaitingIn(stack, l, op)
    BY <1>1, PushCarrier DEF StackItems
  <1>4. "decode" \in Codecs /\ "encode" \in Codecs
    BY DEF Codecs
  <1>5. app' = app /\ queue' = queue /\ out' = out /\ refused' = refused
        /\ releases' = releases /\ overlapped' = overlapped /\ closed' = closed
        /\ pooled' = pooled /\ remote' = remote
    BY DEF endVars, modeVars
  <1>6. /\ AppItems' = AppItems /\ QueueItems' = QueueItems
        /\ DecoderItems' = DecoderItems /\ EncoderItems' = EncoderItems
    BY <1>3, <1>4, <1>5 DEF AppItems, QueueItems, DecoderItems, EncoderItems
  <1>7. StackItems' = StackItems \cup {Len(kinds) + 1}
    BY <1>3, ItemsPlus DEF StackItems
  <1>8. HeldItems \subseteq 1 .. Len(kinds) /\ Len(kinds) + 1 \notin HeldItems
    BY <1>1, ItemsHeld
  <1>9. Shape'
    BY <1>1, <1>2, <1>3, <1>5 DEF CodecInv, Shape
  <1>10. SplitInv'
    <2>1. Len(kinds) + 1 \notin AppItems \cup QueueItems \cup StackItems
                                         \cup DecoderItems \cup EncoderItems
      BY <1>8 DEF HeldItems
    <2>2. Disjoint(AppItems, QueueItems, StackItems, DecoderItems, EncoderItems)'
      BY <1>6, <1>7, <2>1 DEF Disjoint, CodecInv, SplitInv
    <2>3. StackOnce(stack')
      BY <1>3, <2>1 DEF CodecInv, SplitInv
    <2> QED
      BY <1>5, <2>2, <2>3 DEF CodecInv, SplitInv
  <1>11. ListInv'
    <2>1. Len(kinds)' \in Nat /\ Len(kinds) <= Len(kinds)'
      BY <1>1, <1>2
    <2> QED
      BY <1>3, <1>5, <2>1, ListsStay
  <1>12. LedgerInv'
    <2>1. HeldItems' = HeldItems \cup {Len(kinds) + 1}
      BY <1>6, <1>7 DEF HeldItems
    <2>2. NewItems = {Len(kinds) + 1}
      BY <1>1, <1>2 DEF NewItems
    <2>3. Spent(releases, releases', {}, {})
      BY <1>1, <1>5, NothingSpent
    <2>4. refused' \subseteq 1 .. Len(kinds)'
      <3>1. refused \subseteq 1 .. Len(kinds) /\ refused' = refused
        BY <1>1, <1>5
      <3>2. Len(kinds) \in Nat /\ Len(kinds)' = Len(kinds) + 1
        BY <1>1, <1>2
      <3>3. 1 .. Len(kinds) \subseteq 1 .. Len(kinds)'
        BY <3>2
      <3> QED
        BY <3>1, <3>3, Zenon
    <2> QED
      <3>1. Len(kinds)' \in Nat /\ Len(kinds) <= Len(kinds)' /\ Len(kinds)' <= MaxItems
        BY <1>1, <1>2
      <3>2. /\ HeldItems' \cup {} \subseteq HeldItems \cup NewItems
            /\ HeldItems' \cap {} = {}
            /\ HeldItems \cup NewItems \subseteq HeldItems' \cup {}
        BY <2>1, <2>2
      <3>3. overlapped' \in BOOLEAN /\ (overlapped => overlapped')
        <4>1. overlapped \in BOOLEAN /\ overlapped' = overlapped
          BY <1>1, <1>5
        <4>2. overlapped' \in BOOLEAN
          BY <4>1
        <4>3. overlapped => overlapped'
          BY <4>1
        <4> QED
          BY <4>2, <4>3
      <3>4. refused \subseteq refused' /\ {} \subseteq refused'
        BY <1>5
      <3> QED
        BY <2>3, <2>4, <3>1, <3>2, <3>3, <3>4, Settled, Zenon
  <1>13. EnvelopeInv'
    <2>1. LiveMessages' = LiveMessages \cup {f.msg}
      BY <1>3, <1>5 DEF LiveMessages
    <2> QED
      BY <2>1 DEF EnvelopeInv
  <1> QED
    BY <1>9, <1>10, <1>11, <1>12, <1>13 DEF CodecInv

(* datagramPool.acquire: the envelope is nobody's.                         *)
LEMMA AcquireStep ==
  ASSUME CodecInv, NEW e \in Acquirable, NEW m, NEW from \in Peers,
         m.env = e, m.alias = e, m.peer = from, m.type = "datagram",
         pool' = [pool EXCEPT ![e] = IF @ > 0 THEN @ - 1 ELSE @],
         envelopes' = IF e > envelopes THEN e ELSE envelopes,
         ip' = [ip EXCEPT ![e] = from]
  PROVE  /\ ip' \in [Envelopes -> Peers] /\ pool' \in [Envelopes -> Nat]
         /\ envelopes' \in 0 .. MaxEnvelopes
         /\ EnvelopesOf(LiveMessages \cup {m}, pool', envelopes', ip')
  <1>1. /\ ip \in [Envelopes -> Peers] /\ pool \in [Envelopes -> Nat]
        /\ envelopes \in 0 .. MaxEnvelopes
        /\ EnvelopesOf(LiveMessages, pool, envelopes, ip)
        /\ MaxEnvelopes \in Nat /\ Envelopes = 1 .. MaxEnvelopes
    BY CodecAssumption DEF CodecInv, Shape, EnvelopeInv, Envelopes
  <1>2. e \in Envelopes /\ (pool[e] > 0 \/ e = envelopes + 1)
    BY DEF Acquirable
  <1>3. /\ pool[e] \in Nat /\ pool[e] <= 1
        /\ \A x \in Envelopes : pool[x] \in Nat /\ pool[x] <= 1 /\ (pool[x] = 1 => x <= envelopes)
    BY <1>1, <1>2 DEF EnvelopesOf
  <1>4. ASSUME NEW k \in LiveMessages
        PROVE  k.env # e
    <2>1. k.env <= envelopes /\ (k.env # 0 => pool[k.env] = 0)
      BY <1>1 DEF EnvelopesOf
    <2>2. e # 0
      BY <1>1, <1>2
    <2> QED
      BY <1>1, <1>2, <1>3, <2>1, <2>2
  <1>5. /\ pool' \in [Envelopes -> Nat] /\ pool'[e] = 0
        /\ \A x \in Envelopes : x # e => pool'[x] = pool[x]
    <2>1. (IF pool[e] > 0 THEN pool[e] - 1 ELSE pool[e]) = 0
      BY <1>3
    <2>2. pool' = [pool EXCEPT ![e] = 0]
      BY <1>1, <1>2, <2>1
    <2> QED
      BY <1>1, <1>2, <2>2
  <1>6. /\ ip' \in [Envelopes -> Peers] /\ ip'[e] = from
        /\ \A x \in Envelopes : x # e => ip'[x] = ip[x]
    BY <1>1, <1>2
  <1>7. envelopes' \in 0 .. MaxEnvelopes /\ envelopes <= envelopes' /\ e <= envelopes'
    BY <1>1, <1>2
  <1>8. \A k \in LiveMessages : k \in MessageType
    BY ItemsHeld
  <1>9. ASSUME NEW k \in LiveMessages
        PROVE  /\ k.env <= envelopes' /\ k.alias \in {0, k.env}
               /\ k.alias # 0 => ip'[k.alias] = k.peer
               /\ k.type = "addressed" => k.env = 0
               /\ k.env # 0 => pool'[k.env] = 0
    <2>1. k.env \in 0 .. MaxEnvelopes
      BY <1>8 DEF MessageType
    <2>2. /\ k.env <= envelopes /\ k.alias \in {0, k.env}
          /\ k.alias # 0 => ip[k.alias] = k.peer
          /\ k.type = "addressed" => k.env = 0
          /\ k.env # 0 => pool[k.env] = 0
      BY <1>1 DEF EnvelopesOf
    <2>3. k.env # 0 => k.env \in Envelopes /\ k.env # e
      BY <1>1, <1>4, <2>1
    <2> QED
      BY <1>1, <1>5, <1>6, <1>7, <2>1, <2>2, <2>3
  <1>10. /\ m.env <= envelopes' /\ m.alias \in {0, m.env}
         /\ m.alias # 0 => ip'[m.alias] = m.peer
         /\ m.type = "addressed" => m.env = 0
         /\ m.env # 0 => pool'[m.env] = 0
    BY <1>5, <1>6, <1>7
  <1>11. ASSUME NEW j \in LiveMessages \cup {m}, NEW k \in LiveMessages \cup {m},
                j.env = k.env, j.env # 0
         PROVE  j = k
    BY <1>1, <1>4, <1>11 DEF EnvelopesOf
  <1>12. ASSUME NEW x \in Envelopes
         PROVE  pool'[x] <= 1 /\ (pool'[x] = 1 => x <= envelopes')
    BY <1>1, <1>3, <1>5, <1>7
  <1>13. EnvelopesOf(LiveMessages \cup {m}, pool', envelopes', ip')
    BY <1>9, <1>10, <1>11, <1>12 DEF EnvelopesOf
  <1> QED
    BY <1>5, <1>6, <1>7, <1>13

(* endpoint.fireChannelRead. *)
LEMMA FireChannelReadStep ==
  ASSUME CodecInv, NEW from \in Peers, FireChannelRead(from)
  PROVE  CodecInv'
  <1>1. Len(kinds) \in Nat /\ MaxItems \in Nat /\ Len(kinds) < MaxItems
        /\ Len(kinds) + 1 \in 0 .. MaxItems /\ MaxEnvelopes \in Nat /\ 0 \in 0 .. MaxItems + 1
    BY CodecAssumption DEF CodecInv, Shape, FireChannelRead
  <1>2. ASSUME NEW m \in MessageType, m.item = Len(kinds) + 1,
               stack' = Append(stack, Frame("read", m, 0)),
               ip' \in [Envelopes -> Peers], pool' \in [Envelopes -> Nat],
               envelopes' \in 0 .. MaxEnvelopes,
               EnvelopesOf(LiveMessages \cup {m}, pool', envelopes', ip')
        PROVE  CodecInv'
    <2> DEFINE f == Frame("read", m, 0)
    <2>1. f \in Frames /\ f.op = "read" /\ f.msg = m
      BY <1>1, FrameIn DEF Codecs
    <2>2. stack' = Append(stack, f) /\ f.op \in Carriers
      BY <1>2, <2>1 DEF Carriers
    <2>3. MakeItems(<<"buf">>)
          /\ UNCHANGED <<modeVars, releases, endVars, out, app, overlapped>>
      BY DEF FireChannelRead
    <2> HIDE DEF f
    <2> QED
      BY <1>1, <1>2, <2>1, <2>2, <2>3, PushNew
  <1>3. ASSUME UNCHANGED poolVars,
               stack' = Append(stack,
                 Frame("read", Message("datagram", Len(kinds) + 1, 0, 0, from), 0))
        PROVE  CodecInv'
    <2> DEFINE m == Message("datagram", Len(kinds) + 1, 0, 0, from)
    <2>1. m \in MessageType /\ m.item = Len(kinds) + 1 /\ m.env = 0 /\ m.alias = 0
      BY <1>1 DEF Message, MessageType
    <2>2. stack' = Append(stack, Frame("read", m, 0))
      BY <1>3
    <2> HIDE DEF m
    <2>3. /\ ip' = ip /\ pool' = pool /\ envelopes' = envelopes
          /\ ip \in [Envelopes -> Peers] /\ pool \in [Envelopes -> Nat]
          /\ envelopes \in 0 .. MaxEnvelopes
          /\ EnvelopesOf(LiveMessages, pool, envelopes, ip)
      BY <1>3 DEF poolVars, CodecInv, Shape, EnvelopeInv
    <2>4. EnvelopesOf(LiveMessages \cup {m}, pool, envelopes, ip)
      BY <1>1, <2>1, <2>3, EnvelopesKept
    <2> QED
      BY <1>2, <2>1, <2>2, <2>3, <2>4
  <1>4. ASSUME NEW e \in Acquirable,
               pool' = [pool EXCEPT ![e] = IF @ > 0 THEN @ - 1 ELSE @],
               envelopes' = IF e > envelopes THEN e ELSE envelopes,
               ip' = [ip EXCEPT ![e] = from],
               stack' = Append(stack,
                 Frame("read", Message("datagram", Len(kinds) + 1, e, e, from), 0))
        PROVE  CodecInv'
    <2> DEFINE m == Message("datagram", Len(kinds) + 1, e, e, from)
    <2>1. e \in 0 .. MaxEnvelopes
      BY <1>1 DEF Acquirable, Envelopes
    <2>2. /\ m \in MessageType /\ m.item = Len(kinds) + 1 /\ m.env = e /\ m.alias = e
          /\ m.peer = from /\ m.type = "datagram"
      BY <1>1, <2>1 DEF Message, MessageType
    <2>3. stack' = Append(stack, Frame("read", m, 0))
      BY <1>4
    <2> HIDE DEF m
    <2>4. /\ ip' \in [Envelopes -> Peers] /\ pool' \in [Envelopes -> Nat]
          /\ envelopes' \in 0 .. MaxEnvelopes
          /\ EnvelopesOf(LiveMessages \cup {m}, pool', envelopes', ip')
      BY <1>4, <2>2, AcquireStep
    <2> QED
      BY <1>2, <2>2, <2>3, <2>4
  <1> QED
    BY <1>3, <1>4, Zenon DEF FireChannelRead

(* The application writes a message of its own. *)
LEMMA AppWritesNewStep ==
  ASSUME CodecInv, NEW type \in {"addressed", "bytes"}, NEW kind \in {"buf", "other"},
         NEW to \in Peers, AppWritesNew(type, kind, to)
  PROVE  CodecInv'
  <1>1. Len(kinds) \in Nat /\ MaxItems \in Nat /\ Len(kinds) < MaxItems
        /\ Len(kinds) + 1 \in 0 .. MaxItems /\ MaxEnvelopes \in Nat /\ 0 \in 0 .. MaxItems + 1
    BY CodecAssumption DEF CodecInv, Shape, AppWritesNew
  <1> DEFINE m == Message(type, Len(kinds) + 1, 0, 0, to)
             f == Frame("write", m, 0)
  <1>2. m \in MessageType /\ m.item = Len(kinds) + 1 /\ m.env = 0 /\ m.alias = 0
    BY <1>1 DEF Message, MessageType
  <1>3. stack' = Append(stack, f) /\ MakeItems(<<kind>>)
        /\ UNCHANGED <<modeVars, poolVars, releases, endVars, out, app, overlapped>>
    BY DEF AppWritesNew
  <1> HIDE DEF m
  <1>4. f \in Frames /\ f.op \in Carriers /\ f.msg = m
    BY <1>1, <1>2, FrameIn DEF Codecs, Carriers
  <1> HIDE DEF f
  <1>5. /\ ip' = ip /\ pool' = pool /\ envelopes' = envelopes
        /\ ip \in [Envelopes -> Peers] /\ pool \in [Envelopes -> Nat]
        /\ envelopes \in 0 .. MaxEnvelopes
        /\ EnvelopesOf(LiveMessages, pool, envelopes, ip)
    BY <1>3 DEF poolVars, CodecInv, Shape, EnvelopeInv
  <1>6. EnvelopesOf(LiveMessages \cup {m}, pool, envelopes, ip)
    BY <1>1, <1>2, <1>5, EnvelopesKept
  <1>7. UNCHANGED <<modeVars, releases, endVars, out, app, overlapped>>
    BY <1>3
  <1> QED
    BY <1>1, <1>2, <1>3, <1>4, <1>5, <1>6, <1>7, PushNew
-----------------------------------------------------------------------------
(* A codec is called.                                                      *)

(* One of the two lists is replaced. *)
LEMMA SetDecoder ==
  ASSUME Shape, NEW l \in Seq(Items), Len(l) <= MaxItems, out' = [out EXCEPT !.decoder = l]
  PROVE  /\ out' \in [decoder : Seq(Items), encoder : Seq(Items)]
         /\ out.decoder' = l /\ out.encoder' = out.encoder
         /\ Len(out.decoder') <= MaxItems /\ Len(out.encoder') <= MaxItems
  BY DEF Shape

LEMMA SetEncoder ==
  ASSUME Shape, NEW l \in Seq(Items), Len(l) <= MaxItems, out' = [out EXCEPT !.encoder = l]
  PROVE  /\ out' \in [decoder : Seq(Items), encoder : Seq(Items)]
         /\ out.encoder' = l /\ out.decoder' = out.decoder
         /\ Len(out.decoder') <= MaxItems /\ Len(out.encoder') <= MaxItems
  BY DEF Shape

(* One of the two is emptied. *)
LEMMA ClearDecoder ==
  ASSUME Shape, out' = [out EXCEPT !.decoder = <<>>]
  PROVE  /\ out' \in [decoder : Seq(Items), encoder : Seq(Items)]
         /\ out.decoder' = <<>> /\ out.encoder' = out.encoder
         /\ Len(out.decoder') <= MaxItems /\ Len(out.encoder') <= MaxItems
         /\ ListOnce(out.decoder')
         /\ \A j \in DOMAIN out.decoder' : out.decoder'[j] <= Len(kinds)'
         /\ DecoderItems' = {}
  <1>1. <<>> \in Seq(Items) /\ Len(<<>>) <= MaxItems
    BY CodecAssumption
  <1>2. /\ out' \in [decoder : Seq(Items), encoder : Seq(Items)]
        /\ out.decoder' = <<>> /\ out.encoder' = out.encoder
        /\ Len(out.decoder') <= MaxItems /\ Len(out.encoder') <= MaxItems
    BY <1>1, SetDecoder
  <1> QED
    BY <1>2, EmptyList DEF DecoderItems

LEMMA ClearEncoder ==
  ASSUME Shape, out' = [out EXCEPT !.encoder = <<>>]
  PROVE  /\ out' \in [decoder : Seq(Items), encoder : Seq(Items)]
         /\ out.encoder' = <<>> /\ out.decoder' = out.decoder
         /\ Len(out.decoder') <= MaxItems /\ Len(out.encoder') <= MaxItems
         /\ ListOnce(out.encoder')
         /\ \A j \in DOMAIN out.encoder' : out.encoder'[j] <= Len(kinds)'
         /\ EncoderItems' = {}
  <1>1. <<>> \in Seq(Items) /\ Len(<<>>) <= MaxItems
    BY CodecAssumption
  <1>2. /\ out' \in [decoder : Seq(Items), encoder : Seq(Items)]
        /\ out.encoder' = <<>> /\ out.decoder' = out.decoder
        /\ Len(out.decoder') <= MaxItems /\ Len(out.encoder') <= MaxItems
    BY <1>1, SetEncoder
  <1> QED
    BY <1>2, EmptyList DEF EncoderItems

(* A failed call releases what it made and what it was called with.        *)
LEMMA FailedReleases ==
  ASSUME CodecInv, NEW ks \in Outputs, MakeItems(ks), NEW x \in 1 .. Len(kinds),
         ReleaseItems(Append(MadeItems(ks), x))
  PROVE  Spent(releases, releases', NewItems \cup {x}, {})
  <1> DEFINE l == MadeItems(ks)
             is == Append(l, x)
  <1>1. kinds \in Seq({"buf", "other"}) /\ Len(kinds) <= MaxItems /\ releases \in [Items -> Nat]
    BY DEF CodecInv, Shape
  <1>2. /\ l \in Seq(Items) /\ ListOnce(l) /\ Len(kinds) \in Nat /\ Len(kinds)' \in Nat
        /\ Len(kinds) <= Len(kinds)' /\ Len(kinds)' <= MaxItems
        /\ \A i : i \in ToSet(l) <=> i \in 1 .. Len(kinds)' /\ i > Len(kinds)
    BY <1>1, OutputItems
  <1>3. x \in Items /\ x \notin ToSet(l)
    BY <1>1, <1>2, ItemsHeld
  <1> HIDE DEF l
  <1>4. ReleaseItems(is)
    BY DEF l
  <1>5. /\ is \in Seq(Items) /\ Len(l) \in Nat /\ DOMAIN l = 1 .. Len(l)
        /\ DOMAIN is = 1 .. Len(l) + 1
        /\ \A j \in DOMAIN l : is[j] = l[j]
        /\ is[Len(l) + 1] = x
    BY <1>2, <1>3, PushElements
  <1> HIDE DEF is
  <1>6. DOMAIN is = DOMAIN l \cup {Len(l) + 1}
    BY <1>5
  <1>7. ListOnce(is)
    <2>1. \A j \in DOMAIN l : l[j] # x
      BY <1>3, Zenon DEF ToSet
    <2> QED
      BY <1>2, <1>5, <1>6, <2>1, Zenon DEF ListOnce
  <1>8. ToSet(is) = NewItems \cup {x}
    <2>1. \A i : i \in ToSet(is) <=> i \in ToSet(l) \/ i = x
      BY <1>5, <1>6, Zenon DEF ToSet
    <2>2. \A i : i \in ToSet(l) <=> i \in NewItems
      BY <1>2 DEF NewItems
    <2> QED
      BY <2>1, <2>2
  <1> QED
    BY <1>1, <1>4, <1>5, <1>7, <1>8, ReleasesSpendOnce

(* The live messages but the running one.                                  *)
LEMMA LiveBelow ==
  ASSUME CodecInv, stack # <<>>, Top.op \in Carriers
  PROVE  \A m \in app \cup ToSet(queue) \cup MessagesIn(Base) :
           m \in LiveMessages /\ m # Top.msg
  <1>1. /\ MessagesIn(stack) = MessagesIn(Base) \cup {Top.msg}
        /\ Top.msg.item \notin ItemsOf(MessagesIn(Base))
        /\ Top.msg.item \notin AppItems /\ Top.msg.item \notin QueueItems
    BY TopCarries
  <1>2. \A m \in app \cup ToSet(queue) \cup MessagesIn(Base) : m # Top.msg
    BY <1>1, Zenon DEF AppItems, QueueItems, ItemsOf
  <1> QED
    BY <1>1, <1>2 DEF LiveMessages

(* Its envelope goes to the pool.                                          *)
LEMMA EnvelopeDropped ==
  ASSUME CodecInv, stack # <<>>, Top.op \in Carriers,
         PutEnvelopes(<<Top.msg>>), UNCHANGED <<ip, envelopes>>,
         LiveMessages' = app \cup ToSet(queue) \cup MessagesIn(Base)
  PROVE  EnvelopeInv' /\ pool' \in [Envelopes -> Nat]
  <1>1. /\ pool \in [Envelopes -> Nat] /\ envelopes \in 0 .. MaxEnvelopes
        /\ EnvelopesOf(LiveMessages, pool, envelopes, ip)
    BY DEF CodecInv, Shape, EnvelopeInv
  <1>2. Top.msg \in MessageType /\ Top.msg \in LiveMessages
    BY TopCarries
  <1>3. Put(pool, pool', {Top.msg})
    BY <1>1, <1>2, PutOne
  <1>4. LiveMessages \subseteq MessageType
    BY ItemsHeld
  <1>5. \A m \in LiveMessages' : m \in LiveMessages /\ m \notin {Top.msg}
    BY LiveBelow
  <1>6. EnvelopesOf(LiveMessages', pool', envelopes, ip)
    <2> DEFINE live == LiveMessages
               live2 == LiveMessages'
               ms == {Top.msg}
    <2>1. ms \subseteq live
      BY <1>2
    <2> HIDE DEF live, live2, ms
    <2>2. EnvelopesOf(live2, pool', envelopes, ip)
      BY <1>1, <1>3, <1>4, <1>5, <2>1, EnvelopesPut DEF live, live2, ms
    <2> QED
      BY <2>2 DEF live2
  <1> QED
    BY <1>3, <1>6 DEF EnvelopeInv, Put

(* No envelope changes hands.                                              *)
LEMMA EnvelopesStay ==
  ASSUME CodecInv, UNCHANGED poolVars,
         \A m \in LiveMessages' : m \in LiveMessages \/ (m.env = 0 /\ m.alias = 0)
  PROVE  EnvelopeInv'
  <1>1. EnvelopesOf(LiveMessages, pool, envelopes, ip) /\ envelopes \in Nat
    BY CodecAssumption DEF CodecInv, Shape, EnvelopeInv
  <1>2. EnvelopesOf(LiveMessages', pool, envelopes, ip)
    <2> DEFINE live == LiveMessages
               live2 == LiveMessages'
    <2> HIDE DEF live, live2
    <2>1. EnvelopesOf(live2, pool, envelopes, ip)
      BY <1>1, EnvelopesKept DEF live, live2
    <2> QED
      BY <2>1 DEF live2
  <1> QED
    BY <1>2 DEF EnvelopeInv, poolVars

(* The places and the ledger, whatever the call does with its results: it  *)
(* keeps some in its list, and releases the rest.                          *)
LEMMA CodecCalled ==
  ASSUME CodecInv, stack # <<>>, Top.op \in Carriers,
         NEW ks \in Outputs, MakeItems(ks), NEW op \in Codecs, Overlap(op),
         NEW kept, NEW r, r \cup kept = NewItems \cup {Top.msg.item},
         kept \subseteq NewItems, r \cap kept = {},
         Spent(releases, releases', r, {}),
         UNCHANGED <<app, queue, refused>>,
         MessagesIn(stack') = MessagesIn(Base), StackOnce(stack'),
         ListOnce(out.decoder'), ListOnce(out.encoder'),
         op = "decode" => DecoderItems' = kept /\ EncoderItems' = EncoderItems,
         op = "encode" => EncoderItems' = kept /\ DecoderItems' = DecoderItems
  PROVE  SplitInv' /\ LedgerInv'
  <1> DEFINE x == Top.msg.item
             below == ItemsOf(MessagesIn(Base))
             a == AppItems
             q == QueueItems
             d == DecoderItems
             e == EncoderItems
             n == Len(kinds)
             n2 == Len(kinds)'
  <1>1. /\ StackItems = below \cup {x} /\ x \notin below /\ x \in 1 .. n
        /\ x \notin a /\ x \notin q /\ x \notin d /\ x \notin e
    BY TopCarries
  <1>2. /\ AppItems' = a /\ QueueItems' = q /\ StackItems' = below
    BY DEF AppItems, QueueItems, StackItems
  <1>3. HeldItems = a \cup q \cup below \cup {x} \cup d \cup e /\ HeldItems \subseteq 1 .. n
    BY <1>1, ItemsHeld DEF HeldItems
  <1>4. /\ n \in Nat /\ n2 \in Nat /\ n <= n2 /\ n2 <= MaxItems
        /\ refused \subseteq 1 .. n
    BY OutputItems DEF CodecInv, Shape, LedgerInv, Ledger
  <1>5. NewItems \cap (1 .. n) = {}
    BY <1>4 DEF NewItems
  <1>6. Disjoint(a, q, below, d, e)
    BY <1>1 DEF CodecInv, SplitInv, Disjoint
  <1>7. SetOnce(app) /\ QueueOnce(queue)
    BY DEF CodecInv, SplitInv
  <1>8. overlapped \in BOOLEAN /\ overlapped' \in BOOLEAN /\ (overlapped => overlapped')
    BY Zenon DEF Overlap, CodecInv, Shape
  <1>9. ~overlapped' => ~Uses(stack, op)
    BY Zenon DEF Overlap, Uses
  <1>10. (~Uses(stack, "decode") => d = {}) /\ (~Uses(stack, "encode") => e = {})
    BY EmptyList DEF CodecInv, ListInv, DecoderItems, EncoderItems
  <1>11. refused' \subseteq 1 .. n2 /\ refused \subseteq refused' /\ {} \subseteq refused'
    BY <1>4
  <1>12. HeldItems' = a \cup q \cup below \cup DecoderItems' \cup EncoderItems'
    BY <1>2 DEF HeldItems
  <1>13. op = "decode" \/ op = "encode"
    BY DEF Codecs
  <1> HIDE DEF x, below, a, q, d, e, n, n2
  <1>14. /\ Disjoint(a, q, below, DecoderItems', EncoderItems')
         /\ HeldItems' \cup r \subseteq HeldItems \cup NewItems
         /\ HeldItems' \cap r = {}
         /\ ~overlapped' => HeldItems \cup NewItems \subseteq HeldItems' \cup r
    <2>1. kept \cap HeldItems = {} /\ \A i \in r : i = x \/ i \in NewItems
      BY <1>3, <1>5 DEF x
    <2>2. x \in r /\ x \notin kept /\ r \cup kept = NewItems \cup {x} /\ x \in HeldItems
      BY <1>3, <2>1 DEF x
    <2>3. NewItems \cap HeldItems = {}
      BY <1>3, <1>5
    <2>4. CASE op = "decode"
      <3>1. DecoderItems' = kept /\ EncoderItems' = e
        BY <2>4 DEF e
      <3>2. ~overlapped' => d = {}
        BY <1>9, <1>10, <2>4
      <3>3. Disjoint(a, q, below, kept, e)
        BY <1>3, <1>6, <2>1 DEF Disjoint
      <3>4. HeldItems' = a \cup q \cup below \cup kept \cup e
        BY <1>12, <3>1
      <3>5. HeldItems' \cup r \subseteq HeldItems \cup NewItems
        BY <1>3, <2>2, <3>4
      <3>6. HeldItems' \cap r = {}
        BY <1>1, <1>3, <2>1, <2>3, <3>4 DEF below, a, q, d, e, x
      <3>7. ASSUME ~overlapped'
            PROVE  HeldItems \cup NewItems \subseteq HeldItems' \cup r
        BY <1>3, <2>2, <3>2, <3>4, <3>7
      <3> QED
        BY <3>1, <3>3, <3>5, <3>6, <3>7
    <2>5. CASE op = "encode"
      <3>1. EncoderItems' = kept /\ DecoderItems' = d
        BY <2>5 DEF d
      <3>2. ~overlapped' => e = {}
        BY <1>9, <1>10, <2>5
      <3>3. Disjoint(a, q, below, d, kept)
        BY <1>3, <1>6, <2>1 DEF Disjoint
      <3>4. HeldItems' = a \cup q \cup below \cup d \cup kept
        BY <1>12, <3>1
      <3>5. HeldItems' \cup r \subseteq HeldItems \cup NewItems
        BY <1>3, <2>2, <3>4
      <3>6. HeldItems' \cap r = {}
        BY <1>1, <1>3, <2>1, <2>3, <3>4 DEF below, a, q, d, e, x
      <3>7. ASSUME ~overlapped'
            PROVE  HeldItems \cup NewItems \subseteq HeldItems' \cup r
        BY <1>3, <2>2, <3>2, <3>4, <3>7
      <3> QED
        BY <3>1, <3>3, <3>5, <3>6, <3>7
    <2> QED
      BY <1>13, <2>4, <2>5
  <1>15. SplitInv'
    BY <1>2, <1>7, <1>14 DEF SplitInv
  <1>16. LedgerInv'
    <2>1. n2 \in Nat /\ n <= n2 /\ n2 <= MaxItems
      BY <1>4
    <2> QED
      BY <1>8, <1>11, <1>14, <2>1, Settled, Zenon DEF n, n2
  <1> QED
    BY <1>15, <1>16
(* Address.Clone. *)
LEMMA CloneIs ==
  /\ 0 \in 0 .. MaxItems + 1 /\ 1 \in 0 .. MaxItems + 1
  /\ \A m \in MessageType : CloneAddress(m) \in MessageType /\ CloneAddress(m).alias = 0
  <1>1. MaxItems \in Nat /\ MaxEnvelopes \in Nat
    BY CodecAssumption
  <1>2. 0 \in 0 .. MaxEnvelopes /\ 0 \in 0 .. MaxItems + 1 /\ 1 \in 0 .. MaxItems + 1
    BY <1>1
  <1>3. ASSUME NEW m \in MessageType
        PROVE  CloneAddress(m) \in MessageType /\ CloneAddress(m).alias = 0
    BY <1>2 DEF CloneAddress, MessageType
  <1> QED
    BY <1>2, <1>3

(* DecodeDatagram returns an error. *)
LEMMA DecodeFailsStep ==
  ASSUME CodecInv, DecodeFails
  PROVE  CodecInv'
  <1>1. PICK ks \in Outputs : /\ MakeItems(ks)
                              /\ ReleaseItems(Append(MadeItems(ks), Top.msg.item))
                              /\ PutEnvelopes(<<Top.msg>>)
    BY Zenon DEF DecodeFails
  <1>2. /\ stack # <<>> /\ Top.op = "read" /\ Overlap("decode")
        /\ out' = [out EXCEPT !.decoder = <<>>]
        /\ stack' = Append(Base, Handler)
        /\ UNCHANGED <<pooled, remote, ip, envelopes, queue, closed, refused, app>>
    BY DEF DecodeFails, Running, GoOn, Base, modeVars, endVars
  <1>3. Top.op \in Carriers /\ "decode" \in Codecs
    BY <1>2 DEF Carriers, Codecs
  <1>4. /\ Shape /\ kinds \in Seq({"buf", "other"}) /\ Len(kinds) <= MaxItems
        /\ pool \in [Envelopes -> Nat]
    BY DEF CodecInv, Shape
  <1>5. /\ Base \in Seq(Frames) /\ Top.msg.item \in 1 .. Len(kinds)
        /\ StackOnce(Base)
        /\ Uses(stack, "encode") <=> Uses(Base, "encode")
        /\ EncoderItems = WaitingIn(Base, out.encoder, "encode")
    BY <1>2, <1>3, TopCarries
  <1>6. /\ stack' \in Seq(Frames)
        /\ MessagesIn(stack') = MessagesIn(Base) /\ StackOnce(stack')
        /\ Uses(stack', "encode") <=> Uses(Base, "encode")
        /\ WaitingIn(stack', out.encoder, "encode") = WaitingIn(Base, out.encoder, "encode")
    BY <1>2, <1>5, PushHandler DEF SameViews
  <1>7. /\ out' \in [decoder : Seq(Items), encoder : Seq(Items)]
        /\ out.decoder' = <<>> /\ out.encoder' = out.encoder
        /\ Len(out.decoder') <= MaxItems /\ Len(out.encoder') <= MaxItems
        /\ ListOnce(out.decoder')
        /\ \A j \in DOMAIN out.decoder' : out.decoder'[j] <= Len(kinds)'
        /\ DecoderItems' = {}
    BY <1>2, <1>4, ClearDecoder
  <1>8. Spent(releases, releases', NewItems \cup {Top.msg.item}, {})
    BY <1>1, <1>5, FailedReleases
  <1>9. /\ kinds' \in Seq({"buf", "other"}) /\ Len(kinds)' <= MaxItems
        /\ Len(kinds)' \in Nat /\ Len(kinds) <= Len(kinds)'
    BY <1>1, <1>4, OutputItems
  <1>10. LiveMessages' = app \cup ToSet(queue) \cup MessagesIn(Base)
    BY <1>2, <1>6 DEF LiveMessages
  <1>11. EnvelopeInv' /\ pool' \in [Envelopes -> Nat]
    BY <1>1, <1>2, <1>3, <1>10, EnvelopeDropped
  <1>12. overlapped' \in BOOLEAN
    BY <1>2, Zenon DEF Overlap
  <1>13. Shape'
    BY <1>2, <1>4, <1>6, <1>7, <1>8, <1>9, <1>11, <1>12 DEF Shape, Spent
  <1>14. ListInv'
    <2>1. \A j \in DOMAIN out.encoder : out.encoder[j] <= Len(kinds)'
      BY <1>9, ListsBounded
    <2>2. ~Uses(stack', "encode") => out.encoder = <<>>
      BY <1>5, <1>6 DEF CodecInv, ListInv
    <2> QED
      BY <1>7, <2>1, <2>2 DEF ListInv
  <1>15. SplitInv' /\ LedgerInv'
    <2>1. EncoderItems' = EncoderItems
      BY <1>5, <1>6, <1>7 DEF EncoderItems
    <2>2. ListOnce(out.decoder') /\ ListOnce(out.encoder')
      BY <1>7 DEF CodecInv, SplitInv
    <2> DEFINE r == NewItems \cup {Top.msg.item}
               kept == {}
    <2>3. /\ r \cup kept = NewItems \cup {Top.msg.item} /\ kept \subseteq NewItems
          /\ r \cap kept = {}
          /\ Spent(releases, releases', r, {})
      BY <1>8
    <2>4. DecoderItems' = kept /\ EncoderItems' = EncoderItems
      BY <1>7, <2>1
    <2>5. app' = app /\ queue' = queue /\ refused' = refused
      BY <1>2
    <2> HIDE DEF r, kept
    <2> QED
      BY <1>1, <1>2, <1>3, <1>6, <2>2, <2>3, <2>4, <2>5, CodecCalled
  <1> QED
    BY <1>11, <1>13, <1>14, <1>15 DEF CodecInv

(* DecodeDatagram succeeds. *)
LEMMA DecodeStep ==
  ASSUME CodecInv, Decode
  PROVE  CodecInv'
  <1>1. PICK ks \in Outputs : MakeItems(ks) /\ out' = [out EXCEPT !.decoder = MadeItems(ks)]
    BY Zenon DEF Decode
  <1> DEFINE f == Frame("decode", CloneAddress(Top.msg), 1)
  <1>2. /\ stack # <<>> /\ Top.op = "read" /\ Overlap("decode")
        /\ ReleaseAll(<<Top.msg>>)
        /\ stack' = Append(Base, f)
        /\ UNCHANGED <<pooled, remote, ip, envelopes, queue, closed, refused, app>>
    BY DEF Decode, Running, GoOn, Base, modeVars, endVars
  <1>3. Top.op \in Carriers /\ "decode" \in Codecs
    BY <1>2 DEF Carriers, Codecs
  <1>4. /\ Shape /\ kinds \in Seq({"buf", "other"}) /\ Len(kinds) <= MaxItems
        /\ pool \in [Envelopes -> Nat] /\ releases \in [Items -> Nat]
    BY DEF CodecInv, Shape
  <1>5. /\ Base \in Seq(Frames) /\ Top.msg.item \in 1 .. Len(kinds)
        /\ Top.msg \in MessageType /\ Top.msg \in LiveMessages
        /\ StackOnce(Base)
        /\ Uses(stack, "encode") <=> Uses(Base, "encode")
        /\ EncoderItems = WaitingIn(Base, out.encoder, "encode")
    BY <1>2, <1>3, TopCarries
  <1>6. f \in Frames /\ f.op = "decode" /\ f.at = 1
    BY <1>5, CloneIs, FrameIn
  <1> HIDE DEF f
  <1>7. /\ stack' \in Seq(Frames)
        /\ MessagesIn(stack') = MessagesIn(Base) /\ StackOnce(stack')
        /\ Uses(stack', "decode")
        /\ Uses(stack', "encode") <=> Uses(Base, "encode")
        /\ WaitingIn(stack', MadeItems(ks), "decode") = Rest(MadeItems(ks), 1)
        /\ WaitingIn(stack', out.encoder, "encode") = WaitingIn(Base, out.encoder, "encode")
    BY <1>2, <1>5, <1>6, PushDecode
  <1>8. /\ kinds' \in Seq({"buf", "other"}) /\ Len(kinds)' <= MaxItems
        /\ Len(kinds)' \in Nat /\ Len(kinds) <= Len(kinds)'
        /\ MadeItems(ks) \in Seq(Items) /\ Len(MadeItems(ks)) <= MaxItems
        /\ ListOnce(MadeItems(ks))
        /\ \A i : i \in ToSet(MadeItems(ks)) <=> i \in 1 .. Len(kinds)' /\ i > Len(kinds)
        /\ \A j \in DOMAIN MadeItems(ks) : MadeItems(ks)[j] <= Len(kinds)'
    BY <1>1, <1>4, OutputItems
  <1>9. /\ out' \in [decoder : Seq(Items), encoder : Seq(Items)]
        /\ out.decoder' = MadeItems(ks) /\ out.encoder' = out.encoder
        /\ Len(out.decoder') <= MaxItems /\ Len(out.encoder') <= MaxItems
    BY <1>1, <1>4, <1>8, SetDecoder
  <1>10. Spent(releases, releases', {Top.msg.item}, {})
    <2>1. Top.msg.item \in Items
      BY <1>5, ItemsHeld
    <2> QED
      BY <1>2, <1>4, <1>5, <2>1, ReleaseMessage
  <1>11. LiveMessages' = app \cup ToSet(queue) \cup MessagesIn(Base)
    BY <1>2, <1>7 DEF LiveMessages
  <1>12. EnvelopeInv' /\ pool' \in [Envelopes -> Nat]
    <2>1. PutEnvelopes(<<Top.msg>>)
      BY <1>2 DEF ReleaseAll
    <2> QED
      BY <1>2, <1>3, <1>11, <2>1, EnvelopeDropped
  <1>13. overlapped' \in BOOLEAN
    BY <1>2, Zenon DEF Overlap
  <1>14. Shape'
    BY <1>2, <1>4, <1>7, <1>8, <1>9, <1>10, <1>12, <1>13 DEF Shape, Spent
  <1>15. ListInv'
    <2>1. \A j \in DOMAIN out.encoder : out.encoder[j] <= Len(kinds)'
      BY <1>8, ListsBounded
    <2>2. ~Uses(stack', "encode") => out.encoder = <<>>
      BY <1>5, <1>7 DEF CodecInv, ListInv
    <2>3. \A j \in DOMAIN MadeItems(ks) : MadeItems(ks)[j] <= Len(kinds)'
      BY <1>8
    <2> QED
      BY <1>7, <1>9, <2>1, <2>2, <2>3 DEF ListInv
  <1>16. SplitInv' /\ LedgerInv'
    <2>1. DecoderItems' = NewItems
      <3>1. DecoderItems' = ToSet(MadeItems(ks))
        BY <1>7, <1>8, <1>9, RestFacts DEF DecoderItems
      <3>2. \A i : i \in ToSet(MadeItems(ks)) <=> i \in NewItems
        BY <1>8 DEF NewItems
      <3> QED
        BY <3>1, <3>2
    <2>2. EncoderItems' = EncoderItems
      BY <1>5, <1>7, <1>9 DEF EncoderItems
    <2>3. ListOnce(out.decoder') /\ ListOnce(out.encoder')
      BY <1>8, <1>9 DEF CodecInv, SplitInv
    <2> DEFINE r == {Top.msg.item}
               kept == NewItems
    <2>4. Top.msg.item \notin NewItems
      BY <1>5, <1>8 DEF NewItems
    <2>5. /\ r \cup kept = NewItems \cup {Top.msg.item} /\ kept \subseteq NewItems
          /\ r \cap kept = {}
          /\ Spent(releases, releases', r, {})
      BY <1>10, <2>4
    <2>6. DecoderItems' = kept /\ EncoderItems' = EncoderItems
      BY <2>1, <2>2
    <2>7. app' = app /\ queue' = queue /\ refused' = refused
      BY <1>2
    <2> HIDE DEF r, kept
    <2> QED
      BY <1>1, <1>2, <1>3, <1>7, <2>3, <2>5, <2>6, <2>7, CodecCalled
  <1> QED
    BY <1>12, <1>14, <1>15, <1>16 DEF CodecInv

(* EncodeAddressed returns an error. *)
LEMMA EncodeFailsStep ==
  ASSUME CodecInv, EncodeFails
  PROVE  CodecInv'
  <1>1. PICK ks \in Outputs : /\ MakeItems(ks)
                              /\ ReleaseItems(Append(MadeItems(ks), Top.msg.item))
    BY Zenon DEF EncodeFails
  <1>2. /\ stack # <<>> /\ Top.op = "write" /\ Overlap("encode")
        /\ out' = [out EXCEPT !.encoder = <<>>]
        /\ stack' = Base
        /\ UNCHANGED <<pooled, remote, ip, envelopes, queue, closed, refused, app>>
        /\ pool' = pool /\ Top.msg.type = "addressed"
    BY DEF EncodeFails, Running, Return, Base, modeVars, poolVars, endVars
  <1>3. Top.op \in Carriers /\ "encode" \in Codecs
    BY <1>2 DEF Carriers, Codecs
  <1>4. /\ Shape /\ kinds \in Seq({"buf", "other"}) /\ Len(kinds) <= MaxItems
        /\ pool \in [Envelopes -> Nat]
    BY DEF CodecInv, Shape
  <1>5. /\ Base \in Seq(Frames) /\ Top.msg.item \in 1 .. Len(kinds)
        /\ StackOnce(Base)
        /\ Uses(stack, "decode") <=> Uses(Base, "decode")
        /\ DecoderItems = WaitingIn(Base, out.decoder, "decode")
    BY <1>2, <1>3, TopCarries
  <1>6. /\ stack' \in Seq(Frames)
        /\ MessagesIn(stack') = MessagesIn(Base) /\ StackOnce(stack')
        /\ Uses(stack', "decode") <=> Uses(Base, "decode")
        /\ WaitingIn(stack', out.decoder, "decode") = WaitingIn(Base, out.decoder, "decode")
    BY <1>2, <1>5
  <1>7. /\ out' \in [decoder : Seq(Items), encoder : Seq(Items)]
        /\ out.encoder' = <<>> /\ out.decoder' = out.decoder
        /\ Len(out.decoder') <= MaxItems /\ Len(out.encoder') <= MaxItems
        /\ ListOnce(out.encoder')
        /\ \A j \in DOMAIN out.encoder' : out.encoder'[j] <= Len(kinds)'
        /\ EncoderItems' = {}
    BY <1>2, <1>4, ClearEncoder
  <1>8. Spent(releases, releases', NewItems \cup {Top.msg.item}, {})
    BY <1>1, <1>5, FailedReleases
  <1>9. /\ kinds' \in Seq({"buf", "other"}) /\ Len(kinds)' <= MaxItems
        /\ Len(kinds)' \in Nat /\ Len(kinds) <= Len(kinds)'
    BY <1>1, <1>4, OutputItems
  <1>10. LiveMessages' = app \cup ToSet(queue) \cup MessagesIn(Base)
    BY <1>2, <1>6 DEF LiveMessages
  <1>11. EnvelopeInv' /\ pool' \in [Envelopes -> Nat]
    BY <1>2, <1>3, <1>4, <1>10, LiveBelow, EnvelopesStay DEF poolVars
  <1>12. overlapped' \in BOOLEAN
    BY <1>2, Zenon DEF Overlap
  <1>13. Shape'
    BY <1>2, <1>4, <1>6, <1>7, <1>8, <1>9, <1>11, <1>12 DEF Shape, Spent
  <1>14. ListInv'
    <2>1. \A j \in DOMAIN out.decoder : out.decoder[j] <= Len(kinds)'
      BY <1>9, ListsBounded
    <2>2. ~Uses(stack', "decode") => out.decoder = <<>>
      BY <1>5, <1>6 DEF CodecInv, ListInv
    <2> QED
      BY <1>7, <2>1, <2>2 DEF ListInv
  <1>15. SplitInv' /\ LedgerInv'
    <2>1. DecoderItems' = DecoderItems
      BY <1>5, <1>6, <1>7 DEF DecoderItems
    <2>2. ListOnce(out.decoder') /\ ListOnce(out.encoder')
      BY <1>7 DEF CodecInv, SplitInv
    <2> DEFINE r == NewItems \cup {Top.msg.item}
               kept == {}
    <2>3. /\ r \cup kept = NewItems \cup {Top.msg.item} /\ kept \subseteq NewItems
          /\ r \cap kept = {}
          /\ Spent(releases, releases', r, {})
      BY <1>8
    <2>4. EncoderItems' = kept /\ DecoderItems' = DecoderItems
      BY <1>7, <2>1
    <2>5. app' = app /\ queue' = queue /\ refused' = refused
      BY <1>2
    <2> HIDE DEF r, kept
    <2> QED
      BY <1>1, <1>2, <1>3, <1>6, <2>2, <2>3, <2>4, <2>5, CodecCalled
  <1> QED
    BY <1>11, <1>13, <1>14, <1>15 DEF CodecInv

(* EncodeAddressed succeeds. *)
LEMMA EncodeStep ==
  ASSUME CodecInv, Encode
  PROVE  CodecInv'
  <1>1. PICK ks \in Outputs : MakeItems(ks) /\ out' = [out EXCEPT !.encoder = MadeItems(ks)]
    BY Zenon DEF Encode
  <1> DEFINE f == Frame("encode", Top.msg, 1)
  <1>2. /\ stack # <<>> /\ Top.op = "write" /\ Overlap("encode")
        /\ ReleaseItems(<<Top.msg.item>>)
        /\ stack' = Append(Base, f)
        /\ UNCHANGED <<pooled, remote, ip, envelopes, queue, closed, refused, app>>
        /\ pool' = pool /\ Top.msg.type = "addressed"
    BY DEF Encode, Running, GoOn, Base, modeVars, poolVars, endVars
  <1>3. Top.op \in Carriers /\ "encode" \in Codecs
    BY <1>2 DEF Carriers, Codecs
  <1>4. /\ Shape /\ kinds \in Seq({"buf", "other"}) /\ Len(kinds) <= MaxItems
        /\ pool \in [Envelopes -> Nat] /\ releases \in [Items -> Nat]
    BY DEF CodecInv, Shape
  <1>5. /\ Base \in Seq(Frames) /\ Top.msg.item \in 1 .. Len(kinds)
        /\ Top.msg \in MessageType /\ Top.msg \in LiveMessages
        /\ StackOnce(Base)
        /\ Uses(stack, "decode") <=> Uses(Base, "decode")
        /\ DecoderItems = WaitingIn(Base, out.decoder, "decode")
    BY <1>2, <1>3, TopCarries
  <1>6. f \in Frames /\ f.op = "encode" /\ f.at = 1
    <2>1. Top.msg.alias = 0
      BY <1>2, <1>5 DEF CodecInv, EnvelopeInv, EnvelopesOf
    <2> QED
      BY <1>5, <2>1, CloneIs, FrameIn
  <1> HIDE DEF f
  <1>7. /\ stack' \in Seq(Frames)
        /\ MessagesIn(stack') = MessagesIn(Base) /\ StackOnce(stack')
        /\ Uses(stack', "encode")
        /\ Uses(stack', "decode") <=> Uses(Base, "decode")
        /\ WaitingIn(stack', MadeItems(ks), "encode") = Rest(MadeItems(ks), 1)
        /\ WaitingIn(stack', out.decoder, "decode") = WaitingIn(Base, out.decoder, "decode")
    BY <1>2, <1>5, <1>6, PushEncode
  <1>8. /\ kinds' \in Seq({"buf", "other"}) /\ Len(kinds)' <= MaxItems
        /\ Len(kinds)' \in Nat /\ Len(kinds) <= Len(kinds)'
        /\ MadeItems(ks) \in Seq(Items) /\ Len(MadeItems(ks)) <= MaxItems
        /\ ListOnce(MadeItems(ks))
        /\ \A i : i \in ToSet(MadeItems(ks)) <=> i \in 1 .. Len(kinds)' /\ i > Len(kinds)
        /\ \A j \in DOMAIN MadeItems(ks) : MadeItems(ks)[j] <= Len(kinds)'
    BY <1>1, <1>4, OutputItems
  <1>9. /\ out' \in [decoder : Seq(Items), encoder : Seq(Items)]
        /\ out.encoder' = MadeItems(ks) /\ out.decoder' = out.decoder
        /\ Len(out.decoder') <= MaxItems /\ Len(out.encoder') <= MaxItems
    BY <1>1, <1>4, <1>8, SetEncoder
  <1>10. Spent(releases, releases', {Top.msg.item}, {})
    <2>1. Top.msg.item \in Items
      BY <1>5, ItemsHeld
    <2> QED
      BY <1>2, <1>4, <1>5, <2>1, ReleaseOne
  <1>11. LiveMessages' = app \cup ToSet(queue) \cup MessagesIn(Base)
    BY <1>2, <1>7 DEF LiveMessages
  <1>12. EnvelopeInv' /\ pool' \in [Envelopes -> Nat]
    BY <1>2, <1>3, <1>4, <1>11, LiveBelow, EnvelopesStay DEF poolVars
  <1>13. overlapped' \in BOOLEAN
    BY <1>2, Zenon DEF Overlap
  <1>14. Shape'
    BY <1>2, <1>4, <1>7, <1>8, <1>9, <1>10, <1>12, <1>13 DEF Shape, Spent
  <1>15. ListInv'
    <2>1. \A j \in DOMAIN out.decoder : out.decoder[j] <= Len(kinds)'
      BY <1>8, ListsBounded
    <2>2. ~Uses(stack', "decode") => out.decoder = <<>>
      BY <1>5, <1>7 DEF CodecInv, ListInv
    <2>3. \A j \in DOMAIN MadeItems(ks) : MadeItems(ks)[j] <= Len(kinds)'
      BY <1>8
    <2> QED
      BY <1>7, <1>9, <2>1, <2>2, <2>3 DEF ListInv
  <1>16. SplitInv' /\ LedgerInv'
    <2>1. EncoderItems' = NewItems
      <3>1. EncoderItems' = ToSet(MadeItems(ks))
        BY <1>7, <1>8, <1>9, RestFacts DEF EncoderItems
      <3>2. \A i : i \in ToSet(MadeItems(ks)) <=> i \in NewItems
        BY <1>8 DEF NewItems
      <3> QED
        BY <3>1, <3>2
    <2>2. DecoderItems' = DecoderItems
      BY <1>5, <1>7, <1>9 DEF DecoderItems
    <2>3. ListOnce(out.decoder') /\ ListOnce(out.encoder')
      BY <1>8, <1>9 DEF CodecInv, SplitInv
    <2> DEFINE r == {Top.msg.item}
               kept == NewItems
    <2>4. Top.msg.item \notin NewItems
      BY <1>5, <1>8 DEF NewItems
    <2>5. /\ r \cup kept = NewItems \cup {Top.msg.item} /\ kept \subseteq NewItems
          /\ r \cap kept = {}
          /\ Spent(releases, releases', r, {})
      BY <1>10, <2>4
    <2>6. EncoderItems' = kept /\ DecoderItems' = DecoderItems
      BY <2>1, <2>2
    <2>7. app' = app /\ queue' = queue /\ refused' = refused
      BY <1>2
    <2> HIDE DEF r, kept
    <2> QED
      BY <1>1, <1>2, <1>3, <1>7, <2>3, <2>5, <2>6, <2>7, CodecCalled
  <1> QED
    BY <1>12, <1>14, <1>15, <1>16 DEF CodecInv
-----------------------------------------------------------------------------
(* Messages are handed on.                                                 *)

(* AcceptDatagram says no. *)
LEMMA PassDatagramStep ==
  ASSUME CodecInv, PassDatagram
  PROVE  CodecInv'
  <1> DEFINE x == Top.msg.item
             below == ItemsOf(MessagesIn(Base))
  <1>1. /\ stack # <<>> /\ Top.op = "read" /\ app' = app \cup {Top.msg}
        /\ stack' = Append(Base, Handler)
        /\ UNCHANGED <<pooled, remote, ip, pool, envelopes, kinds, releases, queue, closed,
                       refused, out, overlapped>>
    BY DEF PassDatagram, Running, GoOn, Base, modeVars, poolVars, itemVars, endVars
  <1>2. Top.op \in Carriers
    BY <1>1 DEF Carriers
  <1>3. Shape /\ releases \in [Items -> Nat] /\ Len(kinds) \in Nat
    BY DEF CodecInv, Shape
  <1>4. /\ Base \in Seq(Frames) /\ x \in 1 .. Len(kinds)
        /\ Top.msg \in MessageType /\ Top.msg \in LiveMessages
        /\ StackOnce(Base) /\ StackItems = below \cup {x}
        /\ x \notin below /\ x \notin AppItems /\ x \notin QueueItems
        /\ x \notin DecoderItems /\ x \notin EncoderItems
        /\ MessagesIn(stack) = MessagesIn(Base) \cup {Top.msg}
        /\ Uses(stack, "decode") <=> Uses(Base, "decode")
        /\ Uses(stack, "encode") <=> Uses(Base, "encode")
        /\ DecoderItems = WaitingIn(Base, out.decoder, "decode")
        /\ EncoderItems = WaitingIn(Base, out.encoder, "encode")
    BY <1>1, <1>2, TopCarries
  <1>5. /\ stack' \in Seq(Frames)
        /\ MessagesIn(stack') = MessagesIn(Base) /\ StackOnce(stack')
        /\ Uses(stack', "decode") <=> Uses(Base, "decode")
        /\ Uses(stack', "encode") <=> Uses(Base, "encode")
        /\ WaitingIn(stack', out.decoder, "decode") = WaitingIn(Base, out.decoder, "decode")
        /\ WaitingIn(stack', out.encoder, "encode") = WaitingIn(Base, out.encoder, "encode")
    BY <1>1, <1>4, PushHandler DEF SameViews
  <1>6. /\ AppItems' = AppItems \cup {x} /\ QueueItems' = QueueItems /\ StackItems' = below
        /\ DecoderItems' = DecoderItems /\ EncoderItems' = EncoderItems
    BY <1>1, <1>4, <1>5, ItemsPlus
    DEF AppItems, QueueItems, StackItems, DecoderItems, EncoderItems
  <1>7. Shape'
    BY <1>1, <1>3, <1>4, <1>5 DEF Shape
  <1>8. SplitInv'
    <2>1. Disjoint(AppItems, QueueItems, StackItems, DecoderItems, EncoderItems)'
      BY <1>4, <1>6 DEF Disjoint, CodecInv, SplitInv
    <2>2. SetOnce(app')
      BY <1>1, <1>4, OnceWith DEF AppItems, CodecInv, SplitInv
    <2> QED
      BY <1>1, <1>5, <2>1, <2>2 DEF CodecInv, SplitInv
  <1>9. ListInv'
    BY <1>1, <1>4, <1>5 DEF CodecInv, ListInv
  <1>10. LedgerInv'
    <2>1. HeldItems' \cup {} = HeldItems /\ HeldItems' \cap {} = {}
      BY <1>4, <1>6 DEF HeldItems
    <2>2. Spent(releases, releases', {}, {})
      BY <1>1, <1>3, NothingSpent
    <2>3. refused \subseteq 1 .. Len(kinds)
      BY DEF CodecInv, LedgerInv, Ledger
    <2> QED
      BY <1>1, <2>1, <2>2, <2>3, SettledOld
  <1>11. EnvelopeInv'
    <2>1. LiveMessages' = LiveMessages
      BY <1>1, <1>4, <1>5 DEF LiveMessages
    <2> QED
      BY <1>1, <2>1, EnvelopesStay DEF poolVars
  <1> QED
    BY <1>7, <1>8, <1>9, <1>10, <1>11 DEF CodecInv

(* Two frames on a stack, pushed at once. *)
LEMMA PushTwo ==
  ASSUME NEW F, NEW s \in Seq(F), NEW f \in F, NEW g \in F
  PROVE  s \o <<f, g>> = Append(Append(s, f), g)
  <1> DEFINE t == s \o <<f, g>>
             u == Append(Append(s, f), g)
  <1>1. /\ t \in Seq(F) /\ Len(t) = Len(s) + 2 /\ Len(s) \in Nat
        /\ \A j \in 1 .. Len(s) : t[j] = s[j]
        /\ t[Len(s) + 1] = f /\ t[Len(s) + 2] = g
    OBVIOUS
  <1>2. /\ u \in Seq(F) /\ Len(u) = Len(s) + 2
        /\ \A j \in 1 .. Len(s) : u[j] = s[j]
        /\ u[Len(s) + 1] = f /\ u[Len(s) + 2] = g
    OBVIOUS
  <1> HIDE DEF t, u
  <1>3. ASSUME NEW j \in 1 .. Len(t)
        PROVE  t[j] = u[j]
    <2>1. j \in 1 .. Len(s) \/ j = Len(s) + 1 \/ j = Len(s) + 2
      BY <1>1
    <2> QED
      BY <1>1, <1>2, <2>1
  <1>4. t = u
    BY <1>1, <1>2, <1>3, SeqEqual
  <1> QED
    BY <1>4 DEF t, u

(* What a codec takes from its list next.                                  *)
LEMMA NextOfList ==
  ASSUME CodecInv, NEW l \in Seq(Items), ListOnce(l), Len(l) <= MaxItems,
         NEW f \in Frames, f.op \in Codecs, f.at <= Len(l)
  PROVE  /\ f.at \in DOMAIN l /\ f.at + 1 \in 0 .. MaxItems + 1
         /\ l[f.at] \in Items /\ l[f.at] \in Rest(l, f.at)
         /\ Rest(l, f.at + 1) = Rest(l, f.at) \ {l[f.at]}
         /\ f.msg \in MessageType /\ f.msg.alias = 0 /\ f.msg.peer \in Peers
  <1>1. f.at \in 0 .. MaxItems + 1 /\ f.at > 0 /\ f.msg.alias = 0 /\ f.msg \in MessageType
    BY DEF Frames, FrameType
  <1>2. Len(l) \in Nat /\ DOMAIN l = 1 .. Len(l) /\ MaxItems \in Nat
    BY RestFacts, CodecAssumption
  <1>3. f.at \in DOMAIN l /\ f.at + 1 \in 0 .. MaxItems + 1
    BY <1>1, <1>2
  <1>4. f.msg.peer \in Peers
    BY <1>1 DEF MessageType
  <1> QED
    BY <1>1, <1>3, <1>4, RestFacts

(* The decoder hands on the next message. *)
LEMMA DecodeNextStep ==
  ASSUME CodecInv, DecodeNext
  PROVE  CodecInv'
  <1> DEFINE i == out.decoder[Top.at]
             m == Message("addressed", i, 0, Top.msg.alias, Top.msg.peer)
             f == Frame("decode", Top.msg, Top.at + 1)
  <1>1. /\ stack # <<>> /\ Top.op = "decode" /\ Top.at <= Len(out.decoder)
        /\ app' = app \cup {m}
        /\ stack' = Base \o <<f, Handler>>
        /\ UNCHANGED <<pooled, remote, ip, pool, envelopes, kinds, releases, queue, closed,
                       refused, out, overlapped>>
    BY DEF DecodeNext, Running, Base, modeVars, poolVars, itemVars, endVars
  <1>2. /\ Shape /\ releases \in [Items -> Nat] /\ Len(kinds) \in Nat
        /\ out.decoder \in Seq(Items) /\ Len(out.decoder) <= MaxItems
        /\ ListOnce(out.decoder)
    BY DEF CodecInv, Shape, SplitInv
  <1>3. /\ Base \in Seq(Frames) /\ Top \in Frames
        /\ MessagesIn(stack) = MessagesIn(Base)
        /\ StackOnce(Base)
        /\ Uses(stack, "encode") <=> Uses(Base, "encode")
        /\ DecoderItems = Rest(out.decoder, Top.at)
        /\ EncoderItems = WaitingIn(Base, out.encoder, "encode")
    BY <1>1, TopDecodes
  <1>4. /\ Top.at + 1 \in 0 .. MaxItems + 1 /\ Top.at + 1 > 0
        /\ i \in Items /\ i \in DecoderItems
        /\ Rest(out.decoder, Top.at + 1) = DecoderItems \ {i}
        /\ Top.msg \in MessageType /\ Top.msg.alias = 0 /\ Top.msg.peer \in Peers
    <2>1. Top.op \in Codecs
      BY <1>1 DEF Codecs
    <2>2. Top.at > 0 /\ Top.at \in Int
      BY <1>3, <2>1 DEF Frames, FrameType
    <2>3. Top.at + 1 > 0
      BY <2>2
    <2> DEFINE t == Top
    <2>4. t \in Frames /\ t.op \in Codecs /\ t.at <= Len(out.decoder)
      BY <1>1, <1>3, <2>1
    <2> HIDE DEF t
    <2>5. /\ t.at + 1 \in 0 .. MaxItems + 1
          /\ out.decoder[t.at] \in Items /\ out.decoder[t.at] \in Rest(out.decoder, t.at)
          /\ Rest(out.decoder, t.at + 1) = Rest(out.decoder, t.at) \ {out.decoder[t.at]}
          /\ t.msg \in MessageType /\ t.msg.alias = 0 /\ t.msg.peer \in Peers
      BY <1>2, <2>4, NextOfList
    <2> QED
      BY <1>3, <2>3, <2>5 DEF t
  <1>5. f \in Frames /\ f.op = "decode" /\ f.at = Top.at + 1
    BY <1>4, FrameIn
  <1>6. /\ m \in MessageType /\ m.item = i /\ m.env = 0 /\ m.alias = 0
    BY <1>4, CodecAssumption DEF Message, MessageType, Items
  <1> DEFINE x == Top.at + 1
  <1> HIDE DEF i, m, f, x
  <1>7. stack' = Append(Append(Base, f), Handler)
    BY <1>1, <1>3, <1>5, HandlerFrame, PushTwo
  <1>8. /\ Append(Base, f) \in Seq(Frames)
        /\ MessagesIn(Append(Base, f)) = MessagesIn(Base)
        /\ StackOnce(Append(Base, f)) <=> StackOnce(Base)
        /\ Uses(Append(Base, f), "decode")
        /\ Uses(Append(Base, f), "encode") <=> Uses(Base, "encode")
        /\ WaitingIn(Append(Base, f), out.decoder, "decode") = Rest(out.decoder, f.at)
        /\ WaitingIn(Append(Base, f), out.encoder, "encode") =
             WaitingIn(Base, out.encoder, "encode")
    BY <1>3, <1>5, PushDecode
  <1>9. /\ stack' \in Seq(Frames)
        /\ MessagesIn(stack') = MessagesIn(Base) /\ StackOnce(stack')
        /\ Uses(stack', "decode")
        /\ Uses(stack', "encode") <=> Uses(Base, "encode")
        /\ WaitingIn(stack', out.decoder, "decode") = DecoderItems \ {i}
        /\ WaitingIn(stack', out.encoder, "encode") = EncoderItems
    BY <1>3, <1>4, <1>5, <1>7, <1>8, PushHandler DEF SameViews
  <1>10. /\ AppItems' = AppItems \cup {i} /\ QueueItems' = QueueItems
         /\ StackItems' = StackItems
         /\ DecoderItems' = DecoderItems \ {i} /\ EncoderItems' = EncoderItems
    BY <1>1, <1>3, <1>6, <1>9, ItemsPlus
    DEF AppItems, QueueItems, StackItems, DecoderItems, EncoderItems
  <1>11. Shape'
    BY <1>1, <1>2, <1>6, <1>9 DEF Shape
  <1>12. SplitInv'
    <2>1. Disjoint(AppItems, QueueItems, StackItems, DecoderItems, EncoderItems)'
      BY <1>4, <1>10 DEF Disjoint, CodecInv, SplitInv
    <2>2. i \notin AppItems
      BY <1>4 DEF CodecInv, SplitInv, Disjoint
    <2>3. SetOnce(app')
      BY <1>1, <1>6, <2>2, OnceWith DEF AppItems, CodecInv, SplitInv
    <2> QED
      BY <1>1, <1>9, <2>1, <2>3 DEF CodecInv, SplitInv
  <1>13. ListInv'
    BY <1>1, <1>3, <1>9 DEF CodecInv, ListInv
  <1>14. LedgerInv'
    <2>1. HeldItems' \cup {} = HeldItems /\ HeldItems' \cap {} = {}
      BY <1>4, <1>10 DEF HeldItems
    <2>2. Spent(releases, releases', {}, {})
      BY <1>1, <1>2, NothingSpent
    <2>3. refused \subseteq 1 .. Len(kinds)
      BY DEF CodecInv, LedgerInv, Ledger
    <2> QED
      BY <1>1, <2>1, <2>2, <2>3, SettledOld
  <1>15. EnvelopeInv'
    <2>1. LiveMessages' = LiveMessages \cup {m}
      BY <1>1, <1>3, <1>9 DEF LiveMessages
    <2> QED
      BY <1>1, <1>6, <2>1, EnvelopesStay DEF poolVars
  <1> QED
    BY <1>11, <1>12, <1>13, <1>14, <1>15 DEF CodecInv
(* The decoder has handed on its whole list. *)
LEMMA DecodeDoneStep ==
  ASSUME CodecInv, DecodeDone
  PROVE  CodecInv'
  <1>1. /\ stack # <<>> /\ Top.op = "decode" /\ Top.at > Len(out.decoder)
        /\ out' = [out EXCEPT !.decoder = <<>>]
        /\ stack' = Base
        /\ UNCHANGED <<pooled, remote, ip, pool, envelopes, kinds, releases, queue, closed,
                       refused, app, overlapped>>
    BY DEF DecodeDone, Running, Return, Base, modeVars, poolVars, itemVars, endVars
  <1>2. /\ Shape /\ releases \in [Items -> Nat] /\ Len(kinds) \in Nat
        /\ out.decoder \in Seq(Items)
    BY DEF CodecInv, Shape
  <1>3. /\ Base \in Seq(Frames) /\ Top \in Frames
        /\ MessagesIn(stack) = MessagesIn(Base)
        /\ StackOnce(Base)
        /\ Uses(stack, "encode") <=> Uses(Base, "encode")
        /\ DecoderItems = Rest(out.decoder, Top.at)
        /\ EncoderItems = WaitingIn(Base, out.encoder, "encode")
    BY <1>1, TopDecodes
  <1>4. /\ out' \in [decoder : Seq(Items), encoder : Seq(Items)]
        /\ out.decoder' = <<>> /\ out.encoder' = out.encoder
        /\ Len(out.decoder') <= MaxItems /\ Len(out.encoder') <= MaxItems
        /\ ListOnce(out.decoder')
        /\ \A j \in DOMAIN out.decoder' : out.decoder'[j] <= Len(kinds)'
        /\ DecoderItems' = {}
    BY <1>1, <1>2, ClearDecoder
  <1>5. DecoderItems = {}
    <2>1. Top.at \in Nat
      BY <1>3, CodecAssumption DEF Frames, FrameType
    <2> QED
      BY <1>1, <1>2, <1>3, <2>1, RestFacts
  <1>6. EncoderItems' = EncoderItems
    BY <1>1, <1>3, <1>4 DEF EncoderItems
  <1>7. AppItems' = AppItems /\ QueueItems' = QueueItems /\ StackItems' = StackItems
    BY <1>1, <1>3 DEF AppItems, QueueItems, StackItems
  <1>8. Shape'
    BY <1>1, <1>2, <1>3, <1>4 DEF Shape
  <1>9. SplitInv'
    <2>1. Disjoint(AppItems, QueueItems, StackItems, DecoderItems, EncoderItems)'
      BY <1>4, <1>6, <1>7 DEF Disjoint, CodecInv, SplitInv
    <2> QED
      BY <1>1, <1>3, <1>4, <2>1 DEF CodecInv, SplitInv
  <1>10. ListInv'
    <2>1. \A j \in DOMAIN out.encoder : out.encoder[j] <= Len(kinds)'
      BY <1>1, <1>2, ListsBounded
    <2>2. ~Uses(stack', "encode") => out.encoder = <<>>
      BY <1>1, <1>3 DEF CodecInv, ListInv
    <2> QED
      BY <1>4, <2>1, <2>2 DEF ListInv
  <1>11. LedgerInv'
    <2>1. HeldItems' \cup {} = HeldItems /\ HeldItems' \cap {} = {}
      BY <1>4, <1>5, <1>6, <1>7 DEF HeldItems
    <2>2. Spent(releases, releases', {}, {})
      BY <1>1, <1>2, NothingSpent
    <2>3. refused \subseteq 1 .. Len(kinds)
      BY DEF CodecInv, LedgerInv, Ledger
    <2> QED
      BY <1>1, <2>1, <2>2, <2>3, SettledOld
  <1>12. EnvelopeInv'
    <2>1. LiveMessages' = LiveMessages
      BY <1>1, <1>3 DEF LiveMessages
    <2> QED
      BY <1>1, <2>1, EnvelopesStay DEF poolVars
  <1> QED
    BY <1>8, <1>9, <1>10, <1>11, <1>12 DEF CodecInv

(* The encoder has handed on its whole list. *)
LEMMA EncodeDoneStep ==
  ASSUME CodecInv, EncodeDone
  PROVE  CodecInv'
  <1>1. /\ stack # <<>> /\ Top.op = "encode" /\ Top.at > Len(out.encoder)
        /\ out' = [out EXCEPT !.encoder = <<>>]
        /\ stack' = Base
        /\ UNCHANGED <<pooled, remote, ip, pool, envelopes, kinds, releases, queue, closed,
                       refused, app, overlapped>>
    BY DEF EncodeDone, Running, Return, Base, modeVars, poolVars, itemVars, endVars
  <1>2. /\ Shape /\ releases \in [Items -> Nat] /\ Len(kinds) \in Nat
        /\ out.encoder \in Seq(Items)
    BY DEF CodecInv, Shape
  <1>3. /\ Base \in Seq(Frames) /\ Top \in Frames
        /\ MessagesIn(stack) = MessagesIn(Base)
        /\ StackOnce(Base)
        /\ Uses(stack, "decode") <=> Uses(Base, "decode")
        /\ EncoderItems = Rest(out.encoder, Top.at)
        /\ DecoderItems = WaitingIn(Base, out.decoder, "decode")
    BY <1>1, TopEncodes
  <1>4. /\ out' \in [decoder : Seq(Items), encoder : Seq(Items)]
        /\ out.encoder' = <<>> /\ out.decoder' = out.decoder
        /\ Len(out.decoder') <= MaxItems /\ Len(out.encoder') <= MaxItems
        /\ ListOnce(out.encoder')
        /\ \A j \in DOMAIN out.encoder' : out.encoder'[j] <= Len(kinds)'
        /\ EncoderItems' = {}
    BY <1>1, <1>2, ClearEncoder
  <1>5. EncoderItems = {}
    <2>1. Top.at \in Nat
      BY <1>3, CodecAssumption DEF Frames, FrameType
    <2> QED
      BY <1>1, <1>2, <1>3, <2>1, RestFacts
  <1>6. DecoderItems' = DecoderItems
    BY <1>1, <1>3, <1>4 DEF DecoderItems
  <1>7. AppItems' = AppItems /\ QueueItems' = QueueItems /\ StackItems' = StackItems
    BY <1>1, <1>3 DEF AppItems, QueueItems, StackItems
  <1>8. Shape'
    BY <1>1, <1>2, <1>3, <1>4 DEF Shape
  <1>9. SplitInv'
    <2>1. Disjoint(AppItems, QueueItems, StackItems, DecoderItems, EncoderItems)'
      BY <1>4, <1>6, <1>7 DEF Disjoint, CodecInv, SplitInv
    <2> QED
      BY <1>1, <1>3, <1>4, <2>1 DEF CodecInv, SplitInv
  <1>10. ListInv'
    <2>1. \A j \in DOMAIN out.decoder : out.decoder[j] <= Len(kinds)'
      BY <1>1, <1>2, ListsBounded
    <2>2. ~Uses(stack', "decode") => out.decoder = <<>>
      BY <1>1, <1>3 DEF CodecInv, ListInv
    <2> QED
      BY <1>4, <2>1, <2>2 DEF ListInv
  <1>11. LedgerInv'
    <2>1. HeldItems' \cup {} = HeldItems /\ HeldItems' \cap {} = {}
      BY <1>4, <1>5, <1>6, <1>7 DEF HeldItems
    <2>2. Spent(releases, releases', {}, {})
      BY <1>1, <1>2, NothingSpent
    <2>3. refused \subseteq 1 .. Len(kinds)
      BY DEF CodecInv, LedgerInv, Ledger
    <2> QED
      BY <1>1, <2>1, <2>2, <2>3, SettledOld
  <1>12. EnvelopeInv'
    <2>1. LiveMessages' = LiveMessages
      BY <1>1, <1>3 DEF LiveMessages
    <2> QED
      BY <1>1, <2>1, EnvelopesStay DEF poolVars
  <1> QED
    BY <1>8, <1>9, <1>10, <1>11, <1>12 DEF CodecInv

(* A handler returns. *)
LEMMA HandlerReturnsStep ==
  ASSUME CodecInv, HandlerReturns
  PROVE  CodecInv'
  <1>1. /\ stack # <<>> /\ Top.op = "handler" /\ stack' = Base
        /\ UNCHANGED <<pooled, remote, ip, pool, envelopes, kinds, releases, queue, closed,
                       refused, app, out, overlapped>>
    BY DEF HandlerReturns, Running, Return, Base, modeVars, poolVars, itemVars, endVars
  <1>2. Shape /\ releases \in [Items -> Nat] /\ Len(kinds) \in Nat
    BY DEF CodecInv, Shape
  <1>3. /\ Base \in Seq(Frames)
        /\ MessagesIn(stack) = MessagesIn(Base)
        /\ StackOnce(Base)
        /\ Uses(stack, "decode") <=> Uses(Base, "decode")
        /\ Uses(stack, "encode") <=> Uses(Base, "encode")
        /\ DecoderItems = WaitingIn(Base, out.decoder, "decode")
        /\ EncoderItems = WaitingIn(Base, out.encoder, "encode")
    <2> DEFINE b == Base
               f == Top
    <2>1. /\ b \in Seq(Frames) /\ f \in Frames /\ stack = Append(b, f)
          /\ f.op \notin Carriers /\ f.op # "decode" /\ f.op # "encode"
      BY <1>1, <1>2, OnBase DEF Carriers
    <2> HIDE DEF b, f
    <2>2. MessagesIn(stack) = MessagesIn(b)
      <3>1. MessagesIn(stack) = MessagesIn(b) \cup (IF f.op \in Carriers THEN {f.msg} ELSE {})
        BY <2>1, PushMessages
      <3> QED
        BY <2>1, <3>1
    <2>3. StackOnce(stack) <=> StackOnce(b)
      BY <2>1, PushOnce
    <2>4. /\ Uses(stack, "decode") <=> Uses(b, "decode")
          /\ Uses(stack, "encode") <=> Uses(b, "encode")
      BY <2>1, PushUses
    <2>5. /\ WaitingIn(stack, out.decoder, "decode") = WaitingIn(b, out.decoder, "decode")
          /\ WaitingIn(stack, out.encoder, "encode") = WaitingIn(b, out.encoder, "encode")
      BY <2>1, PushWaiting
    <2>6. StackOnce(stack)
      BY DEF CodecInv, SplitInv
    <2> QED
      BY <2>1, <2>2, <2>3, <2>4, <2>5, <2>6 DEF b, f, DecoderItems, EncoderItems
  <1>4. /\ AppItems' = AppItems /\ QueueItems' = QueueItems /\ StackItems' = StackItems
        /\ DecoderItems' = DecoderItems /\ EncoderItems' = EncoderItems
    BY <1>1, <1>3 DEF AppItems, QueueItems, StackItems, DecoderItems, EncoderItems
  <1>5. Shape'
    BY <1>1, <1>2, <1>3 DEF Shape
  <1>6. SplitInv'
    <2>1. Disjoint(AppItems, QueueItems, StackItems, DecoderItems, EncoderItems)'
      BY <1>4 DEF CodecInv, SplitInv
    <2> QED
      BY <1>1, <1>3, <2>1 DEF CodecInv, SplitInv
  <1>7. ListInv'
    BY <1>1, <1>3 DEF CodecInv, ListInv
  <1>8. LedgerInv'
    BY <1>1, <1>4 DEF CodecInv, LedgerInv, HeldItems
  <1>9. EnvelopeInv'
    <2>1. LiveMessages' = LiveMessages
      BY <1>1, <1>3 DEF LiveMessages
    <2> QED
      BY <1>1, <2>1, EnvelopesStay DEF poolVars
  <1> QED
    BY <1>5, <1>6, <1>7, <1>8, <1>9 DEF CodecInv

-----------------------------------------------------------------------------
(* The application and the endpoint let go of messages.                    *)

(* The application releases a message. *)
LEMMA AppReleasesStep ==
  ASSUME CodecInv, NEW m \in app, AppReleases(m)
  PROVE  CodecInv'
  <1>1. /\ app' = app \ {m} /\ ReleaseAll(<<m>>)
        /\ UNCHANGED <<pooled, remote, ip, envelopes, kinds, queue, closed, refused, out,
                       stack, overlapped>>
    BY DEF AppReleases, modeVars, endVars
  <1>2. /\ Shape /\ releases \in [Items -> Nat] /\ Len(kinds) \in Nat
        /\ pool \in [Envelopes -> Nat] /\ envelopes \in 0 .. MaxEnvelopes
        /\ SetOnce(app)
        /\ EnvelopesOf(LiveMessages, pool, envelopes, ip)
    BY DEF CodecInv, Shape, SplitInv, EnvelopeInv
  <1>3. m \in LiveMessages /\ m \in MessageType /\ m.item \in Items /\ m.item \in AppItems
        /\ LiveMessages \subseteq MessageType
    <2>1. m \in LiveMessages
      BY DEF LiveMessages
    <2> QED
      BY <2>1, ItemsHeld
  <1>4. Spent(releases, releases', {m.item}, {}) /\ Put(pool, pool', {m})
    BY <1>1, <1>2, <1>3, ReleaseMessage
  <1>5. /\ AppItems' = AppItems \ {m.item} /\ SetOnce(app')
        /\ QueueItems' = QueueItems /\ StackItems' = StackItems
        /\ DecoderItems' = DecoderItems /\ EncoderItems' = EncoderItems
    BY <1>1, <1>2, ItemsMinus
    DEF AppItems, QueueItems, StackItems, DecoderItems, EncoderItems
  <1>6. Shape'
    BY <1>1, <1>2, <1>4 DEF Shape, Spent, Put
  <1>7. SplitInv'
    <2>1. Disjoint(AppItems, QueueItems, StackItems, DecoderItems, EncoderItems)'
      BY <1>5 DEF Disjoint, CodecInv, SplitInv
    <2> QED
      BY <1>1, <1>5, <2>1 DEF CodecInv, SplitInv
  <1>8. ListInv'
    BY <1>1 DEF CodecInv, ListInv
  <1>9. m.item \notin QueueItems \cup StackItems \cup DecoderItems \cup EncoderItems
    BY <1>3 DEF CodecInv, SplitInv, Disjoint
  <1>10. LedgerInv'
    <2>1. HeldItems' \cup {m.item} = HeldItems /\ HeldItems' \cap {m.item} = {}
      BY <1>3, <1>5, <1>9 DEF HeldItems
    <2>2. refused \subseteq 1 .. Len(kinds)
      BY DEF CodecInv, LedgerInv, Ledger
    <2> QED
      BY <1>1, <1>4, <2>1, <2>2, SettledOld
  <1>11. EnvelopeInv'
    <2>1. m \notin ToSet(queue) /\ m \notin MessagesIn(stack)
      BY <1>9, ItemsHeld
    <2>2. \A k \in LiveMessages' : k \in LiveMessages /\ k \notin {m}
      BY <1>1, <2>1 DEF LiveMessages
    <2> DEFINE live == LiveMessages
               live2 == LiveMessages'
               ms == {m}
    <2>3. ms \subseteq live /\ live \subseteq MessageType
      BY <1>3
    <2> HIDE DEF live, live2, ms
    <2>4. EnvelopesOf(live2, pool', envelopes, ip)
      BY <1>2, <1>4, <2>2, <2>3, EnvelopesPut DEF live, live2, ms
    <2> QED
      BY <1>1, <2>4 DEF live2, EnvelopeInv
  <1> QED
    BY <1>6, <1>7, <1>8, <1>10, <1>11 DEF CodecInv

(* The application writes a message it holds. *)
LEMMA AppWritesStep ==
  ASSUME CodecInv, NEW m \in app, AppWrites(m)
  PROVE  CodecInv'
  <1> DEFINE f == Frame("write", m, 0)
  <1>1. /\ app' = app \ {m} /\ stack' = Append(stack, f)
        /\ UNCHANGED <<pooled, remote, ip, pool, envelopes, kinds, releases, queue, closed,
                       refused, out, overlapped>>
    BY DEF AppWrites, modeVars, poolVars, itemVars, endVars
  <1>2. /\ Shape /\ releases \in [Items -> Nat] /\ Len(kinds) \in Nat
        /\ stack \in Seq(Frames) /\ SetOnce(app) /\ StackOnce(stack)
    BY DEF CodecInv, Shape, SplitInv
  <1>3. m \in LiveMessages /\ m \in MessageType /\ m.item \in AppItems
    <2>1. m \in LiveMessages
      BY DEF LiveMessages
    <2> QED
      BY <2>1, ItemsHeld
  <1>4. f \in Frames /\ f.op \in Carriers /\ f.msg = m
    BY <1>3, CloneIs, FrameIn DEF Carriers, Codecs
  <1> HIDE DEF f
  <1>5. m.item \notin QueueItems \cup StackItems \cup DecoderItems \cup EncoderItems
    BY <1>3 DEF CodecInv, SplitInv, Disjoint
  <1>6. /\ stack' \in Seq(Frames)
        /\ MessagesIn(stack') = MessagesIn(stack) \cup {m}
        /\ StackOnce(stack')
        /\ Uses(stack', "decode") <=> Uses(stack, "decode")
        /\ Uses(stack', "encode") <=> Uses(stack, "encode")
        /\ DecoderItems' = DecoderItems /\ EncoderItems' = EncoderItems
    <2>1. m.item \notin ItemsOf(MessagesIn(stack))
      BY <1>5 DEF StackItems
    <2>2. /\ Append(stack, f) \in Seq(Frames)
          /\ MessagesIn(Append(stack, f)) = MessagesIn(stack) \cup {f.msg}
          /\ StackOnce(Append(stack, f)) <=>
               StackOnce(stack) /\ f.msg.item \notin ItemsOf(MessagesIn(stack))
          /\ \A op \in Codecs : Uses(Append(stack, f), op) <=> Uses(stack, op)
          /\ \A op \in Codecs : \A l :
               WaitingIn(Append(stack, f), l, op) = WaitingIn(stack, l, op)
      BY <1>2, <1>4, PushCarrier
    <2>3. /\ Uses(stack', "decode") <=> Uses(stack, "decode")
          /\ Uses(stack', "encode") <=> Uses(stack, "encode")
      BY <1>1, <2>2 DEF Codecs
    <2>4. DecoderItems' = DecoderItems /\ EncoderItems' = EncoderItems
      BY <1>1, <2>2 DEF Codecs, DecoderItems, EncoderItems
    <2> QED
      BY <1>1, <1>2, <1>4, <2>1, <2>2, <2>3, <2>4
  <1>7. /\ AppItems' = AppItems \ {m.item} /\ SetOnce(app')
        /\ QueueItems' = QueueItems /\ StackItems' = StackItems \cup {m.item}
    BY <1>1, <1>2, <1>6, ItemsMinus, ItemsPlus DEF AppItems, QueueItems, StackItems
  <1>8. Shape'
    BY <1>1, <1>2, <1>6 DEF Shape
  <1>9. SplitInv'
    <2>1. Disjoint(AppItems, QueueItems, StackItems, DecoderItems, EncoderItems)'
      BY <1>5, <1>6, <1>7 DEF Disjoint, CodecInv, SplitInv
    <2> QED
      BY <1>1, <1>6, <1>7, <2>1 DEF CodecInv, SplitInv
  <1>10. ListInv'
    BY <1>1, <1>6 DEF CodecInv, ListInv
  <1>11. LedgerInv'
    <2>1. HeldItems' = HeldItems
      BY <1>3, <1>6, <1>7 DEF HeldItems
    <2> QED
      BY <1>1, <2>1 DEF CodecInv, LedgerInv
  <1>12. EnvelopeInv'
    <2>1. \A k \in LiveMessages' : k \in LiveMessages
      BY <1>1, <1>3, <1>6 DEF LiveMessages
    <2> QED
      BY <1>1, <2>1, EnvelopesStay DEF poolVars
  <1> QED
    BY <1>8, <1>9, <1>10, <1>11, <1>12 DEF CodecInv

(* A datagram is sent. *)
LEMMA DequeueStep ==
  ASSUME CodecInv, Dequeue
  PROVE  CodecInv'
  <1> DEFINE m == Head(queue)
  <1>1. /\ queue # <<>> /\ queue' = Tail(queue) /\ ReleaseAll(<<m>>)
        /\ UNCHANGED <<pooled, remote, ip, envelopes, kinds, app, closed, refused, out,
                       stack, overlapped>>
    BY DEF Dequeue, modeVars
  <1>2. /\ Shape /\ releases \in [Items -> Nat] /\ Len(kinds) \in Nat
        /\ pool \in [Envelopes -> Nat] /\ envelopes \in 0 .. MaxEnvelopes
        /\ queue \in Seq(QueuedType) /\ QueueOnce(queue)
        /\ EnvelopesOf(LiveMessages, pool, envelopes, ip)
    BY DEF CodecInv, Shape, SplitInv, EnvelopeInv
  <1>3. /\ queue' \in Seq(QueuedType) /\ m \in ToSet(queue)
        /\ \A k : k \in ToSet(queue') <=> k \in ToSet(queue) /\ k.item # m.item
        /\ QueueOnce(queue')
    BY <1>1, <1>2, DequeuedSet
  <1> HIDE DEF m
  <1>4. m \in LiveMessages /\ m \in MessageType /\ m.item \in Items /\ m.item \in QueueItems
        /\ LiveMessages \subseteq MessageType
    <2>1. m \in LiveMessages
      BY <1>3 DEF LiveMessages
    <2> QED
      BY <1>3, <2>1, ItemsHeld
  <1>5. Spent(releases, releases', {m.item}, {}) /\ Put(pool, pool', {m})
    BY <1>1, <1>2, <1>4, ReleaseMessage
  <1>6. QueueItems' = QueueItems \ {m.item}
    <2>1. \A k : k \in ToSet(queue') <=> k \in ToSet(queue) /\ k.item # m.item
      BY <1>3
    <2>2. QueueItems' = ItemsOf(ToSet(queue'))
      BY DEF QueueItems
    <2> DEFINE after == ToSet(queue')
               before == ToSet(queue)
    <2> HIDE DEF after, before
    <2>3. ItemsOf(after) = ItemsOf(before) \ {m.item}
      <3>1. \A k : k \in after <=> k \in before /\ k.item # m.item
        BY <2>1 DEF after, before
      <3>2. ASSUME NEW x \in ItemsOf(after)
            PROVE  x \in ItemsOf(before) \ {m.item}
        BY <3>1 DEF ItemsOf
      <3>3. ASSUME NEW x \in ItemsOf(before), x # m.item
            PROVE  x \in ItemsOf(after)
        <4>1. PICK k \in before : x = k.item
          BY DEF ItemsOf
        <4>2. k \in after
          BY <3>1, <3>3, <4>1
        <4> QED
          BY <4>1, <4>2 DEF ItemsOf
      <3> QED
        BY <3>2, <3>3
    <2> QED
      BY <2>2, <2>3 DEF QueueItems, after, before
  <1>7. /\ AppItems' = AppItems /\ StackItems' = StackItems
        /\ DecoderItems' = DecoderItems /\ EncoderItems' = EncoderItems
    BY <1>1 DEF AppItems, StackItems, DecoderItems, EncoderItems
  <1>8. Shape'
    BY <1>1, <1>2, <1>3, <1>5 DEF Shape, Spent, Put
  <1>9. SplitInv'
    <2>1. Disjoint(AppItems, QueueItems, StackItems, DecoderItems, EncoderItems)'
      BY <1>6, <1>7 DEF Disjoint, CodecInv, SplitInv
    <2> QED
      BY <1>1, <1>3, <2>1 DEF CodecInv, SplitInv
  <1>10. ListInv'
    BY <1>1 DEF CodecInv, ListInv
  <1>11. m.item \notin AppItems \cup StackItems \cup DecoderItems \cup EncoderItems
    BY <1>4 DEF CodecInv, SplitInv, Disjoint
  <1>12. LedgerInv'
    <2>1. HeldItems' \cup {m.item} = HeldItems /\ HeldItems' \cap {m.item} = {}
      BY <1>4, <1>6, <1>7, <1>11 DEF HeldItems
    <2>2. refused \subseteq 1 .. Len(kinds)
      BY DEF CodecInv, LedgerInv, Ledger
    <2> QED
      BY <1>1, <1>5, <2>1, <2>2, SettledOld
  <1>13. EnvelopeInv'
    <2>1. m \notin app /\ m \notin MessagesIn(stack)
      BY <1>11, ItemsHeld
    <2>2. \A k \in LiveMessages' : k \in LiveMessages /\ k \notin {m}
      BY <1>1, <1>3, <2>1 DEF LiveMessages
    <2> DEFINE live == LiveMessages
               live2 == LiveMessages'
               ms == {m}
    <2>3. ms \subseteq live /\ live \subseteq MessageType
      BY <1>4
    <2> HIDE DEF live, live2, ms
    <2>4. EnvelopesOf(live2, pool', envelopes, ip)
      BY <1>2, <1>5, <2>2, <2>3, EnvelopesPut DEF live, live2, ms
    <2> QED
      BY <1>1, <2>4 DEF live2, EnvelopeInv
  <1> QED
    BY <1>8, <1>9, <1>10, <1>12, <1>13 DEF CodecInv

(* The endpoint is closed: what is queued is released. *)
LEMMA CloseStep ==
  ASSUME CodecInv, Close
  PROVE  CodecInv'
  <1> DEFINE is == [j \in DOMAIN queue |-> queue[j].item]
  <1>1. /\ queue' = <<>> /\ closed' = TRUE /\ ReleaseItems(is) /\ PutEnvelopes(queue)
        /\ UNCHANGED <<pooled, remote, ip, envelopes, kinds, app, refused, out, stack,
                       overlapped>>
    BY DEF Close, ReleaseAll, modeVars
  <1>2. /\ Shape /\ releases \in [Items -> Nat] /\ Len(kinds) \in Nat
        /\ pool \in [Envelopes -> Nat] /\ envelopes \in 0 .. MaxEnvelopes
        /\ queue \in Seq(QueuedType) /\ QueueOnce(queue)
        /\ EnvelopesOf(LiveMessages, pool, envelopes, ip)
    BY DEF CodecInv, Shape, SplitInv, EnvelopeInv
  <1>3. /\ Len(queue) \in Nat /\ DOMAIN queue = 1 .. Len(queue)
        /\ \A j \in DOMAIN queue : queue[j] \in MessageType /\ queue[j] \in ToSet(queue)
    BY <1>2 DEF QueuedType, ToSet
  <1>4. \A j \in DOMAIN queue : queue[j].item \in Items
    BY <1>3, ItemsHeld DEF LiveMessages
  <1>5. is \in [1 .. Len(queue) -> Items]
    BY <1>3, <1>4
  <1>6. is \in Seq(Items) /\ DOMAIN is = DOMAIN queue
        /\ \A j \in DOMAIN queue : is[j] = queue[j].item
    BY <1>3, <1>5, IsASeq
  <1> HIDE DEF is
  <1>7. ListOnce(is) /\ ToSet(is) = QueueItems
    <2>1. ListOnce(is)
      BY <1>2, <1>6, Zenon DEF ListOnce, QueueOnce
    <2>2. \A i : i \in ToSet(is) <=> i \in QueueItems
      BY <1>6, Zenon DEF ToSet, QueueItems, ItemsOf
    <2> QED
      BY <2>1, <2>2
  <1>8. Spent(releases, releases', QueueItems, {})
    BY <1>1, <1>2, <1>6, <1>7, ReleasesSpendOnce
  <1>9. Put(pool, pool', ToSet(queue))
    <2>1. queue \in Seq(MessageType)
      BY <1>2, <1>3
    <2>2. ASSUME NEW j \in DOMAIN queue, NEW k \in DOMAIN queue,
                 queue[j].env = queue[k].env, queue[j].env # 0
          PROVE  j = k
      <3>1. queue[j] \in LiveMessages /\ queue[k] \in LiveMessages
        BY <1>3 DEF LiveMessages
      <3>2. queue[j] = queue[k]
        BY <1>2, <2>2, <3>1 DEF EnvelopesOf
      <3> QED
        BY <1>2, <3>2 DEF QueueOnce
    <2> QED
      BY <1>1, <1>2, <2>1, <2>2, PutsOnce
  <1>10. QueueItems' = {} /\ ToSet(queue') = {} /\ QueueOnce(queue')
         /\ queue' \in Seq(QueuedType)
    BY <1>1, EmptyList DEF QueueItems, ItemsOf, QueueOnce
  <1>11. /\ AppItems' = AppItems /\ StackItems' = StackItems
         /\ DecoderItems' = DecoderItems /\ EncoderItems' = EncoderItems
    BY <1>1 DEF AppItems, StackItems, DecoderItems, EncoderItems
  <1>12. Shape'
    BY <1>1, <1>2, <1>8, <1>9, <1>10 DEF Shape, Spent, Put
  <1>13. SplitInv'
    <2>1. Disjoint(AppItems, QueueItems, StackItems, DecoderItems, EncoderItems)'
      BY <1>10, <1>11 DEF Disjoint, CodecInv, SplitInv
    <2> QED
      BY <1>1, <1>10, <2>1 DEF CodecInv, SplitInv
  <1>14. ListInv'
    BY <1>1 DEF CodecInv, ListInv
  <1>15. QueueItems \cap (AppItems \cup StackItems \cup DecoderItems \cup EncoderItems) = {}
    BY DEF CodecInv, SplitInv, Disjoint
  <1>16. LedgerInv'
    <2>1. HeldItems' \cup QueueItems = HeldItems /\ HeldItems' \cap QueueItems = {}
      BY <1>10, <1>11, <1>15 DEF HeldItems
    <2>2. refused \subseteq 1 .. Len(kinds)
      BY DEF CodecInv, LedgerInv, Ledger
    <2> QED
      BY <1>1, <1>8, <2>1, <2>2, SettledOld
  <1>17. EnvelopeInv'
    <2>1. \A k \in app \cup MessagesIn(stack) : k \notin ToSet(queue)
      BY <1>15, ItemsHeld
    <2>2. \A k \in LiveMessages' : k \in LiveMessages /\ k \notin ToSet(queue)
      BY <1>1, <1>10, <2>1 DEF LiveMessages
    <2> DEFINE live == LiveMessages
               live2 == LiveMessages'
               ms == ToSet(queue)
    <2>3. ms \subseteq live /\ live \subseteq MessageType
      BY ItemsHeld DEF LiveMessages
    <2> HIDE DEF live, live2, ms
    <2>4. EnvelopesOf(live2, pool', envelopes, ip)
      BY <1>2, <1>9, <2>2, <2>3, EnvelopesPut DEF live, live2, ms
    <2> QED
      BY <1>1, <2>4 DEF live2, EnvelopeInv
  <1> QED
    BY <1>12, <1>13, <1>14, <1>16, <1>17 DEF CodecInv
-----------------------------------------------------------------------------
(* endpoint.Write.                                                         *)

(* A message as a datagram.                                                *)
LEMMA DatagramIs ==
  ASSUME NEW m \in MessageType
  PROVE  /\ AsDatagram(m) \in MessageType
         /\ AsDatagram(m).item = m.item /\ AsDatagram(m).env = m.env
         /\ AsDatagram(m).alias = m.alias /\ AsDatagram(m).peer = m.peer
         /\ AsDatagram(m).type = "datagram"
         /\ AsDatagram(AsDatagram(m)) = AsDatagram(m)
  BY DEF AsDatagram, MessageType

(* What is queued has a valid address.                                     *)
LEMMA QueuedIs ==
  ASSUME NEW m \in MessageType, ~Refuses(m), m.alias # 0 => ip[m.alias] = m.peer
  PROVE  AsDatagram(m) \in QueuedType
  <1>1. m.peer # NoPeer
    BY DEF Refuses, AddrOf
  <1> QED
    BY <1>1, DatagramIs DEF QueuedType

(* The running write is over, and its message is gone: refused, whatever   *)
(* was released how often.                                                 *)
LEMMA WriteRefused ==
  ASSUME CodecInv, stack # <<>>, Top.op = "write",
         NEW twice, Spent(releases, releases', {Top.msg.item}, twice),
         twice \subseteq {Top.msg.item},
         refused' = refused \cup {Top.msg.item}, stack' = Base,
         pool' \in [Envelopes -> Nat],
         UNCHANGED <<pooled, remote, ip, envelopes, kinds, app, queue, closed, out, overlapped>>
  PROVE  /\ Shape' /\ SplitInv' /\ ListInv' /\ LedgerInv'
         /\ LiveMessages' = app \cup ToSet(queue) \cup MessagesIn(Base)
  <1> DEFINE x == Top.msg.item
             below == ItemsOf(MessagesIn(Base))
  <1>1. Top.op \in Carriers
    BY DEF Carriers
  <1>2. Shape /\ Len(kinds) \in Nat
    BY DEF CodecInv, Shape
  <1>3. /\ Base \in Seq(Frames) /\ x \in 1 .. Len(kinds)
        /\ StackOnce(Base) /\ StackItems = below \cup {x}
        /\ x \notin below /\ x \notin AppItems /\ x \notin QueueItems
        /\ x \notin DecoderItems /\ x \notin EncoderItems
        /\ Uses(stack, "decode") <=> Uses(Base, "decode")
        /\ Uses(stack, "encode") <=> Uses(Base, "encode")
        /\ DecoderItems = WaitingIn(Base, out.decoder, "decode")
        /\ EncoderItems = WaitingIn(Base, out.encoder, "encode")
    BY <1>1, TopCarries
  <1>4. /\ AppItems' = AppItems /\ QueueItems' = QueueItems /\ StackItems' = below
        /\ DecoderItems' = DecoderItems /\ EncoderItems' = EncoderItems
    BY <1>3 DEF AppItems, QueueItems, StackItems, DecoderItems, EncoderItems
  <1>5. Shape'
    BY <1>2, <1>3 DEF Shape, Spent
  <1>6. SplitInv'
    <2>1. Disjoint(AppItems, QueueItems, StackItems, DecoderItems, EncoderItems)'
      BY <1>3, <1>4 DEF Disjoint, CodecInv, SplitInv
    <2> QED
      BY <1>3, <2>1 DEF CodecInv, SplitInv
  <1>7. ListInv'
    BY <1>3 DEF CodecInv, ListInv
  <1>8. LedgerInv'
    <2>1. HeldItems' \cup {x} = HeldItems /\ HeldItems' \cap {x} = {}
      BY <1>3, <1>4 DEF HeldItems
    <2>2. /\ refused' \subseteq 1 .. Len(kinds) /\ refused \subseteq refused'
          /\ twice \subseteq refused'
      BY <1>3 DEF CodecInv, LedgerInv, Ledger
    <2> QED
      BY <2>1, <2>2, SettledOld
  <1>9. LiveMessages' = app \cup ToSet(queue) \cup MessagesIn(Base)
    BY DEF LiveMessages
  <1> QED
    BY <1>5, <1>6, <1>7, <1>8, <1>9

(* The running write is over, and its message is in the queue.             *)
LEMMA WriteAccepted ==
  ASSUME CodecInv, stack # <<>>, Top.op = "write",
         queue' = Append(queue, AsDatagram(Top.msg)), AsDatagram(Top.msg) \in QueuedType,
         stack' \in {Base, Append(Base, Handler)},
         UNCHANGED <<pooled, remote, ip, pool, envelopes, kinds, releases, refused, app,
                     closed, out, overlapped>>
  PROVE  CodecInv'
  <1> DEFINE x == Top.msg.item
             d == AsDatagram(Top.msg)
             below == ItemsOf(MessagesIn(Base))
  <1>1. Top.op \in Carriers
    BY DEF Carriers
  <1>2. /\ Shape /\ releases \in [Items -> Nat] /\ Len(kinds) \in Nat
        /\ queue \in Seq(QueuedType) /\ QueueOnce(queue)
        /\ EnvelopesOf(LiveMessages, pool, envelopes, ip)
    BY DEF CodecInv, Shape, SplitInv, EnvelopeInv
  <1>3. /\ Base \in Seq(Frames) /\ x \in 1 .. Len(kinds)
        /\ Top.msg \in MessageType /\ Top.msg \in LiveMessages
        /\ StackOnce(Base) /\ StackItems = below \cup {x}
        /\ x \notin below /\ x \notin AppItems /\ x \notin QueueItems
        /\ x \notin DecoderItems /\ x \notin EncoderItems
        /\ Uses(stack, "decode") <=> Uses(Base, "decode")
        /\ Uses(stack, "encode") <=> Uses(Base, "encode")
        /\ DecoderItems = WaitingIn(Base, out.decoder, "decode")
        /\ EncoderItems = WaitingIn(Base, out.encoder, "encode")
    BY <1>1, TopCarries
  <1>4. /\ stack' \in Seq(Frames)
        /\ MessagesIn(stack') = MessagesIn(Base) /\ StackOnce(stack')
        /\ Uses(stack', "decode") <=> Uses(Base, "decode")
        /\ Uses(stack', "encode") <=> Uses(Base, "encode")
        /\ WaitingIn(stack', out.decoder, "decode") = WaitingIn(Base, out.decoder, "decode")
        /\ WaitingIn(stack', out.encoder, "encode") = WaitingIn(Base, out.encoder, "encode")
    <2>1. CASE stack' = Base
      BY <1>3, <2>1
    <2>2. CASE stack' = Append(Base, Handler)
      BY <1>3, <2>2, PushHandler DEF SameViews
    <2> QED
      BY <2>1, <2>2
  <1>5. d.item = x
    BY <1>3, DatagramIs
  <1>6. /\ queue' \in Seq(QueuedType) /\ ToSet(queue') = ToSet(queue) \cup {d}
        /\ QueueOnce(queue')
    <2>1. d.item \notin ItemsOf(ToSet(queue))
      BY <1>3, <1>5 DEF QueueItems
    <2> HIDE DEF d
    <2> QED
      BY <1>2, <2>1, EnqueuedSet DEF d
  <1>7. /\ AppItems' = AppItems /\ QueueItems' = QueueItems \cup {x} /\ StackItems' = below
        /\ DecoderItems' = DecoderItems /\ EncoderItems' = EncoderItems
    <2>1. QueueItems' = QueueItems \cup {d.item}
      BY <1>6, ItemsPlus DEF QueueItems
    <2> QED
      BY <1>3, <1>4, <1>5, <2>1 DEF AppItems, StackItems, DecoderItems, EncoderItems
  <1>8. Shape'
    BY <1>2, <1>4, <1>6 DEF Shape
  <1>9. SplitInv'
    <2>1. Disjoint(AppItems, QueueItems, StackItems, DecoderItems, EncoderItems)'
      BY <1>3, <1>7 DEF Disjoint, CodecInv, SplitInv
    <2> QED
      BY <1>4, <1>6, <2>1 DEF CodecInv, SplitInv
  <1>10. ListInv'
    BY <1>3, <1>4 DEF CodecInv, ListInv
  <1>11. LedgerInv'
    <2>1. HeldItems' = HeldItems
      BY <1>3, <1>7 DEF HeldItems
    <2> QED
      BY <2>1 DEF CodecInv, LedgerInv
  <1>12. EnvelopeInv'
    <2>1. \A k \in app \cup ToSet(queue) \cup MessagesIn(Base) : k \in LiveMessages /\ k # Top.msg
      BY <1>1, LiveBelow
    <2>2. \A k \in LiveMessages' : (k \in LiveMessages /\ k # Top.msg) \/ k = d
      BY <1>4, <1>6, <2>1 DEF LiveMessages
    <2> DEFINE live == LiveMessages
               live2 == LiveMessages'
               m == Top.msg
    <2>3. /\ EnvelopesOf(live, pool, envelopes, ip) /\ m \in live /\ m \in MessageType
          /\ \A k \in live2 : (k \in live /\ k # m) \/ k = AsDatagram(m)
      BY <1>2, <1>3, <2>2
    <2> HIDE DEF live, live2, m
    <2>4. EnvelopesOf(live2, pool, envelopes, ip)
      BY <2>3, EnvelopesMoved
    <2> QED
      BY <2>4 DEF live2, EnvelopeInv
  <1> QED
    BY <1>8, <1>9, <1>10, <1>11, <1>12 DEF CodecInv

(* What an address says of a live message. *)
LEMMA LiveAddress ==
  ASSUME CodecInv, NEW m \in LiveMessages
  PROVE  /\ m.alias # 0 => ip[m.alias] = m.peer
         /\ m.type = "addressed" => m.env = 0 /\ m.alias = 0
  BY DEF CodecInv, EnvelopeInv, EnvelopesOf

(* The encoder passes a message on as it is. *)
LEMMA PassMessageStep ==
  ASSUME CodecInv, PassMessage
  PROVE  CodecInv'
  <1>1. /\ stack # <<>> /\ Top.op = "write"
        /\ UNCHANGED <<pooled, remote, ip, envelopes, kinds, app, out, overlapped>>
    BY DEF PassMessage, Running, modeVars
  <1>2. Top.op \in Carriers
    BY <1>1 DEF Carriers
  <1>3. Top.msg \in MessageType /\ Top.msg \in LiveMessages /\ Top.msg.item \in Items
    BY <1>1, <1>2, TopCarries, ItemsHeld
  <1>4. releases \in [Items -> Nat] /\ pool \in [Envelopes -> Nat]
    BY DEF CodecInv, Shape
  <1>5. CASE Enqueue(Top.msg, Base) /\ UNCHANGED <<releases, pool>>
    <2>1. /\ queue' = Append(queue, AsDatagram(Top.msg))
          /\ stack' \in {Base, Append(Base, Handler)}
          /\ UNCHANGED <<closed, refused, releases, pool>>
          /\ ~Refuses(Top.msg)
      BY <1>5 DEF Enqueue
    <2>2. Top.msg.alias # 0 => ip[Top.msg.alias] = Top.msg.peer
      BY <1>3, LiveAddress
    <2>3. AsDatagram(Top.msg) \in QueuedType
      BY <1>3, <2>1, <2>2, QueuedIs
    <2> QED
      BY <1>1, <2>1, <2>3, WriteAccepted
  <1>6. CASE Refuse(Top.msg) /\ ReleaseAll(<<Top.msg>>) /\ stack' = Base
    <2>1. /\ refused' = refused \cup {Top.msg.item} /\ queue' = queue /\ closed' = closed
          /\ stack' = Base
      BY <1>6 DEF Refuse
    <2>2. Spent(releases, releases', {Top.msg.item}, {}) /\ Put(pool, pool', {Top.msg})
      BY <1>3, <1>4, <1>6, ReleaseMessage
    <2>3. pool' \in [Envelopes -> Nat] /\ PutEnvelopes(<<Top.msg>>)
      BY <1>6, <2>2 DEF Put, ReleaseAll
    <2>4. /\ Shape' /\ SplitInv' /\ ListInv' /\ LedgerInv'
          /\ LiveMessages' = app \cup ToSet(queue) \cup MessagesIn(Base)
      <3> DEFINE twice == {}
      <3>1. Spent(releases, releases', {Top.msg.item}, twice) /\ twice \subseteq {Top.msg.item}
        BY <2>2
      <3> HIDE DEF twice
      <3> QED
        BY <1>1, <2>1, <2>3, <3>1, WriteRefused
    <2>5. EnvelopeInv'
      BY <1>1, <1>2, <2>3, <2>4, EnvelopeDropped
    <2> QED
      BY <2>4, <2>5 DEF CodecInv
  <1> QED
    BY <1>5, <1>6 DEF PassMessage, Return, Base

(* The encoder makes a datagram of an addressed buffer. *)
LEMMA ForwardPayloadStep ==
  ASSUME CodecInv, ForwardPayload
  PROVE  CodecInv'
  <1> DEFINE d == AsDatagram(Top.msg)
  <1>1. /\ stack # <<>> /\ Top.op = "write" /\ Top.msg.type = "addressed"
        /\ UNCHANGED <<pooled, remote, ip, pool, envelopes, kinds, app, out, overlapped>>
        /\ \/ Enqueue(d, Base) /\ UNCHANGED releases
           \/ Refuse(d) /\ ReleaseItems(<<d.item, d.item>>) /\ stack' = Base
    BY DEF ForwardPayload, Running, Return, Base, modeVars, poolVars
  <1>2. Top.op \in Carriers
    BY <1>1 DEF Carriers
  <1>3. Top.msg \in MessageType /\ Top.msg \in LiveMessages /\ Top.msg.item \in Items
    BY <1>1, <1>2, TopCarries, ItemsHeld
  <1>4. releases \in [Items -> Nat] /\ pool \in [Envelopes -> Nat]
    BY DEF CodecInv, Shape
  <1>5. /\ d \in MessageType /\ d.item = Top.msg.item /\ d.alias = Top.msg.alias
        /\ d.peer = Top.msg.peer /\ AsDatagram(d) = d
    BY <1>3, DatagramIs
  <1> DEFINE e == AsDatagram(Top.msg)
  <1>6. CASE Enqueue(d, Base) /\ UNCHANGED releases
    <2>1. /\ queue' = Append(queue, d)
          /\ stack' \in {Base, Append(Base, Handler)}
          /\ UNCHANGED <<closed, refused, releases>>
          /\ ~Refuses(d)
      BY <1>5, <1>6 DEF Enqueue
    <2>2. d.alias # 0 => ip[d.alias] = d.peer
      BY <1>3, <1>5, LiveAddress
    <2>3. d \in QueuedType
      <3> HIDE DEF d
      <3>1. AsDatagram(d) \in QueuedType
        BY <1>5, <2>1, <2>2, QueuedIs
      <3> QED
        BY <1>5, <3>1
    <2> QED
      BY <1>1, <2>1, <2>3, WriteAccepted
  <1>7. CASE Refuse(d) /\ ReleaseItems(<<d.item, d.item>>) /\ stack' = Base
    <2>1. /\ refused' = refused \cup {Top.msg.item} /\ queue' = queue /\ closed' = closed
          /\ stack' = Base
      BY <1>5, <1>7 DEF Refuse
    <2>2. Spent(releases, releases', {Top.msg.item}, {Top.msg.item})
      <3> DEFINE i == Top.msg.item
                 is == <<i, i>>
      <3>1. /\ is \in Seq(Items) /\ DOMAIN is = {1, 2} /\ is[1] = i /\ is[2] = i
        BY <1>3
      <3>2. ReleaseItems(is)
        BY <1>5, <1>7
      <3>3. i \in Items
        BY <1>3
      <3> HIDE DEF is, i
      <3>4. ToSet(is) = {i}
        BY <3>1 DEF ToSet
      <3>5. /\ \A j, k \in DOMAIN is : is[j] = is[k] => j = k \/ is[j] \in {i}
            /\ \A j, k \in DOMAIN is : is[j] = is[k] => j = k \/ j = 1 \/ k = 1
        BY <3>1
      <3>6. Spent(releases, releases', ToSet(is), {i})
        BY <1>4, <3>1, <3>2, <3>5, ReleasesSpend
      <3> QED
        BY <3>4, <3>6 DEF i
    <2>3. /\ Shape' /\ SplitInv' /\ ListInv' /\ LedgerInv'
          /\ LiveMessages' = app \cup ToSet(queue) \cup MessagesIn(Base)
      <3>1. pool' \in [Envelopes -> Nat]
        BY <1>1, <1>4
      <3> QED
        BY <1>1, <2>1, <2>2, <3>1, WriteRefused
    <2>4. EnvelopeInv'
      BY <1>1, <1>2, <2>3, LiveBelow, EnvelopesStay DEF poolVars
    <2> QED
      BY <2>3, <2>4 DEF CodecInv
  <1> QED
    BY <1>1, <1>6, <1>7
(* What is left of a list when the codec stops at a position.              *)
LEMMA RestIs ==
  ASSUME NEW l \in Seq(Items), ListOnce(l), NEW at \in DOMAIN l
  PROVE  /\ SubSeq(l, at, Len(l)) \in Seq(Items)
         /\ ListOnce(SubSeq(l, at, Len(l)))
         /\ ToSet(SubSeq(l, at, Len(l))) = Rest(l, at)
         /\ SubSeq(l, at, Len(l))[1] = l[at]
         /\ SubSeq(l, at, Len(l)) # <<>>
  <1> DEFINE t == SubSeq(l, at, Len(l))
  <1>1. Len(l) \in Nat /\ DOMAIN l = 1 .. Len(l) /\ \A j \in DOMAIN l : l[j] \in Items
    OBVIOUS
  <1>2. /\ Len(t) = Len(l) - at + 1
        /\ \A j \in 1 .. Len(l) - at + 1 : t[j] = l[at + j - 1]
        /\ t \in Seq(Items)
    BY <1>1
  <1>3. DOMAIN t = 1 .. Len(l) - at + 1
    BY <1>2, LenProperties
  <1> HIDE DEF t
  <1>4. ListOnce(t)
    <2>1. ASSUME NEW j \in DOMAIN t, NEW k \in DOMAIN t, t[j] = t[k]
          PROVE  j = k
      <3>1. /\ at + j - 1 \in DOMAIN l /\ at + k - 1 \in DOMAIN l
            /\ l[at + j - 1] = l[at + k - 1]
        BY <1>1, <1>2, <1>3, <2>1
      <3>2. at + j - 1 = at + k - 1
        BY <3>1 DEF ListOnce
      <3> QED
        BY <1>1, <1>3, <3>2
    <2> QED
      BY <2>1 DEF ListOnce
  <1>5. ASSUME NEW i
        PROVE  i \in ToSet(t) <=> i \in Rest(l, at)
    <2>1. ASSUME i \in ToSet(t)
          PROVE  i \in Rest(l, at)
      <3>1. PICK j \in DOMAIN t : i = t[j]
        BY <2>1 DEF ToSet
      <3>2. at + j - 1 \in DOMAIN l /\ at + j - 1 >= at /\ i = l[at + j - 1]
        BY <1>1, <1>2, <1>3, <3>1
      <3> QED
        BY <3>2 DEF Rest
    <2>2. ASSUME i \in Rest(l, at)
          PROVE  i \in ToSet(t)
      <3>1. PICK j \in DOMAIN l : j >= at /\ i = l[j]
        BY <2>2 DEF Rest
      <3> DEFINE k == j - at + 1
      <3>2. k \in 1 .. Len(l) - at + 1 /\ at + k - 1 = j
        BY <1>1, <3>1
      <3> HIDE DEF k
      <3>3. t[k] = l[at + k - 1]
        BY <1>2, <3>2
      <3>4. t[k] = i
        BY <3>1, <3>2, <3>3
      <3> QED
        BY <1>3, <3>2, <3>4 DEF ToSet
    <2> QED
      BY <2>1, <2>2
  <1>6. t[1] = l[at] /\ t # <<>>
    BY <1>1, <1>2
  <1> QED
    BY <1>2, <1>4, <1>5, <1>6 DEF t

(* The first of a list is released by the endpoint, and with the rest.     *)
LEMMA ReleasedWithRest ==
  ASSUME NEW l \in Seq(Items), l # <<>>, ListOnce(l), NEW i, i = l[1],
         releases \in [Items -> Nat], ReleaseItems(<<i>> \o l)
  PROVE  Spent(releases, releases', ToSet(l), {i})
  <1> DEFINE is == <<i>> \o l
  <1>1. Len(l) \in Nat /\ Len(l) > 0 /\ DOMAIN l = 1 .. Len(l) /\ i \in Items
    BY EmptySeq, LenProperties
  <1>2. /\ is \in Seq(Items) /\ Len(is) = Len(l) + 1 /\ is[1] = i
        /\ \A j \in 1 .. Len(l) : is[j + 1] = l[j]
    BY <1>1
  <1>3. DOMAIN is = 1 .. Len(l) + 1
    BY <1>2, LenProperties
  <1>4. ReleaseItems(is)
    OBVIOUS
  <1> HIDE DEF is
  <1>5. ASSUME NEW j \in DOMAIN is, j # 1
        PROVE  j - 1 \in DOMAIN l /\ is[j] = l[j - 1]
    <2>1. j - 1 \in 1 .. Len(l)
      BY <1>1, <1>3, <1>5
    <2>2. j \in Nat /\ (j - 1) + 1 = j
      BY <1>1, <1>3
    <2> DEFINE k == j - 1
    <2>3. k \in 1 .. Len(l) /\ k + 1 = j
      BY <2>1, <2>2
    <2> HIDE DEF k
    <2>4. is[k + 1] = l[k]
      BY <1>2, <2>3
    <2>5. is[j] = l[k]
      BY <2>3, <2>4
    <2> QED
      BY <1>1, <2>3, <2>5 DEF k
  <1>6. ASSUME NEW j \in DOMAIN is, NEW k \in DOMAIN is, is[j] = is[k], j # 1, k # 1
        PROVE  j = k
    <2>1. j - 1 = k - 1
      BY <1>5, <1>6 DEF ListOnce
    <2> QED
      BY <1>1, <1>3, <2>1
  <1>7. \A j, k \in DOMAIN is : is[j] = is[k] => j = k \/ is[j] \in {i}
    BY <1>2, <1>6
  <1>8. \A j, k \in DOMAIN is : is[j] = is[k] => j = k \/ j = 1 \/ k = 1
    BY <1>6
  <1>9. ToSet(is) = ToSet(l)
    <2>1. ASSUME NEW y, y \in ToSet(is)
          PROVE  y \in ToSet(l)
      <3>1. PICK j \in DOMAIN is : y = is[j]
        BY <2>1 DEF ToSet
      <3>2. CASE j = 1
        BY <1>1, <1>2, <3>1, <3>2 DEF ToSet
      <3>3. CASE j # 1
        BY <1>5, <3>1, <3>3 DEF ToSet
      <3> QED
        BY <3>2, <3>3
    <2>2. ASSUME NEW y, y \in ToSet(l)
          PROVE  y \in ToSet(is)
      <3>1. PICK j \in DOMAIN l : y = l[j]
        BY <2>2 DEF ToSet
      <3>2. j + 1 \in DOMAIN is /\ is[j + 1] = y
        BY <1>1, <1>2, <1>3, <3>1
      <3> QED
        BY <3>2 DEF ToSet
    <2> QED
      BY <2>1, <2>2
  <1> QED
    BY <1>2, <1>4, <1>7, <1>8, <1>9, ReleasesSpend

(* The encoder stops: what is left of its list is released.                *)
LEMMA EncodeStops ==
  ASSUME CodecInv, stack # <<>>, Top.op = "encode",
         out' = [out EXCEPT !.encoder = <<>>], stack' = Base,
         NEW twice, Spent(releases, releases', EncoderItems, twice), twice \subseteq EncoderItems,
         refused' = refused \cup twice,
         UNCHANGED <<pooled, remote, ip, pool, envelopes, kinds, queue, closed, app, overlapped>>
  PROVE  CodecInv'
  <1>1. /\ Shape /\ releases \in [Items -> Nat] /\ Len(kinds) \in Nat
    BY DEF CodecInv, Shape
  <1>2. /\ Base \in Seq(Frames) /\ Top \in Frames
        /\ MessagesIn(stack) = MessagesIn(Base)
        /\ StackOnce(Base)
        /\ Uses(stack, "decode") <=> Uses(Base, "decode")
        /\ DecoderItems = WaitingIn(Base, out.decoder, "decode")
    BY TopEncodes
  <1>3. /\ out' \in [decoder : Seq(Items), encoder : Seq(Items)]
        /\ out.encoder' = <<>> /\ out.decoder' = out.decoder
        /\ Len(out.decoder') <= MaxItems /\ Len(out.encoder') <= MaxItems
        /\ ListOnce(out.encoder')
        /\ \A j \in DOMAIN out.encoder' : out.encoder'[j] <= Len(kinds)'
        /\ EncoderItems' = {}
    BY <1>1, ClearEncoder
  <1>4. DecoderItems' = DecoderItems
    BY <1>2, <1>3 DEF DecoderItems
  <1>5. AppItems' = AppItems /\ QueueItems' = QueueItems /\ StackItems' = StackItems
    BY <1>2 DEF AppItems, QueueItems, StackItems
  <1>6. Shape'
    BY <1>1, <1>2, <1>3 DEF Shape, Spent
  <1>7. SplitInv'
    <2>1. Disjoint(AppItems, QueueItems, StackItems, DecoderItems, EncoderItems)'
      BY <1>3, <1>4, <1>5 DEF Disjoint, CodecInv, SplitInv
    <2> QED
      BY <1>2, <1>3, <2>1 DEF CodecInv, SplitInv
  <1>8. ListInv'
    <2>1. \A j \in DOMAIN out.decoder : out.decoder[j] <= Len(kinds)'
      BY <1>1, ListsBounded
    <2>2. ~Uses(stack', "decode") => out.decoder = <<>>
      BY <1>2 DEF CodecInv, ListInv
    <2> QED
      BY <1>3, <2>1, <2>2 DEF ListInv
  <1>9. LedgerInv'
    <2>1. EncoderItems \cap (AppItems \cup QueueItems \cup StackItems \cup DecoderItems) = {}
      BY DEF CodecInv, SplitInv, Disjoint
    <2>2. HeldItems' \cup EncoderItems = HeldItems /\ HeldItems' \cap EncoderItems = {}
      BY <1>3, <1>4, <1>5, <2>1 DEF HeldItems
    <2>3. EncoderItems \subseteq 1 .. Len(kinds)
      BY ItemsHeld DEF HeldItems
    <2>4. /\ refused' \subseteq 1 .. Len(kinds) /\ refused \subseteq refused'
          /\ twice \subseteq refused'
      BY <2>3 DEF CodecInv, LedgerInv, Ledger
    <2> QED
      BY <2>2, <2>4, SettledOld
  <1>10. EnvelopeInv'
    <2>1. LiveMessages' = LiveMessages
      BY <1>2 DEF LiveMessages
    <2> QED
      BY <2>1, EnvelopesStay DEF poolVars
  <1> QED
    BY <1>6, <1>7, <1>8, <1>9, <1>10 DEF CodecInv

(* The encoder hands on the next message, or stops at it. *)
LEMMA EncodeNextStep ==
  ASSUME CodecInv, EncodeNext
  PROVE  CodecInv'
  <1> DEFINE i == out.encoder[Top.at]
             m == Message("datagram", i, 0, Top.msg.alias, Top.msg.peer)
             f == Frame("encode", Top.msg, Top.at + 1)
  <1>1. /\ stack # <<>> /\ Top.op = "encode" /\ Top.at <= Len(out.encoder)
        /\ UNCHANGED <<pooled, remote, ip, pool, envelopes, kinds, app, overlapped>>
    BY DEF EncodeNext, Running, modeVars, poolVars
  <1>2. /\ Shape /\ releases \in [Items -> Nat] /\ Len(kinds) \in Nat
        /\ out.encoder \in Seq(Items) /\ Len(out.encoder) <= MaxItems
        /\ ListOnce(out.encoder)
        /\ queue \in Seq(QueuedType) /\ QueueOnce(queue)
    BY DEF CodecInv, Shape, SplitInv
  <1>3. /\ Base \in Seq(Frames) /\ Top \in Frames
        /\ MessagesIn(stack) = MessagesIn(Base)
        /\ StackOnce(Base)
        /\ Uses(stack, "decode") <=> Uses(Base, "decode")
        /\ EncoderItems = Rest(out.encoder, Top.at)
        /\ DecoderItems = WaitingIn(Base, out.decoder, "decode")
    BY <1>1, TopEncodes
  <1>4. /\ Top.at \in DOMAIN out.encoder
        /\ Top.at + 1 \in 0 .. MaxItems + 1 /\ Top.at + 1 > 0
        /\ i \in Items /\ i \in EncoderItems
        /\ Rest(out.encoder, Top.at + 1) = EncoderItems \ {i}
        /\ Top.msg \in MessageType /\ Top.msg.alias = 0 /\ Top.msg.peer \in Peers
    <2>1. Top.op \in Codecs
      BY <1>1 DEF Codecs
    <2>2. Top.at > 0 /\ Top.at \in Int
      BY <1>3, <2>1 DEF Frames, FrameType
    <2>3. Top.at + 1 > 0
      BY <2>2
    <2> DEFINE t == Top
    <2>4. t \in Frames /\ t.op \in Codecs /\ t.at <= Len(out.encoder)
      BY <1>1, <1>3, <2>1
    <2> HIDE DEF t
    <2>5. /\ t.at \in DOMAIN out.encoder /\ t.at + 1 \in 0 .. MaxItems + 1
          /\ out.encoder[t.at] \in Items /\ out.encoder[t.at] \in Rest(out.encoder, t.at)
          /\ Rest(out.encoder, t.at + 1) = Rest(out.encoder, t.at) \ {out.encoder[t.at]}
          /\ t.msg \in MessageType /\ t.msg.alias = 0 /\ t.msg.peer \in Peers
      BY <1>2, <2>4, NextOfList
    <2> QED
      BY <1>3, <2>3, <2>5 DEF t
  <1>5. f \in Frames /\ f.op = "encode" /\ f.at = Top.at + 1
    BY <1>4, FrameIn
  <1>6. m \in MessageType /\ m.item = i /\ m.env = 0 /\ m.alias = 0 /\ m.type = "datagram"
    BY <1>4, CodecAssumption DEF Message, MessageType, Items
  <1>7. /\ RestOfList \in Seq(Items) /\ ListOnce(RestOfList) /\ RestOfList # <<>>
        /\ RestOfList[1] = i /\ ToSet(RestOfList) = EncoderItems
    BY <1>2, <1>3, <1>4, RestIs DEF RestOfList
  <1>8. CASE Enqueue(m, Append(Base, f)) /\ UNCHANGED <<releases, out>>
    <2> DEFINE d == AsDatagram(m)
    <2> HIDE DEF i, m, f
    <2>1. /\ queue' = Append(queue, d) /\ ~Refuses(m)
          /\ stack' \in {Append(Base, f), Append(Append(Base, f), Handler)}
          /\ UNCHANGED <<closed, refused, releases, out>>
      BY <1>8 DEF Enqueue
    <2>2. /\ d \in QueuedType /\ d.item = i /\ d.env = 0 /\ d.alias = 0
      BY <1>6, <2>1, QueuedIs, DatagramIs
    <2> HIDE DEF d
    <2>3. /\ Append(Base, f) \in Seq(Frames)
          /\ MessagesIn(Append(Base, f)) = MessagesIn(Base)
          /\ StackOnce(Append(Base, f)) <=> StackOnce(Base)
          /\ Uses(Append(Base, f), "encode")
          /\ Uses(Append(Base, f), "decode") <=> Uses(Base, "decode")
          /\ WaitingIn(Append(Base, f), out.encoder, "encode") = Rest(out.encoder, f.at)
          /\ WaitingIn(Append(Base, f), out.decoder, "decode") =
               WaitingIn(Base, out.decoder, "decode")
      BY <1>3, <1>5, PushEncode
    <2>4. /\ stack' \in Seq(Frames)
          /\ MessagesIn(stack') = MessagesIn(Base) /\ StackOnce(stack')
          /\ Uses(stack', "encode")
          /\ Uses(stack', "decode") <=> Uses(Base, "decode")
          /\ WaitingIn(stack', out.encoder, "encode") = EncoderItems \ {i}
          /\ WaitingIn(stack', out.decoder, "decode") = DecoderItems
      <3>1. CASE stack' = Append(Base, f)
        BY <1>3, <1>4, <1>5, <2>3, <3>1
      <3>2. CASE stack' = Append(Append(Base, f), Handler)
        BY <1>3, <1>4, <1>5, <2>3, <3>2, PushHandler DEF SameViews
      <3> QED
        BY <2>1, <3>1, <3>2
    <2>5. i \notin AppItems \cup QueueItems \cup StackItems \cup DecoderItems
      BY <1>4 DEF CodecInv, SplitInv, Disjoint
    <2>6. /\ queue' \in Seq(QueuedType) /\ ToSet(queue') = ToSet(queue) \cup {d}
          /\ QueueOnce(queue')
      <3>1. d.item \notin ItemsOf(ToSet(queue))
        BY <2>2, <2>5 DEF QueueItems
      <3> QED
        BY <1>2, <2>1, <2>2, <3>1, EnqueuedSet
    <2>7. /\ AppItems' = AppItems /\ StackItems' = StackItems
          /\ QueueItems' = QueueItems \cup {i}
          /\ DecoderItems' = DecoderItems /\ EncoderItems' = EncoderItems \ {i}
      <3>1. QueueItems' = QueueItems \cup {i}
        BY <2>2, <2>6, ItemsPlus DEF QueueItems
      <3> QED
        BY <1>1, <1>3, <2>1, <2>4, <3>1 DEF AppItems, StackItems, DecoderItems, EncoderItems
    <2>8. Shape'
      BY <1>1, <1>2, <2>1, <2>4, <2>6 DEF Shape
    <2>9. SplitInv'
      <3>1. Disjoint(AppItems, QueueItems, StackItems, DecoderItems, EncoderItems)'
        BY <2>5, <2>7 DEF Disjoint, CodecInv, SplitInv
      <3> QED
        BY <1>1, <2>1, <2>4, <2>6, <3>1 DEF CodecInv, SplitInv
    <2>10. ListInv'
      BY <1>1, <1>3, <2>1, <2>4 DEF CodecInv, ListInv
    <2>11. LedgerInv'
      <3>1. HeldItems' = HeldItems
        BY <1>4, <2>7 DEF HeldItems
      <3> QED
        BY <1>1, <2>1, <3>1 DEF CodecInv, LedgerInv
    <2>12. EnvelopeInv'
      <3>1. LiveMessages' = LiveMessages \cup {d}
        BY <1>1, <1>3, <2>4, <2>6 DEF LiveMessages
      <3> QED
        BY <1>1, <2>2, <3>1, EnvelopesStay DEF poolVars
    <2> QED
      BY <2>8, <2>9, <2>10, <2>11, <2>12 DEF CodecInv
  <1>9. CASE /\ Refuse(m) /\ ReleaseItems(<<i>> \o RestOfList)
             /\ out' = [out EXCEPT !.encoder = <<>>] /\ stack' = Base
    <2>1. refused' = refused \cup {i} /\ queue' = queue /\ closed' = closed
      BY <1>6, <1>9 DEF Refuse
    <2>2. Spent(releases, releases', EncoderItems, {i})
      <3> HIDE DEF i
      <3>1. ReleaseItems(<<i>> \o RestOfList)
        BY <1>9
      <3> QED
        BY <1>2, <1>7, <3>1, ReleasedWithRest
    <2> DEFINE twice == {i}
    <2>3. /\ twice \subseteq EncoderItems /\ refused' = refused \cup twice
          /\ Spent(releases, releases', EncoderItems, twice)
      BY <1>4, <2>1, <2>2
    <2> HIDE DEF twice
    <2> QED
      BY <1>1, <1>9, <2>1, <2>3, EncodeStops
  <1>10. CASE /\ ReleaseItems(RestOfList) /\ UNCHANGED endVars
              /\ out' = [out EXCEPT !.encoder = <<>>] /\ stack' = Base
    <2>1. refused' = refused /\ queue' = queue /\ closed' = closed
      BY <1>10 DEF endVars
    <2>2. Spent(releases, releases', EncoderItems, {})
      BY <1>2, <1>7, <1>10, ReleasesSpendOnce
    <2> DEFINE twice == {}
    <2>3. /\ twice \subseteq EncoderItems /\ refused' = refused \cup twice
          /\ Spent(releases, releases', EncoderItems, twice)
      BY <2>1, <2>2
    <2> HIDE DEF twice
    <2> QED
      BY <1>1, <1>10, <2>1, <2>3, EncodeStops
  <1>11. \/ Enqueue(m, Append(Base, f)) /\ UNCHANGED <<releases, out>>
         \/ /\ Refuse(m) /\ ReleaseItems(<<i>> \o RestOfList)
            /\ out' = [out EXCEPT !.encoder = <<>>] /\ stack' = Base
         \/ /\ ReleaseItems(RestOfList) /\ UNCHANGED endVars
            /\ out' = [out EXCEPT !.encoder = <<>>] /\ stack' = Base
    BY DEF EncodeNext, Return, Base
  <1> QED
    BY <1>8, <1>9, <1>10, <1>11
-----------------------------------------------------------------------------
(* The invariant holds.                                                    *)

(* At first there are no items, and no envelopes.                          *)
LEMMA CodecInvInit == Init => CodecInv
  <1> SUFFICES ASSUME Init
               PROVE  CodecInv
    OBVIOUS
  <1>1. /\ app = {} /\ ToSet(queue) = {} /\ MessagesIn(stack) = {}
        /\ DOMAIN queue = {} /\ DOMAIN stack = {} /\ Len(kinds) = 0
        /\ out.decoder = <<>> /\ out.encoder = <<>>
    BY DEF Init, ToSet, MessagesIn
  <1>2. /\ AppItems = {} /\ QueueItems = {} /\ StackItems = {}
        /\ DecoderItems = {} /\ EncoderItems = {}
    BY <1>1, EmptyList
       DEF AppItems, QueueItems, StackItems, DecoderItems, EncoderItems, ItemsOf
  <1>3. Shape
    <2>1. 0 \in 0 .. MaxEnvelopes /\ 0 <= MaxItems
      BY CodecAssumption
    <2>2. ip \in [Envelopes -> Peers]
      BY CodecAssumption DEF Init
    <2>3. out \in [decoder : Seq(Items), encoder : Seq(Items)]
      BY EmptyList DEF Init
    <2>4. pooled \in PoolModes /\ remote \in Remotes /\ app \subseteq MessageType
      BY DEF Init
    <2>5. pool \in [Envelopes -> Nat] /\ releases \in [Items -> Nat]
      BY DEF Init
    <2>6. envelopes \in 0 .. MaxEnvelopes /\ closed \in BOOLEAN /\ overlapped \in BOOLEAN
      BY <2>1 DEF Init
    <2>7. kinds \in Seq({"buf", "other"}) /\ queue \in Seq(QueuedType) /\ stack \in Seq(Frames)
      BY DEF Init
    <2>8. Len(kinds) <= MaxItems /\ Len(out.decoder) <= MaxItems /\ Len(out.encoder) <= MaxItems
      BY <1>1, <2>1, EmptyList
    <2> QED
      BY <2>2, <2>3, <2>4, <2>5, <2>6, <2>7, <2>8 DEF Shape
  <1>4. SplitInv
    <2>1. Disjoint(AppItems, QueueItems, StackItems, DecoderItems, EncoderItems)
      BY <1>2 DEF Disjoint
    <2>2. SetOnce(app) /\ QueueOnce(queue) /\ StackOnce(stack)
      BY <1>1 DEF SetOnce, QueueOnce, StackOnce
    <2> QED
      BY <1>1, <2>1, <2>2, EmptyList DEF SplitInv
  <1>5. ListInv
    BY <1>1, EmptyList DEF ListInv
  <1>6. LedgerInv
    <2>1. HeldItems = {} /\ 1 .. 0 = {} /\ refused = {}
      BY <1>2 DEF HeldItems, Init
    <2>2. \A i \in Items : releases[i] = 0
      BY DEF Init
    <2> QED
      BY <1>1, <2>1, <2>2 DEF LedgerInv, Ledger, Covered
  <1>7. EnvelopeInv
    <2>1. LiveMessages = {}
      BY <1>1 DEF LiveMessages
    <2>2. \A e \in Envelopes : pool[e] = 0
      BY DEF Init
    <2> QED
      BY <2>1, <2>2 DEF EnvelopeInv, EnvelopesOf
  <1> QED
    BY <1>3, <1>4, <1>5, <1>6, <1>7 DEF CodecInv

(* Nothing changes in a step that changes no variable.                     *)
LEMMA CodecInvStutters ==
  ASSUME CodecInv, UNCHANGED vars
  PROVE  CodecInv'
  <1>1. UNCHANGED <<pooled, remote, ip, pool, envelopes, kinds, releases, queue, closed,
                    refused, out, app, stack, overlapped>>
    BY DEF vars, modeVars, poolVars, itemVars, endVars
  <1>2. /\ AppItems' = AppItems /\ QueueItems' = QueueItems /\ StackItems' = StackItems
        /\ DecoderItems' = DecoderItems /\ EncoderItems' = EncoderItems
        /\ LiveMessages' = LiveMessages /\ HeldItems' = HeldItems
    BY <1>1 DEF AppItems, QueueItems, StackItems, DecoderItems, EncoderItems,
                LiveMessages, HeldItems
  <1>3. Shape'
    BY <1>1 DEF CodecInv, Shape
  <1>4. SplitInv'
    BY <1>1, <1>2 DEF CodecInv, SplitInv, Disjoint
  <1>5. ListInv'
    BY <1>1 DEF CodecInv, ListInv
  <1>6. LedgerInv' /\ EnvelopeInv'
    BY <1>1, <1>2 DEF CodecInv, LedgerInv, EnvelopeInv
  <1> QED
    BY <1>3, <1>4, <1>5, <1>6 DEF CodecInv

(* Every step keeps the invariant.                                         *)
LEMMA CodecInvNext == CodecInv /\ [Next]_vars => CodecInv'
  <1> SUFFICES ASSUME CodecInv, [Next]_vars
               PROVE  CodecInv'
    OBVIOUS
  <1>1. ASSUME NEW from \in Peers, FireChannelRead(from)
        PROVE  CodecInv'
    BY <1>1, FireChannelReadStep
  <1>2. CASE PassDatagram
    BY <1>2, PassDatagramStep
  <1>3. CASE DecodeFails
    BY <1>3, DecodeFailsStep
  <1>4. CASE Decode
    BY <1>4, DecodeStep
  <1>5. CASE DecodeNext
    BY <1>5, DecodeNextStep
  <1>6. CASE DecodeDone
    BY <1>6, DecodeDoneStep
  <1>7. ASSUME NEW type \in {"addressed", "bytes"}, NEW kind \in {"buf", "other"},
               NEW to \in Peers, AppWritesNew(type, kind, to)
        PROVE  CodecInv'
    BY <1>7, AppWritesNewStep
  <1>8. ASSUME NEW m \in app, AppReleases(m) \/ AppWrites(m)
        PROVE  CodecInv'
    BY <1>8, AppReleasesStep, AppWritesStep
  <1>9. CASE PassMessage
    BY <1>9, PassMessageStep
  <1>10. CASE ForwardPayload
    BY <1>10, ForwardPayloadStep
  <1>11. CASE EncodeFails
    BY <1>11, EncodeFailsStep
  <1>12. CASE Encode
    BY <1>12, EncodeStep
  <1>13. CASE EncodeNext
    BY <1>13, EncodeNextStep
  <1>14. CASE EncodeDone
    BY <1>14, EncodeDoneStep
  <1>15. CASE HandlerReturns
    BY <1>15, HandlerReturnsStep
  <1>16. CASE Dequeue
    BY <1>16, DequeueStep
  <1>17. CASE Close
    BY <1>17, CloseStep
  <1>18. CASE UNCHANGED vars
    BY <1>18, CodecInvStutters
  <1> QED
    BY <1>1, <1>2, <1>3, <1>4, <1>5, <1>6, <1>7, <1>8, <1>9, <1>10, <1>11, <1>12, <1>13,
       <1>14, <1>15, <1>16, <1>17, <1>18 DEF Next

(* The items have one holder each, the ledger and the envelopes agree with *)
(* them, always.                                                           *)
THEOREM ItemsAccounted == Spec => []CodecInv
  BY CodecInvInit, CodecInvNext, PTL DEF Spec
-----------------------------------------------------------------------------
(* The properties.                                                         *)

(* The places of the proof are those of the model.                         *)
LEMMA PlacesAre ==
  /\ Carried = MessagesIn(stack)
  /\ Live = LiveMessages
  /\ Waiting(out.decoder, "decode") = DecoderItems
  /\ Waiting(out.encoder, "encode") = EncoderItems
  /\ Held = HeldItems
  <1>1. Carried = MessagesIn(stack)
    BY DEF Carried, MessagesIn, Carriers
  <1>2. Live = LiveMessages
    BY <1>1 DEF Live, LiveMessages
  <1>3. Innermost("decode") = InnermostIn(stack, "decode")
        /\ Innermost("encode") = InnermostIn(stack, "encode")
    BY DEF Innermost, InnermostIn
  <1>4. Waiting(out.decoder, "decode") = DecoderItems
    BY <1>3, Zenon DEF Waiting, WaitingIn, Uses, Rest, DecoderItems
  <1>5. Waiting(out.encoder, "encode") = EncoderItems
    BY <1>3, Zenon DEF Waiting, WaitingIn, Uses, Rest, EncoderItems
  <1>6. {m.item : m \in Live} = AppItems \cup QueueItems \cup StackItems
    BY <1>2 DEF LiveMessages, AppItems, QueueItems, StackItems, ItemsOf
  <1>7. Held = HeldItems
    BY <1>4, <1>5, <1>6 DEF Held, HeldItems
  <1> QED
    BY <1>1, <1>2, <1>4, <1>5, <1>7

(* A list holds only items that were made.                                 *)
LEMMA ListMade ==
  ASSUME NEW l \in Seq(Items), NEW n \in Nat, \A j \in DOMAIN l : l[j] <= n
  PROVE  l \in Seq(1 .. n)
  <1>1. ASSUME NEW j \in DOMAIN l
        PROVE  l[j] \in 1 .. n
    <2>1. l[j] \in Items /\ l[j] <= n
      OBVIOUS
    <2> QED
      BY <2>1, CodecAssumption DEF Items
  <1>2. Len(l) \in Nat /\ l = [j \in 1 .. Len(l) |-> l[j]] /\ DOMAIN l = 1 .. Len(l)
    BY LenProperties
  <1> QED
    BY <1>1, <1>2, IsASeq

(* The messages of the frames have the types of their places.              *)
LEMMA TypesHold == CodecInv => TypeOK
  <1> SUFFICES ASSUME CodecInv
               PROVE  TypeOK
    OBVIOUS
  <1>1. Made = 1 .. Len(kinds) /\ Len(kinds) \in Nat
    BY LenProperties DEF Made, CodecInv, Shape
  <1>2. out \in [decoder : Seq(Made), encoder : Seq(Made)]
    <2>1. /\ out \in [decoder : Seq(Items), encoder : Seq(Items)]
          /\ out.decoder \in Seq(Items) /\ out.encoder \in Seq(Items)
          /\ \A j \in DOMAIN out.decoder : out.decoder[j] <= Len(kinds)
          /\ \A j \in DOMAIN out.encoder : out.encoder[j] <= Len(kinds)
      BY DEF CodecInv, Shape, ListInv
    <2>2. out.decoder \in Seq(Made) /\ out.encoder \in Seq(Made)
      BY <1>1, <2>1, ListMade
    <2>3. out = [decoder |-> out.decoder, encoder |-> out.encoder]
      BY <2>1
    <2> QED
      BY <2>2, <2>3
  <1>3. stack \in Seq(FrameType)
    <2>1. stack \in Seq(Frames) /\ Frames \subseteq FrameType
      BY DEF CodecInv, Shape, Frames
    <2> QED
      BY <2>1
  <1>4. refused \subseteq Made
    BY <1>1 DEF CodecInv, LedgerInv, Ledger
  <1> QED
    BY <1>2, <1>3, <1>4 DEF CodecInv, Shape, TypeOK

(* Every variable keeps its type, and what endpoint.Write took is a        *)
(* datagram with a valid address (codec.go, endpoint.go).                  *)
THEOREM TypeCorrect == Spec => []TypeOK
  BY ItemsAccounted, TypesHold, PTL

(* A place that holds no item twice, and live messages in different places.*)
LEMMA HoldersAre == CodecInv => OneHolder
  <1> SUFFICES ASSUME CodecInv
               PROVE  OneHolder
    OBVIOUS
  <1>1. \A i \in HeldItems : releases[i] = 0
    BY DEF CodecInv, LedgerInv, Ledger
  <1>2. Disjoint(AppItems, QueueItems, StackItems, DecoderItems, EncoderItems)
    BY DEF CodecInv, SplitInv
  <1>3. /\ \A m \in app : m.item \in AppItems
        /\ \A m \in ToSet(queue) : m.item \in QueueItems
        /\ \A m \in MessagesIn(stack) : m.item \in StackItems
    BY ItemsHeld
  <1>4. QueueOnce(queue) /\ SetOnce(app) /\ StackOnce(stack)
    BY DEF CodecInv, SplitInv
  <1>5. ASSUME NEW m \in LiveMessages, NEW n \in LiveMessages, m.item = n.item
        PROVE  m = n
    <2>1. CASE m \in app
      <3>1. n \in app
        BY <1>2, <1>3, <1>5, <2>1 DEF LiveMessages, Disjoint
      <3> QED
        BY <1>4, <1>5, <2>1, <3>1 DEF SetOnce
    <2>2. CASE m \in ToSet(queue)
      <3>1. n \in ToSet(queue)
        BY <1>2, <1>3, <1>5, <2>2 DEF LiveMessages, Disjoint
      <3>2. PICK j \in DOMAIN queue : m = queue[j]
        BY <2>2 DEF ToSet
      <3>3. PICK k \in DOMAIN queue : n = queue[k]
        BY <3>1 DEF ToSet
      <3> QED
        BY <1>4, <1>5, <3>2, <3>3 DEF QueueOnce
    <2>3. CASE m \in MessagesIn(stack)
      <3>1. n \in MessagesIn(stack)
        BY <1>2, <1>3, <1>5, <2>3 DEF LiveMessages, Disjoint
      <3>2. PICK j \in DOMAIN stack : stack[j].op \in Carriers /\ m = stack[j].msg
        BY <2>3 DEF MessagesIn
      <3>3. PICK k \in DOMAIN stack : stack[k].op \in Carriers /\ n = stack[k].msg
        BY <3>1 DEF MessagesIn
      <3> QED
        BY <1>4, <1>5, <3>2, <3>3 DEF StackOnce
    <2> QED
      BY <2>1, <2>2, <2>3 DEF LiveMessages
  <1>6. {m.item : m \in LiveMessages} \cap (DecoderItems \cup EncoderItems) = {}
    BY <1>2, <1>3 DEF LiveMessages, Disjoint
  <1>7. ToSet(queue) \cap app = {}
    BY <1>2, <1>3 DEF Disjoint
  <1>8. \A j, k \in DOMAIN queue : queue[j].item = queue[k].item => j = k
    BY <1>4 DEF QueueOnce
  <1>9. \A m, n \in LiveMessages : m.item = n.item => m = n
    BY <1>5
  <1> QED
    BY <1>1, <1>6, <1>7, <1>8, <1>9, PlacesAre DEF OneHolder

(* No item has two holders and none that is held was released, although    *)
(* every call of a codec shares its one list (codec.go, the loops of       *)
(* ChannelRead and Write).                                                 *)
THEOREM EveryItemHasOneHolder == Spec => []OneHolder
  BY ItemsAccounted, HoldersAre, PTL

(* The made items are those the ledger counts.                             *)
LEMMA MadeIs == CodecInv => Made = 1 .. Len(kinds)
  BY LenProperties DEF Made, CodecInv, Shape

(* An item is released once, or twice when endpoint.Write refused it       *)
(* (codec.go, the encoder's release after a failed Write).                 *)
THEOREM SecondReleaseOnlyIfRefused == Spec => []ReleasedTwiceIfRefused
  <1>1. CodecInv => ReleasedTwiceIfRefused
    BY MadeIs, Zenon DEF CodecInv, LedgerInv, Ledger, ReleasedTwiceIfRefused
  <1> QED
    BY <1>1, ItemsAccounted, PTL

(* As long as no codec is entered while it hands on its list, every item   *)
(* is held or was released, on every error path (codec.go).                *)
THEOREM NothingIsLost == Spec => []NothingLostUnlessOverlapped
  <1>1. CodecInv => NothingLostUnlessOverlapped
    BY MadeIs, PlacesAre, Zenon DEF CodecInv, LedgerInv, Covered, NothingLostUnlessOverlapped
  <1> QED
    BY <1>1, ItemsAccounted, PTL

(* The live messages of an envelope.                                       *)
LEMMA EnvelopesAre == CodecInv => EnvelopesExclusive
  <1> SUFFICES ASSUME CodecInv, NEW e \in Envelopes
               PROVE  pool[e] + Cardinality({m \in LiveMessages : m.env = e}) <= 1
    BY PlacesAre DEF EnvelopesExclusive
  <1> DEFINE S == {m \in LiveMessages : m.env = e}
  <1>1. pool[e] \in Nat /\ pool[e] <= 1 /\ e # 0
    <2>1. pool \in [Envelopes -> Nat] /\ e # 0
      BY CodecAssumption DEF CodecInv, Shape, Envelopes
    <2>2. pool[e] <= 1
      BY DEF CodecInv, EnvelopeInv, EnvelopesOf
    <2> QED
      BY <2>1, <2>2
  <1>2. \A m, k \in S : m = k
    BY <1>1 DEF CodecInv, EnvelopeInv, EnvelopesOf
  <1>3. \A m \in S : pool[e] = 0
    BY <1>1 DEF CodecInv, EnvelopeInv, EnvelopesOf
  <1>4. CASE S = {}
    <2>1. Cardinality(S) = 0
      BY <1>4, FewElements
    <2> HIDE DEF S
    <2> QED
      BY <1>1, <2>1 DEF S
  <1>5. CASE S # {}
    <2> HIDE DEF S
    <2>1. PICK m : m \in S
      BY <1>5
    <2>2. S \subseteq {m, m}
      BY <1>2, <2>1
    <2>3. Cardinality(S) = 1
      BY <1>2, <1>5, <2>2, FewElements
    <2>4. pool[e] = 0
      BY <1>3, <2>1
    <2> QED
      BY <2>3, <2>4 DEF S
  <1> QED
    BY <1>4, <1>5

(* An envelope is in the pool once or carries one live datagram            *)
(* (datagram.go, acquire and release).                                     *)
THEOREM EnvelopesNeverShared == Spec => []EnvelopesExclusive
  BY ItemsAccounted, EnvelopesAre, PTL

(* A message has the address it was made with.                             *)
LEMMA AddressesAre == CodecInv => AddressKept
  <1> SUFFICES ASSUME CodecInv
               PROVE  AddressKept
    OBVIOUS
  <1>1. ASSUME NEW m \in LiveMessages
        PROVE  AddrOf(m) = m.peer
    BY LiveAddress DEF AddrOf
  <1>2. ASSUME NEW j \in DOMAIN stack, stack[j].op \in {"decode", "encode"}
        PROVE  AddrOf(stack[j].msg) = stack[j].msg.peer
    <2>1. stack \in Seq(Frames)
      BY DEF CodecInv, Shape
    <2>2. stack[j] \in Frames
      BY <2>1
    <2>3. stack[j].msg.alias = 0
      BY <1>2, <2>2 DEF Frames, Codecs
    <2> QED
      BY <2>3 DEF AddrOf
  <1> QED
    BY <1>1, <1>2, PlacesAre DEF AddressKept

(* A message keeps its address wherever it is, although the envelope it    *)
(* was received in is used again (codec.go, the clone of the address).     *)
THEOREM AddressesSurviveReuse == Spec => []AddressKept
  BY ItemsAccounted, AddressesAre, PTL
=============================================================================
