-------------------------------- MODULE Codec --------------------------------
(***************************************************************************)
(* The pipeline of a UDP channel with a DatagramToMessageDecoder and a     *)
(* MessageToDatagramEncoder (codec.go) between the endpoint and a handler  *)
(* of the application, and the pool of inbound datagrams (datagram.go):    *)
(* who owns each message, and whose storage its address lives in.          *)
(*                                                                         *)
(* Everything runs on the event loop's goroutine. The model keeps its call *)
(* stack, because the application's handler, called from either codec, may *)
(* read, write and close, and so enter the same codec again. Each codec    *)
(* has one message list, shared by all its activations.                    *)
(*                                                                         *)
(* An item is one reference to a buffer or to a typed message. External:   *)
(* MessageList (Reset forgets the items, ReleaseAll releases them first),  *)
(* sync.Pool, and the application, which releases or writes every message  *)
(* it is given at most once.                                               *)
(***************************************************************************)
EXTENDS Integers, Sequences, FiniteSets, SequencesExt

CONSTANTS
  Peers,         \* addresses, NoPeer among them
  NoPeer,        \* Address{}, which is not Valid
  PoolModes,     \* values of Config.PooledInboundDatagrams
  Remotes,       \* endpoint.remote: a peer for a client, NoPeer for a server
  MaxItems,      \* bound: items ever made
  MaxOut,        \* bound: items one decode or encode call produces
  MaxEnvelopes,  \* bound: envelopes ever allocated
  MaxDepth       \* bound: depth at which the application may still call

ASSUME CodecAssumption ==
  /\ NoPeer \in Peers /\ Remotes \subseteq Peers
  /\ PoolModes \subseteq BOOLEAN
  /\ {MaxItems, MaxOut, MaxEnvelopes, MaxDepth} \subseteq Nat

VARIABLES
  pooled, remote,
  ip,          \* Datagram.ip of every envelope: the storage of its address
  pool,        \* how often each envelope is in the pool
  envelopes,   \* envelopes allocated so far
  kinds,       \* the items made so far: buffers or other messages
  releases,    \* how often each was released
  out,         \* the message lists of the decoder and of the encoder
  app,         \* messages the application holds
  queue,       \* the endpoint's outbound queue
  closed,
  stack,       \* the loop's call stack, innermost frame last
  refused,     \* history: items of Write calls the endpoint refused
  overlapped   \* history: a codec used its list while an outer call did

modeVars == <<pooled, remote>>
poolVars == <<ip, pool, envelopes>>
itemVars == <<kinds, releases>>
endVars  == <<queue, closed, refused>>
vars     == <<modeVars, poolVars, itemVars, endVars, out, app, stack, overlapped>>

Items     == 1 .. MaxItems
Envelopes == 1 .. MaxEnvelopes

-----------------------------------------------------------------------------
(* Messages. `env' is the envelope that carries a pooled datagram, `alias' *)
(* the envelope whose storage its address uses, 0 for storage of its own.  *)
(* `peer' is a history: the address the message had when it was made.      *)
Message(type, item, env, alias, peer) ==
  [type |-> type, item |-> item, env |-> env, alias |-> alias, peer |-> peer]

AddrOf(m) == IF m.alias = 0 THEN m.peer ELSE ip[m.alias]

Frame(op, msg, at) == [op |-> op, msg |-> msg, at |-> at]
NoMessage == Message("none", 0, 0, 0, NoPeer)
Handler   == Frame("handler", NoMessage, 0)

Top        == Last(stack)
Running(op) == stack # <<>> /\ Top.op = op
CanCall    == stack # <<>> => Top.op = "handler"
Return     == stack' = Front(stack)
GoOn(f)    == stack' = Append(Front(stack), f)

MakeItems(ks) == kinds' = kinds \o ks
MadeItems(ks) == [j \in DOMAIN ks |-> Len(kinds) + j]

(* What one call of the application's decoder or encoder may produce.      *)
Outputs == UNION {[1 .. n -> {"buf", "other"}] :
                    n \in 0 .. IF MaxItems - Len(kinds) < MaxOut THEN MaxItems - Len(kinds)
                                                                 ELSE MaxOut}

(* Datagram.Release and Addressed.Release: the item of each message, and   *)
(* its envelope. A sequence may name an item twice.                        *)
ReleaseItems(is) == releases' = [i \in Items |-> releases[i] +
                                   Cardinality({j \in DOMAIN is : is[j] = i})]
PutEnvelopes(ms) == pool' = [e \in Envelopes |-> pool[e] +
                                   Cardinality({j \in DOMAIN ms : ms[j].env = e})]
ReleaseAll(ms) == /\ ReleaseItems([j \in DOMAIN ms |-> ms[j].item])
                  /\ PutEnvelopes(ms)

-----------------------------------------------------------------------------
(* Inbound: endpoint.fireChannelRead, then the decoder.                    *)

(* datagramPool.acquire: any envelope of the pool, or a new one.           *)
Acquirable == {e \in Envelopes : pool[e] > 0 \/ e = envelopes + 1}

FireChannelRead(from) ==
  /\ CanCall /\ ~closed
  /\ Len(kinds) < MaxItems /\ Len(stack) < MaxDepth
  /\ MakeItems(<<"buf">>)
  /\ \/ /\ ~pooled
        /\ stack' = Append(stack,
                      Frame("read", Message("datagram", Len(kinds) + 1, 0, 0, from), 0))
        /\ UNCHANGED poolVars
     \/ /\ pooled
        /\ \E e \in Acquirable :
             /\ pool' = [pool EXCEPT ![e] = IF @ > 0 THEN @ - 1 ELSE @]
             /\ envelopes' = IF e > envelopes THEN e ELSE envelopes
             /\ ip' = [ip EXCEPT ![e] = from]
             /\ stack' = Append(stack,
                           Frame("read", Message("datagram", Len(kinds) + 1, e, e, from), 0))
  /\ UNCHANGED <<modeVars, releases, endVars, out, app, overlapped>>

(* Seeded defect: the return after FireChannelRead is missing, and the     *)
(* datagram is released as after a decode.                                 *)
PassDatagramAndRelease ==
  /\ Running("read")
  /\ app' = app \cup {Top.msg}
  /\ GoOn(Handler)
  /\ ReleaseAll(<<Top.msg>>)
  /\ UNCHANGED <<modeVars, ip, envelopes, kinds, endVars, out, overlapped>>

(* AcceptDatagram says no: the datagram goes to the next handler as it is. *)
PassDatagram ==
  /\ Running("read")
  /\ app' = app \cup {Top.msg}
  /\ GoOn(Handler)
  /\ UNCHANGED <<modeVars, poolVars, itemVars, endVars, out, overlapped>>

(* A call that uses a codec's list forgets what an outer call has in it.   *)
Overlap(op) == overlapped' = (overlapped \/ \E j \in DOMAIN stack : stack[j].op = op)

(* Seeded defect: what a failed decode has produced is forgotten.          *)
DecodeFailsForgetting ==
  /\ Running("read")
  /\ Overlap("decode")
  /\ \E ks \in Outputs :
       /\ MakeItems(ks)
       /\ ReleaseAll(<<Top.msg>>)
  /\ out' = [out EXCEPT !.decoder = <<>>]
  /\ GoOn(Handler)
  /\ UNCHANGED <<modeVars, ip, envelopes, endVars, app>>

(* DecodeDatagram returns an error (there being no decoder is one): what   *)
(* it had produced and the datagram are released, ExceptionCaught follows. *)
DecodeFails ==
  /\ Running("read")
  /\ Overlap("decode")
  /\ \E ks \in Outputs :
       /\ MakeItems(ks)
       /\ ReleaseItems(Append(MadeItems(ks), Top.msg.item))
       /\ PutEnvelopes(<<Top.msg>>)
  /\ out' = [out EXCEPT !.decoder = <<>>]
  /\ GoOn(Handler)
  /\ UNCHANGED <<modeVars, ip, envelopes, endVars, app>>

(* Seeded defect: the address still refers to the envelope.                *)
CloneAddressByReference(m) == m

(* Address.Clone.                                                          *)
CloneAddress(m) == [m EXCEPT !.alias = 0]

(* DecodeDatagram succeeds. The address is copied out of the envelope      *)
(* before that goes back to the pool.                                      *)
Decode ==
  /\ Running("read")
  /\ Overlap("decode")
  /\ \E ks \in Outputs :
       /\ MakeItems(ks)
       /\ out' = [out EXCEPT !.decoder = MadeItems(ks)]
  /\ ReleaseAll(<<Top.msg>>)
  /\ GoOn(Frame("decode", CloneAddress(Top.msg), 1))
  /\ UNCHANGED <<modeVars, ip, envelopes, endVars, app>>

DecodeNext ==
  LET i == out.decoder[Top.at] IN
  /\ Running("decode")
  /\ Top.at <= Len(out.decoder)
  /\ app' = app \cup {Message("addressed", i, 0, Top.msg.alias, Top.msg.peer)}
  /\ stack' = Front(stack) \o <<Frame("decode", Top.msg, Top.at + 1), Handler>>
  /\ UNCHANGED <<modeVars, poolVars, itemVars, endVars, out, overlapped>>

(* Seeded defect: the list is not reset after its messages were handed on. *)
DecodeDoneUnreset ==
  /\ Running("decode")
  /\ Top.at > Len(out.decoder)
  /\ Return
  /\ UNCHANGED <<modeVars, poolVars, itemVars, endVars, out, app, overlapped>>

DecodeDone ==
  /\ Running("decode")
  /\ Top.at > Len(out.decoder)
  /\ out' = [out EXCEPT !.decoder = <<>>]
  /\ Return
  /\ UNCHANGED <<modeVars, poolVars, itemVars, endVars, app, overlapped>>

-----------------------------------------------------------------------------
(* Outbound: the application, the encoder, then endpoint.Write.            *)

(* The application writes a message of its own: an addressed one or a bare *)
(* buffer, which goes to endpoint.remote.                                  *)
AppWritesNew(type, kind, to) ==
  /\ CanCall /\ Len(stack) < MaxDepth
  /\ Len(kinds) < MaxItems
  /\ type = "bytes" => kind = "buf" /\ to = remote
  /\ MakeItems(<<kind>>)
  /\ stack' = Append(stack, Frame("write", Message(type, Len(kinds) + 1, 0, 0, to), 0))
  /\ UNCHANGED <<modeVars, poolVars, releases, endVars, out, app, overlapped>>

AppReleases(m) ==
  /\ CanCall
  /\ app' = app \ {m}
  /\ ReleaseAll(<<m>>)
  /\ UNCHANGED <<modeVars, ip, envelopes, kinds, endVars, out, stack, overlapped>>

AppWrites(m) ==
  /\ CanCall /\ Len(stack) < MaxDepth
  /\ app' = app \ {m}
  /\ stack' = Append(stack, Frame("write", m, 0))
  /\ UNCHANGED <<modeVars, poolVars, itemVars, endVars, out, overlapped>>

(* datagramFromMessage and Valid: what endpoint.Write takes, as a datagram.*)
AsDatagram(m) == [m EXCEPT !.type = "datagram"]

(* Seeded defect: the address is not looked at.                            *)
RefusesOnlyClosed(m) == closed \/ m.type = "addressed"

Refuses(m) == closed \/ m.type = "addressed" \/ AddrOf(m) = NoPeer

(* endpoint.Write takes the message; ChannelWritabilityChanged may follow, *)
(* before it returns to the frames `rest'.                                 *)
Enqueue(m, rest) ==
  /\ ~Refuses(m)
  /\ queue' = Append(queue, AsDatagram(m))
  /\ stack' \in {rest, Append(rest, Handler)}
  /\ UNCHANGED <<closed, refused>>

(* It refuses the message, having released it.                             *)
Refuse(m) == Refuses(m) /\ refused' = refused \cup {m.item} /\ UNCHANGED <<queue, closed>>

(* Neither Addressed nor accepted by the encoder: passed on as it is.      *)
PassMessage ==
  LET m == Top.msg IN
  /\ Running("write")
  /\ m.type # "addressed" \/ kinds[m.item] # "buf"
  /\ \/ Enqueue(m, Front(stack)) /\ UNCHANGED <<releases, pool>>
     \/ Refuse(m) /\ ReleaseAll(<<m>>) /\ Return
  /\ UNCHANGED <<modeVars, ip, envelopes, kinds, out, app, overlapped>>

(* An addressed buffer the encoder does not accept becomes a datagram. If  *)
(* endpoint.Write refuses, the encoder releases the payload once more.     *)
ForwardPayload ==
  LET m == AsDatagram(Top.msg) IN
  /\ Running("write")
  /\ Top.msg.type = "addressed" /\ kinds[m.item] = "buf"
  /\ \/ Enqueue(m, Front(stack)) /\ UNCHANGED releases
     \/ Refuse(m) /\ ReleaseItems(<<m.item, m.item>>) /\ Return
  /\ UNCHANGED <<modeVars, poolVars, kinds, out, app, overlapped>>

(* EncodeAddressed returns an error (there being no encoder is one).       *)
EncodeFails ==
  /\ Running("write") /\ Top.msg.type = "addressed"
  /\ Overlap("encode")
  /\ \E ks \in Outputs :
       /\ MakeItems(ks)
       /\ ReleaseItems(Append(MadeItems(ks), Top.msg.item))
  /\ out' = [out EXCEPT !.encoder = <<>>]
  /\ Return
  /\ UNCHANGED <<modeVars, poolVars, endVars, app>>

Encode ==
  /\ Running("write") /\ Top.msg.type = "addressed"
  /\ Overlap("encode")
  /\ \E ks \in Outputs :
       /\ MakeItems(ks)
       /\ out' = [out EXCEPT !.encoder = MadeItems(ks)]
  /\ ReleaseItems(<<Top.msg.item>>)
  /\ GoOn(Frame("encode", Top.msg, 1))
  /\ UNCHANGED <<modeVars, poolVars, endVars, app>>

(* Seeded defect: the whole list is released, not what is left of it.      *)
AllOfList == out.encoder

RestOfList == SubSeq(out.encoder, Top.at, Len(out.encoder))

EncodeNext ==
  LET i == out.encoder[Top.at]
      m == Message("datagram", i, 0, Top.msg.alias, Top.msg.peer)
  IN
  /\ Running("encode")
  /\ Top.at <= Len(out.encoder)
  /\ \/ /\ kinds[i] = "buf"
        /\ Enqueue(m, Append(Front(stack), Frame("encode", Top.msg, Top.at + 1)))
        /\ UNCHANGED <<releases, out>>
     \/ /\ kinds[i] = "buf"
        /\ Refuse(m)
        /\ ReleaseItems(<<i>> \o RestOfList)
        /\ out' = [out EXCEPT !.encoder = <<>>]
        /\ Return
     \/ /\ kinds[i] # "buf"
        /\ ReleaseItems(RestOfList)
        /\ out' = [out EXCEPT !.encoder = <<>>]
        /\ Return
        /\ UNCHANGED endVars
  /\ UNCHANGED <<modeVars, poolVars, kinds, app, overlapped>>

EncodeDone ==
  /\ Running("encode")
  /\ Top.at > Len(out.encoder)
  /\ out' = [out EXCEPT !.encoder = <<>>]
  /\ Return
  /\ UNCHANGED <<modeVars, poolVars, itemVars, endVars, app, overlapped>>

HandlerReturns ==
  /\ Running("handler")
  /\ Return
  /\ UNCHANGED <<modeVars, poolVars, itemVars, endVars, out, app, overlapped>>

-----------------------------------------------------------------------------
(* The endpoint: a datagram is sent, or the endpoint is closed.            *)

Dequeue ==
  /\ CanCall /\ queue # <<>>
  /\ queue' = Tail(queue)
  /\ ReleaseAll(<<Head(queue)>>)
  /\ UNCHANGED <<modeVars, ip, envelopes, kinds, closed, refused, out, app, stack, overlapped>>

Close ==
  /\ CanCall /\ ~closed
  /\ closed' = TRUE
  /\ queue' = <<>>
  /\ ReleaseAll(queue)
  /\ UNCHANGED <<modeVars, ip, envelopes, kinds, refused, out, app, stack, overlapped>>

-----------------------------------------------------------------------------
Init ==
  /\ pooled \in PoolModes
  /\ remote \in Remotes
  /\ ip = [e \in Envelopes |-> NoPeer]
  /\ pool = [e \in Envelopes |-> 0]
  /\ envelopes = 0
  /\ kinds = <<>>
  /\ releases = [i \in Items |-> 0]
  /\ out = [decoder |-> <<>>, encoder |-> <<>>]
  /\ app = {}
  /\ queue = <<>>
  /\ closed = FALSE
  /\ stack = <<>>
  /\ refused = {}
  /\ overlapped = FALSE

Next ==
  \/ \E from \in Peers : FireChannelRead(from)
  \/ PassDatagram \/ DecodeFails \/ Decode \/ DecodeNext \/ DecodeDone
  \/ \E type \in {"addressed", "bytes"}, kind \in {"buf", "other"}, to \in Peers :
       AppWritesNew(type, kind, to)
  \/ \E m \in app : AppReleases(m) \/ AppWrites(m)
  \/ PassMessage \/ ForwardPayload \/ EncodeFails \/ Encode \/ EncodeNext \/ EncodeDone
  \/ HandlerReturns
  \/ Dequeue \/ Close

Spec == Init /\ [][Next]_vars

-----------------------------------------------------------------------------
(* Where the items that nobody has released yet are.                       *)

Innermost(op) ==
  LET at == {j \in DOMAIN stack : stack[j].op = op}
  IN IF at = {} THEN NoMessage.item ELSE stack[CHOOSE j \in at : \A k \in at : k <= j].at

Waiting(list, op) ==
  IF \E j \in DOMAIN stack : stack[j].op = op
  THEN {list[j] : j \in {k \in DOMAIN list : k >= Innermost(op)}}
  ELSE ToSet(list)

Carried == {stack[j].msg : j \in {k \in DOMAIN stack : stack[k].op \in {"read", "write"}}}

Live == app \cup ToSet(queue) \cup Carried

Held == {m.item : m \in Live} \cup Waiting(out.decoder, "decode")
                              \cup Waiting(out.encoder, "encode")

Made == DOMAIN kinds

-----------------------------------------------------------------------------
MessageType ==
  [type : {"datagram", "addressed", "bytes", "none"}, item : 0 .. MaxItems,
   env : 0 .. MaxEnvelopes, alias : 0 .. MaxEnvelopes, peer : Peers]

FrameType == [op : {"handler", "read", "decode", "write", "encode"}, msg : MessageType,
              at : 0 .. MaxItems + 1]

QueuedType == {m \in MessageType : m.type = "datagram" /\ m.peer # NoPeer}

(* Every variable keeps its type; what endpoint.Write took is a datagram   *)
(* with a valid address.                                                   *)
TypeOK ==
  /\ pooled \in PoolModes /\ remote \in Remotes
  /\ ip \in [Envelopes -> Peers]
  /\ pool \in [Envelopes -> Nat]
  /\ envelopes \in 0 .. MaxEnvelopes
  /\ kinds \in Seq({"buf", "other"}) /\ Len(kinds) <= MaxItems
  /\ releases \in [Items -> Nat]
  /\ out \in [decoder : Seq(Made), encoder : Seq(Made)]
  /\ app \subseteq MessageType
  /\ queue \in Seq(QueuedType)
  /\ closed \in BOOLEAN
  /\ stack \in Seq(FrameType)
  /\ refused \subseteq Made
  /\ overlapped \in BOOLEAN

(* No item has two holders, and none that is held was released: neither    *)
(* handed on twice, to the application or the queue, when an interrupted   *)
(* loop of a codec goes on, nor used after a clean-up released it.         *)
OneHolder ==
  /\ \A i \in Held : releases[i] = 0
  /\ \A m, n \in Live : m.item = n.item => m = n
  /\ \A j, k \in DOMAIN queue : queue[j].item = queue[k].item => j = k
  /\ {m.item : m \in Live} \cap (Waiting(out.decoder, "decode") \cup
                                 Waiting(out.encoder, "encode")) = {}
  /\ ToSet(queue) \cap app = {}

(* An item is released once. The exception: a payload that endpoint.Write  *)
(* refused, and so released, which the encoder may release again.          *)
ReleasedTwiceIfRefused ==
  \A i \in Made : releases[i] <= IF i \in refused THEN 2 ELSE 1

(* Every item is held or was released, on every error path of the codecs,  *)
(* as long as no codec is entered while it is handing on its list.         *)
NothingLostUnlessOverlapped ==
  ~overlapped => \A i \in Made : i \in Held \/ releases[i] > 0

(* An envelope is in the pool once, or carries one live datagram, never    *)
(* both: no two datagrams share an envelope.                               *)
EnvelopesExclusive ==
  \A e \in Envelopes :
    pool[e] + Cardinality({m \in Live : m.env = e}) <= 1

(* A message keeps the address it was made with, wherever it is, although  *)
(* the envelope it was received in may have been used again.               *)
AddressKept ==
  /\ \A m \in Live : AddrOf(m) = m.peer
  /\ \A j \in DOMAIN stack : stack[j].op \in {"decode", "encode"} =>
       AddrOf(stack[j].msg) = stack[j].msg.peer

(* A Write that fails has released its message once. endpoint.Write owns   *)
(* the message from the call on.                                           *)
WriteReleasesOnce == \A i \in Made : releases[i] <= 1

(* Every decoded or encoded message is handed on or released.              *)
NothingLost == \A i \in Made : i \in Held \/ releases[i] > 0
=============================================================================
