-------------------------- MODULE AddressingProofs --------------------------
(***************************************************************************)
(* Proofs about Addressing: for all hosts, ports and widths of a scope, on *)
(* every platform, a reply returns to where its datagram came from, ports  *)
(* are the kernel's unless they are swapped, a client reaches the address  *)
(* it dialed, a printed address parses, and the workers of a server agree  *)
(* on its address. Every variable keeps its type.                          *)
(***************************************************************************)
EXTENDS Addressing, TLAPS

-----------------------------------------------------------------------------
(* Conversions there and back.                                             *)

IsPort(p) == p \in Nat /\ p < 65536

(* Two bytes of a number, taken apart.                                     *)
LEMMA TwoBytes ==
  ASSUME NEW lo \in Nat, NEW hi \in Nat, lo < 256, hi < 256
  PROVE  /\ (lo * 256 + hi) % 256 = hi
         /\ (lo * 256 + hi) \div 256 = lo
         /\ lo * 256 + hi < 65536
  OBVIOUS

(* Swapping the bytes of a port twice gives the port.                      *)
LEMMA SwapSwap ==
  ASSUME NEW p, IsPort(p)
  PROVE  IsPort(Swap(p)) /\ Swap(Swap(p)) = p
<1>1. PICK lo \in Nat, hi \in Nat :
        lo = p % 256 /\ hi = p \div 256 /\ lo < 256 /\ hi < 256 /\ p = hi * 256 + lo
  BY DEF IsPort
<1>2. Swap(p) = lo * 256 + hi
  BY <1>1 DEF Swap
<1>3. Swap(lo * 256 + hi) = hi * 256 + lo
  BY <1>1, TwoBytes DEF Swap
<1> QED
  BY <1>1, <1>2, <1>3, TwoBytes DEF IsPort

(* The ports of a sockaddr are the numbers of two bytes.                   *)
LEMMA PortNumber ==
  ASSUME NEW p
  PROVE  p \in 0 .. MaxPort <=> IsPort(p)
<1>1. MaxPort \in Nat /\ MaxPort < 65536 /\ 65536 <= MaxPort + 1
  BY DEF MaxPort
<1> QED
  BY <1>1 DEF IsPort

(* A scope that fits an int survives its text; another becomes none.       *)
LEMMA ZoneThereAndBack ==
  ASSUME NEW id \in ZoneIDs, wideInt \in BOOLEAN
  PROVE  zoneID(zoneText(id)) = IF wideInt \/ id < ScopeHalf THEN id ELSE 0
<1>1. ScopeHalf \in Nat \ {0}
  BY AddressingAssumption
<1>2. CASE id = 0
  BY <1>1, <1>2 DEF zoneID, zoneText, NoZone, Zone
<1>3. CASE id # 0 /\ (wideInt \/ id < ScopeHalf)
  BY <1>1, <1>3 DEF zoneID, zoneText, Zone, ZoneIDs
<1>4. CASE id # 0 /\ ~(wideInt \/ id < ScopeHalf)
  <2>1. zoneText(id) = Zone("number", id - 2 * ScopeHalf)
    BY <1>4 DEF zoneText
  <2>2. id - 2 * ScopeHalf \notin ZoneIDs
    <3>1. id \in 0 .. 2 * ScopeHalf - 1
      BY DEF ZoneIDs
    <3>2. id - 2 * ScopeHalf < 0
      BY <1>1, <3>1
    <3> QED
      BY <1>1, <3>1, <3>2 DEF ZoneIDs
  <2> QED
    BY <1>4, <2>1, <2>2 DEF zoneID, Zone
<1> QED
  BY <1>2, <1>3, <1>4

(* A sockaddr the kernel reports for a received datagram.                  *)
Reported(s) ==
  /\ s \in SockaddrType
  /\ IsPort(s.port)
  /\ \/ s.family = "ip4" /\ s.ip.form = "4" /\ s.scope = 0
     \/ s.family = "ip6" /\ s.ip.form = "16"

(* A port survives both conversions, and each, if not big-endian.          *)
LEMMA PortThereAndBack ==
  ASSUME NEW p, IsPort(p), bigEndian \in BOOLEAN
  PROVE  /\ KernelPort(hostToNetwork16(networkToHost16(PortField(p)))) = p
         /\ ~bigEndian => networkToHost16(PortField(p)) = p
         /\ ~bigEndian => KernelPort(hostToNetwork16(p)) = p
  BY SwapSwap DEF KernelPort, hostToNetwork16, networkToHost16, PortField

(* The address the application gets.                                       *)
PortSeen(p) == IF path = "raw" THEN networkToHost16(PortField(p)) ELSE p

(* What the application sees of a reported sockaddr.                       *)
LEMMA FromEffect ==
  ASSUME NEW s, Reported(s), path \in Paths
  PROVE  FromSockaddr(s) = Address(s.ip, PortSeen(s.port),
                                   IF s.family = "ip6" THEN zoneText(s.scope) ELSE NoZone)
<1>1. path \in {"raw", "unix", "windows", "completion"}
  BY AddressingAssumption
<1>2. CASE path = "raw"
  <2> DEFINE r == [s EXCEPT !.port = networkToHost16(PortField(s.port))]
  <2>1. FromSockaddr(s) = socketAddressToAddress(r)
    BY <1>2 DEF FromSockaddr, socketAddressFromRawSockaddr
  <2>2. r.ip = s.ip /\ r.family = s.family /\ r.scope = s.scope
        /\ r.port = networkToHost16(PortField(s.port))
    BY DEF Reported, SockaddrType
  <2> QED
    BY <1>2, <2>1, <2>2 DEF socketAddressToAddress, PortSeen
<1>3. CASE path # "raw"
  BY <1>1, <1>3 DEF FromSockaddr, socketAddressToAddress, PortSeen,
       unixSockaddrToSocketAddress, windowsSockaddrToSocketAddress
<1> QED
  BY <1>2, <1>3

(* The sockaddr the kernel gets for an address.                            *)
LEMMA ToEffect ==
  ASSUME NEW a, path \in Paths
  PROVE  ToSockaddr(a) =
           Sockaddr(IF IsIP4(a.ip) THEN "ip4" ELSE "ip6",
                    IF IsIP4(a.ip) THEN To4(a.ip) ELSE a.ip,
                    IF path = "raw" THEN KernelPort(hostToNetwork16(a.port)) ELSE a.port,
                    IF IsIP4(a.ip) THEN 0 ELSE zoneID(a.zone))
<1>1. path \in {"raw", "unix", "windows", "completion"}
  BY AddressingAssumption
<1>2. CASE path = "raw"
  BY <1>2 DEF ToSockaddr, rawSockaddrFromAddress, addressToSocketAddress, Sockaddr
<1>3. CASE path # "raw"
  BY <1>1, <1>3 DEF ToSockaddr, addressToUnixSockaddr, addressToWindowsSockaddr,
       addressToSocketAddress
<1> QED
  BY <1>2, <1>3

(* From a reported sockaddr to an address and back.                        *)
LEMMA ThereAndBack ==
  ASSUME NEW s, Reported(s), path \in Paths, bigEndian \in BOOLEAN, wideInt \in BOOLEAN
  PROVE  ToSockaddr(FromSockaddr(s)) =
           [s EXCEPT !.scope = IF wideInt \/ s.scope < ScopeHalf THEN @ ELSE 0]
<1> DEFINE a == FromSockaddr(s)
           t == ToSockaddr(a)
<1>1. /\ a.ip = s.ip
      /\ a.port = PortSeen(s.port)
      /\ a.zone = IF s.family = "ip6" THEN zoneText(s.scope) ELSE NoZone
  BY FromEffect DEF Address
<1>2. IsPort(s.port) /\ s.scope \in ZoneIDs /\ s.ip \in IPType
  BY DEF Reported, SockaddrType
<1>3. t = Sockaddr(IF IsIP4(a.ip) THEN "ip4" ELSE "ip6",
                   IF IsIP4(a.ip) THEN To4(a.ip) ELSE a.ip,
                   IF path = "raw" THEN KernelPort(hostToNetwork16(a.port)) ELSE a.port,
                   IF IsIP4(a.ip) THEN 0 ELSE zoneID(a.zone))
  BY ToEffect
<1> HIDE DEF a, t
<1>4. (IF path = "raw" THEN KernelPort(hostToNetwork16(a.port)) ELSE a.port) = s.port
  BY <1>1, <1>2, PortThereAndBack DEF PortSeen
<1>5. CASE s.family = "ip4"
  <2>1. s.ip.form = "4" /\ s.scope = 0
    BY <1>5 DEF Reported
  <2>2. To4(s.ip) = s.ip /\ IsIP4(s.ip)
    BY <1>2, <2>1 DEF To4, IP, IPType, IsIP4
  <2>3. t = Sockaddr("ip4", s.ip, s.port, 0)
    BY <1>1, <1>3, <1>4, <2>2
  <2> QED
    BY <1>5, <2>1, <2>3 DEF Sockaddr, Reported, SockaddrType, t, a
<1>6. CASE s.family = "ip6"
  <2>1. s.ip.form = "16"
    BY <1>6 DEF Reported
  <2>2. ~IsIP4(s.ip)
    BY <2>1 DEF IsIP4
  <2>3. t = Sockaddr("ip6", s.ip, s.port, zoneID(zoneText(s.scope)))
    BY <1>1, <1>3, <1>4, <1>6, <2>2
  <2>4. zoneID(zoneText(s.scope)) = IF wideInt \/ s.scope < ScopeHalf THEN s.scope ELSE 0
    BY <1>2, ZoneThereAndBack
  <2> QED
    BY <1>6, <2>3, <2>4 DEF Sockaddr, Reported, SockaddrType, t, a
<1> QED
  BY <1>5, <1>6 DEF Reported

-----------------------------------------------------------------------------
(* The inductive invariant.                                                *)

PlatformOK == path \in Paths /\ bigEndian \in BOOLEAN /\ wideInt \in BOOLEAN

SocketsOK ==
  phase \in {"listening", "dialed"} => sockets[1].family \in {"ip4", "ip6"}

InboundOK ==
  phase \in {"received", "replied"} =>
    Reported(source) /\ inbound = FromSockaddr(source)

RepliedOK == phase = "replied" => sent = ToSockaddr(inbound)
SentOK    == phase = "sent" => sent = ToSockaddr(remote) /\ IsPort(remote.port)

ReplyInv == PlatformOK /\ SocketsOK /\ InboundOK /\ RepliedOK /\ SentOK

(* A bound socket is of one of the two families.                           *)
LEMMA ListenedFamily ==
  ASSUME NEW t, NEW picked
  PROVE  listenUDP(t, picked).family \in {"ip4", "ip6"}
<1> DEFINE sa == BindSockaddr(parseAddress(t))
<1>1. \E i, p, z : \/ sa = Sockaddr("ip4", i, p, z)
                   \/ sa = Sockaddr("ip6", i, p, z)
  BY DEF BindSockaddr, makeUnixSockaddr, makeWindowsSockaddr, addressToUnixSockaddr,
         addressToWindowsSockaddr, addressToSocketAddress
<1>2. sa.family \in {"ip4", "ip6"} /\ [sa EXCEPT !.port = picked].family = sa.family
  BY <1>1 DEF Sockaddr
<1> QED
  BY <1>2 DEF listenUDP

(* The kernel delivers sockaddrs of the socket's own family only.          *)
LEMMA ArrivalReported ==
  ASSUME NEW sa, sa.family \in {"ip4", "ip6"}, NEW s \in Arrivals(sa)
  PROVE  Reported(s)
<1> DEFINE Peers == {IP(f, h) : f \in {"4", "16", "mapped"}, h \in Hosts \ {Any}}
<1>1. s \in [family : {sa.family}, ip : Peers, port : Ports \cap 1 .. MaxPort, scope : ZoneIDs]
  BY DEF Arrivals
<1>2. Peers \subseteq IPType
  BY DEF IP, IPType
<1>3. /\ IF sa.family = "ip4" THEN s.ip.form = "4" ELSE s.ip.form = "16"
      /\ s.ip.form # "16" => s.scope = 0
  BY DEF Arrivals, V6Only, Scoped
<1> HIDE DEF Peers
<1>4. 1 .. MaxPort \subseteq 0 .. MaxPort
  <2>1. MaxPort \in Nat
    BY DEF MaxPort
  <2> QED
    BY <2>1
<1>5. s \in SockaddrType
  BY <1>1, <1>2, <1>4 DEF SockaddrType
<1>6. IsPort(s.port)
  BY <1>1, <1>4, PortNumber
<1> QED
  BY <1>1, <1>3, <1>5, <1>6 DEF Reported

(* The conversions depend on the platform and on nothing else.             *)
LEMMA SameConversions ==
  ASSUME UNCHANGED platformVars
  PROVE  /\ UNCHANGED inbound => ToSockaddr(inbound)' = ToSockaddr(inbound)
         /\ UNCHANGED remote => ToSockaddr(remote)' = ToSockaddr(remote)
         /\ UNCHANGED source => FromSockaddr(source)' = FromSockaddr(source)
<1>1. path' = path /\ bigEndian' = bigEndian /\ wideInt' = wideInt
  BY DEF platformVars
<1>2. ASSUME UNCHANGED inbound
      PROVE  ToSockaddr(inbound)' = ToSockaddr(inbound)
  BY <1>1, <1>2 DEF ToSockaddr, rawSockaddrFromAddress, KernelPort
<1>3. ASSUME UNCHANGED remote
      PROVE  ToSockaddr(remote)' = ToSockaddr(remote)
  BY <1>1, <1>3 DEF ToSockaddr, rawSockaddrFromAddress, KernelPort
<1>4. ASSUME UNCHANGED source
      PROVE  FromSockaddr(source)' = FromSockaddr(source)
  BY <1>1, <1>4 DEF FromSockaddr, socketAddressToAddress, zoneText,
       socketAddressFromRawSockaddr, PortField
<1> QED
  BY <1>2, <1>3, <1>4

(* The invariant holds initially, in every step, and so always.            *)
LEMMA ReplyInvInit == Init => ReplyInv
  BY AddressingAssumption
     DEF Init, ReplyInv, PlatformOK, SocketsOK, InboundOK, RepliedOK, SentOK

LEMMA ReplyInvNext == ReplyInv /\ [Next]_vars => ReplyInv'
<1> SUFFICES ASSUME ReplyInv, [Next]_vars
             PROVE  ReplyInv'
  OBVIOUS
<1> USE DEF ReplyInv, PlatformOK
<1>1. ASSUME NEW t \in Texts, NEW count \in 1 .. MaxWorkers, NEW known \in BOOLEAN,
             Listen(t, count, known)
      PROVE  ReplyInv'
  <2> DEFINE first == listenUDP(t, Ephemeral)
             name  == socketName(first, t, known)
             bound == [j \in 1 .. count |->
                         IF j = 1 THEN first ELSE listenUDP(name, Ephemeral + j - 1)]
  <2>1. phase' \in {"listening", "workerFailed", "failed"}
    BY <1>1 DEF Listen
  <2>2. phase' = "listening" => sockets' = bound
    BY <1>1 DEF Listen
  <2>3. bound[1] = first
    <3>1. 1 \in 1 .. count
      BY AddressingAssumption
    <3> QED
      BY <3>1
  <2>4. first.family \in {"ip4", "ip6"}
    BY ListenedFamily
  <2>5. SocketsOK'
    BY <2>1, <2>2, <2>3, <2>4 DEF SocketsOK
  <2> QED
    BY <1>1, <2>1, <2>5 DEF Listen, platformVars, InboundOK, RepliedOK, SentOK
<1>2. ASSUME NEW t \in Texts, Dial(t)
      PROVE  ReplyInv'
  <2> DEFINE bound == listenUDP(clientBindAddress(parseAddress(t)), Ephemeral)
  <2>1. phase' \in {"dialed", "failed"}
    BY <1>2 DEF Dial
  <2>2. phase' = "dialed" => sockets' = <<bound>>
    BY <1>2 DEF Dial
  <2>3. bound.family \in {"ip4", "ip6"}
    BY ListenedFamily
  <2>4. SocketsOK'
    BY <2>1, <2>2, <2>3 DEF SocketsOK
  <2> QED
    BY <1>2, <2>1, <2>4 DEF Dial, platformVars, InboundOK, RepliedOK, SentOK
<1>3. ASSUME Receive
      PROVE  ReplyInv'
  <2>1. PICK s \in Arrivals(sockets[1]) : source' = s /\ inbound' = FromSockaddr(s)
    BY <1>3 DEF Receive
  <2>2. Reported(s)
    BY <1>3, ArrivalReported DEF Receive, SocketsOK
  <2>3. phase' = "received" /\ UNCHANGED platformVars
    BY <1>3 DEF Receive
  <2>4. FromSockaddr(source)' = FromSockaddr(s)
    BY <2>1, <2>3 DEF platformVars, FromSockaddr, socketAddressToAddress, zoneText,
         socketAddressFromRawSockaddr, PortField, unixSockaddrToSocketAddress,
         windowsSockaddrToSocketAddress
  <2> QED
    BY <2>1, <2>2, <2>3, <2>4 DEF platformVars, SocketsOK, InboundOK, RepliedOK, SentOK
<1>4. ASSUME Reply
      PROVE  ReplyInv'
  <2>1. /\ phase = "received" /\ phase' = "replied" /\ sent' = ToSockaddr(inbound)
        /\ UNCHANGED <<platformVars, source, inbound>>
    BY <1>4 DEF Reply
  <2>2. ToSockaddr(inbound)' = ToSockaddr(inbound)
    BY <2>1, SameConversions
  <2>3. FromSockaddr(source)' = FromSockaddr(source)
    BY <2>1, SameConversions
  <2> QED
    BY <2>1, <2>2, <2>3 DEF platformVars, SocketsOK, InboundOK, RepliedOK, SentOK, Reported
<1>5. ASSUME WriteRemote
      PROVE  ReplyInv'
  <2>1. /\ phase' = "sent" /\ sent' = ToSockaddr(remote) /\ Valid(remote)
        /\ UNCHANGED <<platformVars, remote>>
    BY <1>5 DEF WriteRemote
  <2>2. ToSockaddr(remote)' = ToSockaddr(remote)
    BY <2>1, SameConversions
  <2>3. IsPort(remote.port)
    BY <2>1, PortNumber DEF Valid
  <2> QED
    BY <2>1, <2>2, <2>3 DEF platformVars, SocketsOK, InboundOK, RepliedOK, SentOK
<1>6. CASE UNCHANGED vars
  <2>1. UNCHANGED <<platformVars, phase, sockets, remote, source, inbound, sent>>
    BY <1>6 DEF vars
  <2>2. /\ ToSockaddr(inbound)' = ToSockaddr(inbound)
        /\ ToSockaddr(remote)' = ToSockaddr(remote)
        /\ FromSockaddr(source)' = FromSockaddr(source)
    BY <2>1, SameConversions
  <2> QED
    BY <2>1, <2>2 DEF platformVars, SocketsOK, InboundOK, RepliedOK, SentOK, Reported
<1> QED
  BY <1>1, <1>2, <1>3, <1>4, <1>5, <1>6 DEF Next

LEMMA ReplyInvHolds == Spec => []ReplyInv
  BY ReplyInvInit, ReplyInvNext, PTL DEF Spec

-----------------------------------------------------------------------------
(* A reply goes back to the sockaddr its datagram came from.               *)
THEOREM RepliesReturn == Spec => []ReplyReturns
<1>1. ReplyInv => ReplyReturns
  BY ThereAndBack DEF ReplyInv, PlatformOK, InboundOK, RepliedOK, ReplyReturns, ScopeFits
<1> QED
  BY <1>1, ReplyInvHolds, PTL

(* Ports are those the kernel sees, unless a raw sockaddr is converted on  *)
(* a big-endian processor.                                                 *)
THEOREM PortsAgree == Spec => []PortIsPeersUnlessSwapped
<1>1. ASSUME ReplyInv, ~SwappedPorts, phase = "received"
      PROVE  inbound.port = source.port
  <2>1. inbound.port = PortSeen(source.port) /\ IsPort(source.port)
    BY <1>1, FromEffect DEF ReplyInv, PlatformOK, InboundOK, Address, Reported
  <2> QED
    BY <1>1, <2>1, PortThereAndBack DEF ReplyInv, PlatformOK, SwappedPorts, PortSeen
<1>2. ASSUME ReplyInv, ~SwappedPorts, phase = "sent"
      PROVE  sent.port = remote.port
  <2>1. IsPort(remote.port)
    BY <1>2 DEF ReplyInv, SentOK
  <2>2. sent.port = IF path = "raw" THEN KernelPort(hostToNetwork16(remote.port))
                                    ELSE remote.port
    BY <1>2, ToEffect DEF ReplyInv, PlatformOK, SentOK, Sockaddr
  <2> QED
    BY <1>2, <2>1, <2>2, PortThereAndBack DEF ReplyInv, PlatformOK, SwappedPorts
<1> QED
  BY <1>1, <1>2, ReplyInvHolds, PTL DEF PortIsPeersUnlessSwapped, PortIsPeers

-----------------------------------------------------------------------------
(* The address an application sees, printed and parsed, is itself; so it   *)
(* leads to the same peer.                                                 *)
THEOREM PrintedParses == Spec => []PrintedAddressParses
<1>1. ASSUME ReplyInv, phase = "received"
      PROVE  LET t == String(inbound)
             IN Parses(t) /\ ToSockaddr(parseAddress(t)) = ToSockaddr(inbound)
  <2> DEFINE t == String(inbound)
             zone == IF source.family = "ip6" THEN zoneText(source.scope) ELSE NoZone
  <2>1. Reported(source) /\ inbound = Address(source.ip, PortSeen(source.port), zone)
    BY <1>1, FromEffect DEF ReplyInv, PlatformOK, InboundOK
  <2>2. PortSeen(source.port) \in 0 .. MaxPort
    BY <2>1, SwapSwap, PortNumber
       DEF Reported, PortSeen, networkToHost16, hostToNetwork16, PortField
  <2> HIDE DEF zone
  <2>3. CASE source.ip.form = "4"
    <3>1. t = Text("literal", To4(source.ip), NoZone, PortSeen(source.port))
      BY <2>1, <2>3 DEF String, Address, IsIP4
    <3>2. To4(source.ip).form = "4" /\ To4(To4(source.ip)) = To4(source.ip)
      BY DEF To4, IP
    <3>3. parseAddress(t) = Address(To4(source.ip), PortSeen(source.port), NoZone)
      BY <3>1, <3>2 DEF parseAddress, Text, IsIP4
    <3>4. Parses(t)
      BY <2>2, <3>1 DEF Parses, Text
    <3>5. ToSockaddr(parseAddress(t)) = ToSockaddr(inbound)
      BY <1>1, <2>1, <2>3, <3>2, <3>3, ToEffect DEF Address, IsIP4, ReplyInv, PlatformOK
    <3> QED
      BY <3>4, <3>5
  <2>4. CASE source.ip.form = "16"
    <3>1. t = Text("literal", source.ip, zone, PortSeen(source.port))
      BY <2>1, <2>4 DEF String, Address, IsIP4
    <3>2. parseAddress(t) = inbound
      BY <2>1, <2>4, <3>1 DEF parseAddress, Text, IsIP4
    <3>3. Parses(t)
      BY <2>2, <3>1 DEF Parses, Text
    <3> QED
      BY <3>2, <3>3
  <2> QED
    BY <2>1, <2>3, <2>4 DEF Reported
<1>2. ReplyInv => PrintedAddressParses
  BY <1>1 DEF PrintedAddressParses
<1> QED
  BY <1>2, ReplyInvHolds, PTL

-----------------------------------------------------------------------------
(* A client's socket and its datagrams.                                    *)

FamilyOf(ip) == IF IsIP16(ip) THEN "ip6" ELSE "ip4"

LiteralForms == {"4", "16", "mapped"}

Readable(t) ==
  \/ t.host \in {"empty", "localhost"}
  \/ t.host = "literal" /\ t.ip.form \in LiteralForms /\ t.ip = IP(t.ip.form, t.ip.host)

DialOK ==
  phase \in {"dialed", "sent"} =>
    /\ Readable(text)
    /\ remote = parseAddress(text)
    /\ sockets[1].family = FamilyOf(remote.ip)

(* A client's socket is of the family of its remote address.               *)
LEMMA ClientSocket ==
  ASSUME NEW r
  PROVE  listenUDP(clientBindAddress(r), Ephemeral).family = FamilyOf(r.ip)
<1> DEFINE t  == clientBindAddress(r)
           a  == parseAddress(t)
           sa == BindSockaddr(a)
<1>1. CASE IsIP16(r.ip)
  <2>1. a = Address(IP("16", Any), 0, NoZone)
    BY <1>1 DEF clientBindAddress, parseAddress, Text, IsIP4, IP
  <2>2. sa = Sockaddr("ip6", a.ip, a.port, zoneID(a.zone))
    BY <2>1 DEF BindSockaddr, makeUnixSockaddr, makeWindowsSockaddr, addressToUnixSockaddr,
         addressToWindowsSockaddr, addressToSocketAddress, Address, IP, IsIP4
  <2> QED
    BY <1>1, <2>2 DEF listenUDP, Sockaddr, FamilyOf
<1>2. CASE ~IsIP16(r.ip)
  <2>1. a.ip.form = "4"
    BY <1>2 DEF clientBindAddress, parseAddress, Text, IsIP4, IP, To4, Address
  <2>2. sa = Sockaddr("ip4", To4(a.ip), a.port, 0)
    BY <2>1 DEF BindSockaddr, makeUnixSockaddr, makeWindowsSockaddr, addressToUnixSockaddr,
         addressToWindowsSockaddr, addressToSocketAddress, IsIP4
  <2> QED
    BY <1>2, <2>2 DEF listenUDP, Sockaddr, FamilyOf
<1> QED
  BY <1>1, <1>2

(* A text that parses is empty, localhost or a literal.                    *)
LEMMA TextForms ==
  ASSUME NEW t \in Texts, Parses(t)
  PROVE  Readable(t)
  BY DEF Texts, Parses, Text, IP, LiteralForms, Readable

(* A client's remote address stays that of its text.                       *)
LEMMA DialInvNext == DialOK /\ [Next]_vars => DialOK'
<1> SUFFICES ASSUME DialOK, [Next]_vars
             PROVE  DialOK'
  OBVIOUS
<1>1. ASSUME NEW t \in Texts, NEW count \in 1 .. MaxWorkers, NEW known \in BOOLEAN,
             Listen(t, count, known)
      PROVE  DialOK'
  BY <1>1 DEF Listen, DialOK
<1>2. ASSUME NEW t \in Texts, Dial(t)
      PROVE  DialOK'
  <2>1. CASE Parses(t)
    <3> DEFINE bound == listenUDP(clientBindAddress(parseAddress(t)), Ephemeral)
    <3>1. text' = t /\ remote' = parseAddress(t) /\ sockets' = <<bound>>
      BY <1>2, <2>1 DEF Dial
    <3>2. bound.family = FamilyOf(parseAddress(t).ip)
      BY ClientSocket
    <3> HIDE DEF bound
    <3> QED
      BY <2>1, <3>1, <3>2, TextForms DEF DialOK
  <2>2. CASE ~Parses(t)
    BY <1>2, <2>2 DEF Dial, DialOK
  <2> QED
    BY <2>1, <2>2
<1>3. CASE Receive
  BY <1>3 DEF Receive, DialOK
<1>4. CASE Reply
  BY <1>4 DEF Reply, DialOK
<1>5. CASE WriteRemote
  BY <1>5 DEF WriteRemote, DialOK
<1>6. CASE UNCHANGED vars
  BY <1>6 DEF vars, DialOK
<1> QED
  BY <1>1, <1>2, <1>3, <1>4, <1>5, <1>6 DEF Next

(* The scope of a zone that exists is the one its text names.              *)
LEMMA ExistingZone ==
  ASSUME NEW z, ZoneExists(z)
  PROVE  zoneID(z) = z.n
<1>1. CASE z = NoZone
  BY <1>1 DEF zoneID, NoZone, Zone
<1>2. CASE z.kind = "number" /\ z.n \in ZoneIDs
  BY <1>2 DEF zoneID
<1>3. CASE z.kind = "name" /\ z.n \in Interfaces
  BY <1>3 DEF zoneID
<1> QED
  BY <1>1, <1>2, <1>3 DEF ZoneExists

(* What a client sends goes to the host and port its text means, the port  *)
(* of a raw sockaddr on a big-endian processor excepted, and to the scope  *)
(* its zone names, if there is such a scope, from a socket of that family. *)
THEOREM DialsReach == Spec => []DialReaches
<1>1. ASSUME ReplyInv, DialOK, phase = "sent"
      PROVE  DialReaches
  <2> DEFINE r == parseAddress(text)
             m == Meant(text)
  <2>1. /\ remote = r /\ IsPort(r.port)
        /\ sent = Sockaddr(IF IsIP4(r.ip) THEN "ip4" ELSE "ip6",
                           IF IsIP4(r.ip) THEN To4(r.ip) ELSE r.ip,
                           IF path = "raw" THEN KernelPort(hostToNetwork16(r.port)) ELSE r.port,
                           IF IsIP4(r.ip) THEN 0 ELSE zoneID(r.zone))
    BY <1>1, ToEffect DEF ReplyInv, PlatformOK, SentOK, DialOK
  <2>2. r.port = text.port
    BY <1>1 DEF DialOK, Readable, parseAddress, Address
  <2>3. ~SwappedPorts => sent.port = text.port
    BY <1>1, <2>1, <2>2, PortThereAndBack DEF Sockaddr, SwappedPorts, ReplyInv, PlatformOK
  <2>4. m.port = text.port /\ m.scope = text.zone.n
    BY DEF Meant
  <2>5. /\ sent.ip = m.ip /\ sent.family = m.family /\ sockets[1].family = m.family
        /\ m.family = "ip6" => sent.scope = zoneID(text.zone)
    <3>1. CASE text.host = "literal" /\ text.ip.form = "16"
      <4>1. r = Address(text.ip, text.port, text.zone) /\ ~IsIP4(r.ip) /\ IsIP16(r.ip)
        BY <3>1 DEF parseAddress, Address, IsIP4, IsIP16
      <4>2. m.ip = text.ip /\ m.family = "ip6"
        BY <3>1 DEF Meant
      <4>3. sent.ip = text.ip /\ sent.family = "ip6" /\ sent.scope = zoneID(text.zone)
        BY <2>1, <4>1 DEF Sockaddr, Address
      <4> QED
        BY <1>1, <2>1, <4>1, <4>2, <4>3 DEF DialOK, FamilyOf
    <3>2. CASE ~(text.host = "literal" /\ text.ip.form = "16")
      <4>1. /\ text.host \in {"empty", "localhost"}
               \/ (text.host = "literal" /\ text.ip.form \in {"4", "mapped"})
            /\ sockets[1].family = FamilyOf(r.ip)
            /\ text.host = "literal" => text.ip = IP(text.ip.form, text.ip.host)
        BY <1>1, <2>1, <3>2 DEF DialOK, LiteralForms, Readable
      <4>2. IsIP4(r.ip) /\ ~IsIP16(r.ip)
        BY <4>1 DEF parseAddress, Address, IsIP4, IsIP16, IP, To4
      <4>3. To4(r.ip) = m.ip /\ m.family = "ip4"
        <5>1. CASE text.host \in {"empty", "localhost"}
          BY <5>1 DEF parseAddress, Address, Meant, To4, IP, IsIP4
        <5>2. CASE text.host = "literal" /\ text.ip.form = "mapped"
          BY <5>2 DEF parseAddress, Address, Meant, To4, IP, IsIP4
        <5>3. CASE text.host = "literal" /\ text.ip.form = "4"
          BY <4>1, <5>3 DEF parseAddress, Address, Meant, To4, IP, IsIP4
        <5> QED
          BY <4>1, <5>1, <5>2, <5>3
      <4> QED
        BY <2>1, <4>1, <4>2, <4>3 DEF Sockaddr, FamilyOf
    <3> QED
      BY <3>1, <3>2
  <2>6. ZoneExists(text.zone) => zoneID(text.zone) = text.zone.n
    BY ExistingZone
  <2> HIDE DEF m, r
  <2> QED
    BY <2>3, <2>4, <2>5, <2>6 DEF DialReaches, m
<1>2. ReplyInv /\ DialOK => DialReaches
  BY <1>1 DEF DialReaches
<1>3. Init => DialOK
  BY DEF Init, DialOK
<1> QED
  BY <1>2, <1>3, DialInvNext, ReplyInvHolds, PTL DEF Spec

-----------------------------------------------------------------------------
(* Types. Ports and scopes are kept as the numbers that fit their fields.  *)

NamedZone(z) == z \in ZoneType /\ (z.kind = "name" => z.n \in Interfaces \cup {0})

Usable(a) == a.ip \in IPType /\ IsPort(a.port) /\ NamedZone(a.zone)

Bindable(sa) ==
  /\ sa = Sockaddr(sa.family, sa.ip, sa.port, sa.scope)
  /\ sa.family \in {"ip4", "ip6"} /\ sa.ip \in IPType
  /\ IsPort(sa.port) /\ sa.scope \in ZoneIDs

LEMMA BindableType ==
  ASSUME NEW sa, Bindable(sa)
  PROVE  sa \in SockaddrType
<1>1. sa.port \in 0 .. MaxPort
  BY PortNumber DEF Bindable
<1>2. Sockaddr(sa.family, sa.ip, sa.port, sa.scope) \in SockaddrType
  BY <1>1 DEF Bindable, Sockaddr, SockaddrType
<1> QED
  BY <1>2 DEF Bindable

LEMMA UsableType ==
  ASSUME NEW ip, NEW port, NEW zone, Usable(Address(ip, port, zone))
  PROVE  Address(ip, port, zone) \in AddressType
<1>1. ip \in IPType /\ IsPort(port) /\ zone \in ZoneType
  BY DEF Usable, Address, NamedZone
<1>2. port \in 0 .. MaxPort
  BY <1>1, PortNumber
<1> QED
  BY <1>1, <1>2 DEF Address, AddressType

(* The scope of a zone fits its field.                                     *)
LEMMA ScopeFitsField ==
  /\ \A z : NamedZone(z) => zoneID(z) \in ZoneIDs
  /\ 0 \in ZoneIDs /\ NamedZone(NoZone) /\ zoneID(NoZone) = 0
<1>1. ScopeHalf \in Nat \ {0} /\ Interfaces \subseteq 1 .. 2 * ScopeHalf - 1
  BY AddressingAssumption
<1>2. 0 \in ZoneIDs
  BY <1>1 DEF ZoneIDs
<1>3. Interfaces \subseteq ZoneIDs
  BY <1>1 DEF ZoneIDs
<1>4. NamedZone(NoZone) /\ zoneID(NoZone) = 0
  BY DEF NamedZone, NoZone, Zone, ZoneType, zoneID
<1>5. ASSUME NEW z, NamedZone(z)
      PROVE  zoneID(z) \in ZoneIDs
  <2>1. z.kind \in {"none", "number", "name"}
    BY <1>5 DEF NamedZone, ZoneType
  <2> QED
    BY <1>2, <1>3, <1>5, <2>1 DEF zoneID, NamedZone
<1> QED
  BY <1>2, <1>4, <1>5

(* A wildcard or loopback IP, and the four bytes of any.                   *)
LEMMA IPForms ==
  /\ \A f \in {"4", "16", "mapped", "nil"}, h \in Hosts : IP(f, h) \in IPType
  /\ \A ip \in IPType : To4(ip) \in IPType /\ To4(To4(ip)) = To4(ip) /\ IsIP4(To4(ip))
  /\ Any \in Hosts /\ Loopback \in Hosts /\ NilIP \in IPType
  BY AddressingAssumption DEF IP, IPType, To4, NilIP, IsIP4

(* The text of an address, whether or not it parses.                       *)
TextType == [host : {"empty", "localhost", "garbage", "literal"}, ip : IPType,
             zone : ZoneType, port : Int]

LEMMA TextsTyped ==
  ASSUME NEW t \in Texts
  PROVE  t \in TextType /\ t.ip \in IPType /\ NamedZone(t.zone)
<1>1. /\ Ports \cup {-1} \subseteq Int /\ 0 \in Int
      /\ Interfaces \subseteq Int /\ -1 .. 2 * ScopeHalf \subseteq Int
  BY AddressingAssumption
<1>2. CASE \E h \in {"empty", "localhost", "garbage"}, p \in Ports \cup {-1} :
             t = Text(h, NilIP, NoZone, p)
  <2>1. NoZone \in ZoneType /\ NilIP \in IPType /\ NamedZone(NoZone)
    BY ScopeFitsField, IPForms DEF NamedZone
  <2> QED
    BY <1>1, <1>2, <2>1 DEF Text, TextType
<1>3. CASE \E f \in {"4", "16", "mapped"}, h \in Hosts, p \in Ports \cup {-1},
              z \in {NoZone} \cup {Zone("number", n) : n \in -1 .. 2 * ScopeHalf}
                             \cup {Zone("name", n) : n \in Interfaces \cup {0}} :
             t = Text("literal", IP(f, h), z, p)
  <2>1. PICK f \in {"4", "16", "mapped"}, h \in Hosts, p \in Ports \cup {-1},
              z \in {NoZone} \cup {Zone("number", n) : n \in -1 .. 2 * ScopeHalf}
                             \cup {Zone("name", n) : n \in Interfaces \cup {0}} :
             t = Text("literal", IP(f, h), z, p)
    BY <1>3
  <2>2. NamedZone(z)
    <3>1. CASE z = NoZone
      BY <3>1, ScopeFitsField
    <3>2. CASE \E n \in -1 .. 2 * ScopeHalf : z = Zone("number", n)
      BY <1>1, <3>2 DEF NamedZone, Zone, ZoneType
    <3>3. CASE \E n \in Interfaces \cup {0} : z = Zone("name", n)
      BY <1>1, <3>3 DEF NamedZone, Zone, ZoneType
    <3> QED
      BY <3>1, <3>2, <3>3
  <2>3. IP(f, h) \in IPType
    BY IPForms
  <2>4. z \in ZoneType
    BY <2>2 DEF NamedZone
  <2> QED
    BY <1>1, <2>1, <2>2, <2>3, <2>4 DEF Text, TextType
<1> QED
  BY <1>2, <1>3 DEF Texts

(* A text that parses gives an address that has a sockaddr.                *)
LEMMA ParsedUsable ==
  ASSUME NEW t, t.host \in {"empty", "localhost", "garbage", "literal"}, t.ip \in IPType,
         NamedZone(t.zone), Parses(t)
  PROVE  /\ Usable(parseAddress(t))
         /\ \E ip, port, zone : parseAddress(t) = Address(ip, port, zone)
<1>1. IsPort(t.port) /\ t.host \in {"empty", "localhost", "literal"}
  BY PortNumber DEF Parses
<1>2. IP("mapped", Any) \in IPType /\ IP("4", Loopback) \in IPType /\ To4(t.ip) \in IPType
  BY IPForms
<1> QED
  BY <1>1, <1>2, ScopeFitsField DEF parseAddress, Usable, Address

(* The sockaddr of a usable address.                                       *)
LEMMA SockaddrBindable ==
  ASSUME NEW a, Usable(a)
  PROVE  /\ Bindable(addressToSocketAddress(a))
         /\ \A p : IsPort(p) => Bindable([addressToSocketAddress(a) EXCEPT !.port = p])
<1> DEFINE sa == addressToSocketAddress(a)
<1>1. \/ sa = Sockaddr("ip4", To4(a.ip), a.port, 0)
      \/ sa = Sockaddr("ip6", a.ip, a.port, zoneID(a.zone))
  BY DEF addressToSocketAddress
<1>2. /\ a.ip \in IPType /\ To4(a.ip) \in IPType /\ IsPort(a.port)
      /\ zoneID(a.zone) \in ZoneIDs /\ 0 \in ZoneIDs
  BY IPForms, ScopeFitsField DEF Usable
<1> HIDE DEF sa
<1> QED
  BY <1>1, <1>2 DEF Bindable, Sockaddr, sa

LEMMA ListenedBindable ==
  ASSUME NEW t, Usable(parseAddress(t)), NEW picked, IsPort(picked)
  PROVE  /\ Bindable(BindSockaddr(parseAddress(t)))
         /\ Bindable(listenUDP(t, picked))
<1>1. BindSockaddr(parseAddress(t)) = addressToSocketAddress(parseAddress(t))
  BY DEF BindSockaddr, makeUnixSockaddr, makeWindowsSockaddr, addressToUnixSockaddr,
         addressToWindowsSockaddr
<1> QED
  BY <1>1, SockaddrBindable DEF listenUDP

LEMMA SentBindable ==
  ASSUME NEW a, Usable(a), path \in Paths, bigEndian \in BOOLEAN
  PROVE  Bindable(ToSockaddr(a))
<1>1. path \in {"raw", "unix", "windows", "completion"}
  BY AddressingAssumption
<1>2. IsPort(KernelPort(hostToNetwork16(a.port)))
  BY SwapSwap DEF Usable, KernelPort, hostToNetwork16
<1> QED
  BY <1>1, <1>2, SockaddrBindable
  DEF ToSockaddr, rawSockaddrFromAddress, addressToUnixSockaddr, addressToWindowsSockaddr

(* What the application gets of a reported sockaddr.                       *)
LEMMA InboundUsable ==
  ASSUME NEW s, Reported(s), path \in Paths, bigEndian \in BOOLEAN, wideInt \in BOOLEAN
  PROVE  Usable(FromSockaddr(s)) /\ FromSockaddr(s) \in AddressType
<1> DEFINE z == IF s.family = "ip6" THEN zoneText(s.scope) ELSE NoZone
<1>1. FromSockaddr(s) = Address(s.ip, PortSeen(s.port), z)
  BY FromEffect
<1>2. s.ip \in IPType /\ s.scope \in ZoneIDs /\ IsPort(s.port)
  BY DEF Reported, SockaddrType
<1>3. IsPort(PortSeen(s.port))
  BY <1>2, SwapSwap DEF PortSeen, PortField, networkToHost16, hostToNetwork16
<1>4. NamedZone(zoneText(s.scope))
  <2>1. s.scope \in Int /\ s.scope - 2 * ScopeHalf \in Int
    BY <1>2, AddressingAssumption DEF ZoneIDs
  <2>2. zoneText(s.scope) = NoZone \/ \E n \in Int : zoneText(s.scope) = Zone("number", n)
    BY <2>1 DEF zoneText
  <2>3. \A n \in Int : NamedZone(Zone("number", n))
    BY DEF NamedZone, Zone, ZoneType
  <2> QED
    BY <2>2, <2>3, ScopeFitsField
<1>5. NamedZone(z)
  BY <1>4, ScopeFitsField
<1> HIDE DEF z
<1>6. Usable(Address(s.ip, PortSeen(s.port), z))
  BY <1>2, <1>3, <1>5 DEF Usable, Address
<1> QED
  BY <1>1, <1>6, UsableType

(* The ports that the kernel picks are some.                               *)
LEMMA PickedPort ==
  /\ Ephemeral # 0 /\ IsPort(Ephemeral)
  /\ \A j \in 1 .. MaxWorkers : IsPort(Ephemeral + j - 1)
<1>1. MaxPort \in Nat /\ MaxPort < 65536
  BY DEF MaxPort
<1>2. /\ Ephemeral \in Nat /\ Ephemeral # 0
      /\ MaxWorkers \in Nat /\ MaxWorkers # 0 /\ Ephemeral + MaxWorkers - 1 <= MaxPort
  BY AddressingAssumption
<1> QED
  BY <1>1, <1>2 DEF IsPort

(* The socket that listenUDP binds, and the one bound to its name.         *)
OwnForm(sa) == \/ sa.family = "ip4" /\ sa.ip = To4(sa.ip) /\ sa.scope = 0
               \/ sa.family = "ip6" /\ ~IsIP4(sa.ip)

LEMMA FirstSocket ==
  ASSUME NEW t \in Texts, Parses(t)
  PROVE  LET sa == listenUDP(t, Ephemeral)
         IN  /\ Bindable(sa) /\ OwnForm(sa) /\ sa.port # 0
             /\ Scoped(sa) => t.ip.form = "16" /\ t.ip.host \in LinkLocal
<1> DEFINE a  == parseAddress(t)
           sb == BindSockaddr(a)
           sa == listenUDP(t, Ephemeral)
<1>1. Usable(a)
  BY TextsTyped, ParsedUsable DEF TextType
<1>2. IsPort(Ephemeral) /\ Ephemeral # 0
  BY PickedPort
<1>3. Bindable(sa)
  BY <1>1, <1>2, ListenedBindable
<1>4. sb = addressToSocketAddress(a) /\ Bindable(sb)
  BY <1>1, SockaddrBindable DEF BindSockaddr, makeUnixSockaddr, makeWindowsSockaddr,
     addressToUnixSockaddr, addressToWindowsSockaddr
<1>5. \/ sb = Sockaddr("ip4", To4(a.ip), a.port, 0)
      \/ sb = Sockaddr("ip6", a.ip, a.port, zoneID(a.zone)) /\ ~IsIP4(a.ip)
  BY <1>4 DEF addressToSocketAddress
<1>6. OwnForm(sb)
  BY <1>5 DEF OwnForm, Sockaddr, To4, IP
<1>7. /\ sa.family = sb.family /\ sa.ip = sb.ip /\ sa.scope = sb.scope
      /\ sa.port = IF sb.port = 0 THEN Ephemeral ELSE sb.port
  <2>1. sb = Sockaddr(sb.family, sb.ip, sb.port, sb.scope)
    BY <1>4 DEF Bindable
  <2> HIDE DEF a
  <2>2. sa = IF sb.port = 0 THEN [sb EXCEPT !.port = Ephemeral] ELSE sb
    BY DEF listenUDP, a
  <2> HIDE DEF sb, sa
  <2>3. CASE sb.port = 0
    <3>1. sa = [sb EXCEPT !.port = Ephemeral]
      BY <2>2, <2>3
    <3> QED
      BY <2>1, <2>3, <3>1 DEF Sockaddr
  <2> QED
    BY <2>2, <2>3
<1>8. OwnForm(sa) /\ sa.port # 0
  BY <1>2, <1>6, <1>7 DEF OwnForm
<1>9. ASSUME Scoped(sa)
      PROVE  t.ip.form = "16" /\ t.ip.host \in LinkLocal
  <2>1. sb.ip.form = "16" /\ sb.ip.host \in LinkLocal
    BY <1>7, <1>9 DEF Scoped
  <2>2. sb.ip = a.ip /\ ~IsIP4(a.ip)
    BY <1>5, <2>1 DEF Sockaddr, To4, IP
  <2>3. t.host \in {"empty", "localhost", "literal"}
    BY TextsTyped DEF TextType, Parses
  <2>4. a.ip = t.ip
    BY <2>2, <2>3 DEF parseAddress, Address, IsIP4, IP, To4
  <2> QED
    BY <2>1, <2>2, <2>4
<1> QED
  BY <1>3, <1>8, <1>9

(* A socket bound to the name that the kernel gave of another: the scope is*)
(* missing.                                                                *)
LEMMA SocketOfName ==
  ASSUME NEW sa, Bindable(sa), OwnForm(sa), sa.port # 0, NEW t
  PROVE  LET name == socketName(sa, t, TRUE)
         IN  /\ Parses(name)
             /\ BindSockaddr(parseAddress(name)) = [sa EXCEPT !.scope = 0]
             /\ \A picked : listenUDP(name, picked) = [sa EXCEPT !.scope = 0]
<1> DEFINE name == socketName(sa, t, TRUE)
           a    == parseAddress(name)
<1>1. name = Text("literal", sa.ip, NoZone, sa.port)
  BY DEF socketName
<1> HIDE DEF name
<1>2. name.host = "literal" /\ name.ip = sa.ip /\ name.zone = NoZone /\ name.port = sa.port
  BY <1>1 DEF Text
<1>3. Parses(name)
  BY <1>2, PortNumber DEF Parses, Bindable
<1>4. a = IF IsIP4(sa.ip) THEN Address(To4(sa.ip), sa.port, NoZone)
                          ELSE Address(sa.ip, sa.port, NoZone)
  BY <1>2 DEF parseAddress
<1>5. BindSockaddr(a) = addressToSocketAddress(a)
  BY DEF BindSockaddr, makeUnixSockaddr, makeWindowsSockaddr,
         addressToUnixSockaddr, addressToWindowsSockaddr
<1> HIDE DEF a
<1>6. sa.ip \in IPType /\ sa = Sockaddr(sa.family, sa.ip, sa.port, sa.scope)
  BY DEF Bindable
<1>7. addressToSocketAddress(a) = Sockaddr(sa.family, sa.ip, sa.port, 0)
  <2>1. CASE sa.family = "ip4" /\ sa.ip = To4(sa.ip)
    <3>1. IsIP4(sa.ip)
      BY <1>6, <2>1, IPForms
    <3>2. a.ip = sa.ip /\ a.port = sa.port
      BY <1>4, <2>1, <3>1 DEF Address
    <3> QED
      BY <2>1, <3>1, <3>2 DEF addressToSocketAddress
  <2>2. CASE sa.family = "ip6" /\ ~IsIP4(sa.ip)
    <3>1. a.ip = sa.ip /\ a.port = sa.port /\ a.zone = NoZone
      BY <1>4, <2>2 DEF Address
    <3> QED
      BY <2>2, <3>1, ScopeFitsField DEF addressToSocketAddress
  <2> QED
    BY <2>1, <2>2 DEF OwnForm
<1>8. [sa EXCEPT !.scope = 0] = Sockaddr(sa.family, sa.ip, sa.port, 0)
  BY <1>6 DEF Sockaddr
<1>9. BindSockaddr(a).port # 0
  BY <1>5, <1>7 DEF Sockaddr
<1> QED
  BY <1>3, <1>5, <1>7, <1>8, <1>9 DEF listenUDP, a, name

(* A socket bound to the printed text of another: nothing is missing, but  *)
(* the kernel picks a port again.                                          *)
LEMMA SocketOfText ==
  ASSUME NEW sa, NEW t \in Texts, Parses(t)
  PROVE  LET name == socketName(sa, t, FALSE)
         IN  /\ Parses(name)
             /\ BindSockaddr(parseAddress(name)) = BindSockaddr(parseAddress(t))
             /\ \A picked : /\ IsPort(picked) => Bindable(listenUDP(name, picked))
                            /\ t.port # 0 => listenUDP(name, picked) = listenUDP(t, Ephemeral)
<1> DEFINE name == socketName(sa, t, FALSE)
           a    == parseAddress(t)
           b    == parseAddress(name)
<1>1. Usable(a)
  BY TextsTyped, ParsedUsable DEF TextType
<1>2. a.port = t.port
  BY TextsTyped DEF TextType, Parses, parseAddress, Address
<1>3. name = Text("literal", IF IsIP4(a.ip) THEN To4(a.ip) ELSE a.ip,
                  IF IsIP4(a.ip) THEN NoZone ELSE a.zone, a.port)
  BY DEF socketName, String
<1> HIDE DEF a, name
<1>4. Parses(name)
  BY <1>1, <1>3, PortNumber DEF Usable, Parses, Text
<1>5. a.ip \in IPType /\ To4(To4(a.ip)) = To4(a.ip) /\ IsIP4(To4(a.ip))
  BY <1>1, IPForms DEF Usable
<1>6. b = IF IsIP4(a.ip) THEN Address(To4(a.ip), a.port, NoZone)
                         ELSE Address(a.ip, a.port, a.zone)
  BY <1>3, <1>5 DEF parseAddress, Text
<1>7. Usable(b)
  BY <1>1, <1>5, <1>6, IPForms, ScopeFitsField DEF Usable, Address
<1> HIDE DEF b
<1>8. addressToSocketAddress(b) = addressToSocketAddress(a)
  BY <1>5, <1>6 DEF addressToSocketAddress, Address
<1>9. BindSockaddr(b) = BindSockaddr(a)
  BY <1>8 DEF BindSockaddr, makeUnixSockaddr, makeWindowsSockaddr, addressToUnixSockaddr,
     addressToWindowsSockaddr
<1>10. BindSockaddr(a).port = t.port
  BY <1>2 DEF BindSockaddr, makeUnixSockaddr, makeWindowsSockaddr, addressToUnixSockaddr,
     addressToWindowsSockaddr, addressToSocketAddress, Sockaddr
<1>11. ASSUME NEW picked, t.port # 0
       PROVE  listenUDP(name, picked) = listenUDP(t, Ephemeral)
  BY <1>9, <1>10, <1>11 DEF listenUDP, a, b
<1>12. ASSUME NEW picked, IsPort(picked)
       PROVE  Bindable(listenUDP(name, picked))
  BY <1>7, <1>12, ListenedBindable DEF b
<1> QED
  BY <1>4, <1>9, <1>11, <1>12 DEF a, b, name

-----------------------------------------------------------------------------
(* Types and the addresses of the workers.                                 *)

RemoteOK == phase = "dialed" => Usable(remote)

PlaceInv == TypeOK /\ RemoteOK /\ WorkersShareAddress

LEMMA PlaceInvInit == Init => PlaceInv
<1> SUFFICES ASSUME Init
             PROVE  PlaceInv
  OBVIOUS
<1>1. NilIP \in IPType /\ NoZone \in ZoneType /\ 0 \in ZoneIDs /\ IsPort(0)
  BY ScopeFitsField, IPForms DEF NamedZone, IsPort
<1>2. NoAddress \in AddressType
  BY <1>1, PortNumber DEF NoAddress, Address, AddressType
<1>3. NoSockaddr \in SockaddrType
  BY <1>1, PortNumber DEF NoSockaddr, Sockaddr, SockaddrType
<1>4. Text("empty", NilIP, NoZone, 0) \in TextType
  BY <1>1 DEF Text, TextType
<1>5. TypeOK
  <2>1. named \in BOOLEAN
    BY DEF Init
  <2>2. sockets = <<>>
    BY DEF Init
  <2>3. sockets \in Seq(SockaddrType)
    BY <2>2
  <2> QED
    BY <1>2, <1>3, <1>4, <2>1, <2>3 DEF Init, TypeOK, TextType
<1>6. WorkersShareAddress /\ RemoteOK
  BY DEF Init, WorkersShareAddress, RemoteOK
<1> QED
  BY <1>5, <1>6 DEF PlaceInv

LEMMA ListenPlace ==
  ASSUME PlaceInv, ReplyInv, NEW t \in Texts, NEW count \in 1 .. MaxWorkers,
         NEW known \in BOOLEAN, Listen(t, count, known)
  PROVE  PlaceInv'
<1> DEFINE first    == listenUDP(t, Ephemeral)
           name     == socketName(first, t, known)
           other(j) == listenUDP(name, Ephemeral + j - 1)
           bound    == [j \in 1 .. count |-> IF j = 1 THEN first ELSE other(j)]
<1>1. /\ text' = t /\ text' \in TextType /\ named' = known
      /\ UNCHANGED <<path, bigEndian, wideInt, remote, source, inbound, sent>>
  BY TextsTyped DEF Listen, platformVars
<1>2. /\ phase' \in {"listening", "workerFailed", "failed"}
      /\ phase' = "listening" => Binds(t) /\ sockets' = bound
      /\ phase' # "listening" => sockets' = sockets
      /\ phase' = "workerFailed" => Binds(t) /\ ~Binds(name)
  BY DEF Listen
<1>3. count \in Nat /\ 1 \in 1 .. count /\ 1 .. count \subseteq 1 .. MaxWorkers
  BY AddressingAssumption
<1>4. ASSUME Binds(t)
      PROVE  /\ Bindable(first) /\ OwnForm(first) /\ first.port # 0
             /\ Scoped(first) => t.ip.form = "16" /\ t.ip.host \in LinkLocal
  BY <1>4, FirstSocket DEF Binds
<1> HIDE DEF first
<1>5. ASSUME Binds(t), known
      PROVE  /\ Parses(name)
             /\ BindSockaddr(parseAddress(name)) = [first EXCEPT !.scope = 0]
             /\ \A j : other(j) = [first EXCEPT !.scope = 0]
  BY <1>4, <1>5, SocketOfName
<1>6. ASSUME Binds(t), ~known
      PROVE  /\ Binds(name)
             /\ \A j \in 1 .. MaxWorkers : Bindable(other(j))
             /\ t.port # 0 => \A j : other(j) = first
  <2>1. /\ Parses(name) /\ BindSockaddr(parseAddress(name)) = BindSockaddr(parseAddress(t))
        /\ \A picked : /\ IsPort(picked) => Bindable(listenUDP(name, picked))
                       /\ t.port # 0 => listenUDP(name, picked) = first
    BY <1>6, SocketOfText DEF Binds, first
  <2>2. \A j \in 1 .. MaxWorkers : IsPort(Ephemeral + j - 1)
    BY PickedPort
  <2> HIDE DEF name
  <2> QED
    BY <1>6, <2>1, <2>2 DEF Binds
<1> HIDE DEF name, other
<1>7. ASSUME Binds(t)
      PROVE  /\ first \in SockaddrType /\ [first EXCEPT !.scope = 0] \in SockaddrType
             /\ [first EXCEPT !.scope = 0].ip = first.ip
  <2>1. first \in SockaddrType
    BY <1>4, <1>7, BindableType
  <2>2. 0 \in ZoneIDs
    BY ScopeFitsField
  <2> QED
    BY <2>1, <2>2 DEF SockaddrType
<1>8. ASSUME phase' = "listening"
      PROVE  /\ sockets' \in Seq(SockaddrType)
             /\ \A j \in 2 .. Len(sockets') :
                  /\ known => sockets'[j] = [sockets'[1] EXCEPT !.scope = 0]
                  /\ ~known /\ t.port # 0 => sockets'[j] = sockets'[1]
  <2>1. Binds(t) /\ sockets' = bound
    BY <1>2, <1>8
  <2>2. \A j \in 1 .. count : other(j) \in SockaddrType
    BY <1>3, <1>5, <1>6, <1>7, <2>1, BindableType
  <2>3. bound \in Seq(SockaddrType)
    <3>1. bound \in [1 .. count -> SockaddrType]
      BY <1>7, <2>1, <2>2
    <3> HIDE DEF bound
    <3> QED
      BY <1>3, <3>1
  <2>4. DOMAIN bound = 1 .. count /\ bound[1] = first
    BY <1>3
  <2>5. Len(bound) = count
    <3> HIDE DEF bound
    <3> QED
      BY <1>3, <2>3, <2>4
  <2>6. ASSUME NEW j \in 2 .. count
        PROVE  /\ known => bound[j] = [first EXCEPT !.scope = 0]
               /\ ~known /\ t.port # 0 => bound[j] = first
    <3>1. bound[j] = other(j)
      BY <1>3
    <3> HIDE DEF bound
    <3>2. ASSUME known
          PROVE  bound[j] = [first EXCEPT !.scope = 0]
      BY <1>5, <2>1, <3>1, <3>2
    <3>3. ASSUME ~known, t.port # 0
          PROVE  bound[j] = first
      BY <1>6, <2>1, <3>1, <3>3
    <3> QED
      BY <3>2, <3>3
  <2> HIDE DEF bound
  <2> QED
    BY <2>1, <2>3, <2>4, <2>5, <2>6
<1>9. ASSUME phase' = "workerFailed"
      PROVE  known /\ t.ip.form = "16" /\ t.ip.host \in LinkLocal
  <2>1. Binds(t) /\ ~Binds(name)
    BY <1>2, <1>9
  <2>2. known
    BY <1>6, <2>1
  <2>3. Scoped([first EXCEPT !.scope = 0])
    BY <1>5, <2>1, <2>2 DEF Binds
  <2>4. Scoped(first)
    BY <1>7, <2>1, <2>3 DEF Scoped
  <2> QED
    BY <1>4, <2>1, <2>2, <2>4
<1>10. sockets' \in Seq(SockaddrType)
  BY <1>2, <1>8 DEF PlaceInv, TypeOK
<1> HIDE DEF bound
<1>11. TypeOK'
  BY <1>1, <1>2, <1>10 DEF PlaceInv, TypeOK, TextType
<1>12. RemoteOK'
  BY <1>2 DEF RemoteOK
<1>13. WorkersShareAddress'
  BY <1>1, <1>8, <1>9 DEF WorkersShareAddress
<1> QED
  BY <1>11, <1>12, <1>13 DEF PlaceInv

LEMMA DialPlace ==
  ASSUME PlaceInv, ReplyInv, NEW t \in Texts, Dial(t)
  PROVE  PlaceInv'
<1> DEFINE r == parseAddress(t)
           c == clientBindAddress(r)
           s == listenUDP(c, Ephemeral)
<1>1. /\ text' = t /\ text' \in TextType
      /\ UNCHANGED <<path, bigEndian, wideInt, named, source, inbound, sent>>
  BY TextsTyped DEF Dial, platformVars
<1>2. CASE Parses(t)
  <2>1. Usable(r) /\ r \in AddressType
    <3>1. Usable(r) /\ \E ip, port, zone : r = Address(ip, port, zone)
      BY <1>2, TextsTyped, ParsedUsable DEF TextType
    <3> QED
      BY <3>1, UsableType
  <2>2. /\ c.host = "literal" /\ c.ip \in IPType /\ c.zone = NoZone /\ c.port = 0
    <3>1. IP("16", Any) \in IPType /\ IP("4", Any) \in IPType
      BY IPForms
    <3> QED
      BY <3>1 DEF clientBindAddress, Text
  <2>3. IsPort(0) /\ IsPort(Ephemeral)
    BY PickedPort DEF IsPort
  <2> HIDE DEF c
  <2>4. Parses(c) /\ NamedZone(c.zone)
    BY <2>2, <2>3, PortNumber, ScopeFitsField DEF Parses
  <2>5. Bindable(s)
    BY <2>2, <2>3, <2>4, ParsedUsable, ListenedBindable
  <2> HIDE DEF s, r
  <2>6. s \in SockaddrType
    BY <2>5, BindableType
  <2>7. phase' = "dialed" /\ remote' = r /\ sockets' = <<s>>
    BY <1>2 DEF Dial, r, c, s
  <2> QED
    BY <1>1, <2>1, <2>6, <2>7 DEF PlaceInv, TypeOK, TextType, RemoteOK, WorkersShareAddress
<1>3. CASE ~Parses(t)
  BY <1>1, <1>3 DEF Dial, PlaceInv, TypeOK, TextType, RemoteOK, WorkersShareAddress
<1> QED
  BY <1>2, <1>3

LEMMA PlaceInvNext == PlaceInv /\ ReplyInv /\ ReplyInv' /\ [Next]_vars => PlaceInv'
<1> SUFFICES ASSUME PlaceInv, ReplyInv, ReplyInv', [Next]_vars
             PROVE  PlaceInv'
  OBVIOUS
<1>1. path \in Paths /\ bigEndian \in BOOLEAN /\ wideInt \in BOOLEAN
  BY DEF ReplyInv, PlatformOK
<1>2. CASE Receive
  <2>1. PICK s \in Arrivals(sockets[1]) : source' = s /\ inbound' = FromSockaddr(s)
    BY <1>2 DEF Receive
  <2>2. /\ phase \in {"listening", "dialed"} /\ phase' = "received"
        /\ UNCHANGED <<path, bigEndian, wideInt, text, sockets, named, remote, sent>>
    BY <1>2 DEF Receive, platformVars
  <2>3. Reported(s)
    BY <2>2, ArrivalReported DEF ReplyInv, SocketsOK
  <2>4. FromSockaddr(s) \in AddressType /\ s \in SockaddrType
    BY <1>1, <2>3, InboundUsable DEF Reported
  <2> QED
    BY <2>1, <2>2, <2>4 DEF PlaceInv, TypeOK, RemoteOK, WorkersShareAddress
<1>3. CASE Reply \/ WriteRemote
  <2>1. /\ phase' \in {"replied", "sent"}
        /\ UNCHANGED <<path, bigEndian, wideInt, text, sockets, named, remote, source, inbound>>
    BY <1>3 DEF Reply, WriteRemote, platformVars
  <2>2. \E a : Usable(a) /\ sent' = ToSockaddr(a)
    <3>1. CASE Reply
      <4>1. Reported(source) /\ inbound = FromSockaddr(source)
        BY <3>1 DEF Reply, ReplyInv, InboundOK
      <4> QED
        BY <1>1, <3>1, <4>1, InboundUsable DEF Reply
    <3>2. CASE WriteRemote
      BY <3>2 DEF WriteRemote, PlaceInv, RemoteOK
    <3> QED
      BY <1>3, <3>1, <3>2
  <2>3. sent' \in SockaddrType
    BY <1>1, <2>2, SentBindable, BindableType
  <2> QED
    BY <2>1, <2>3 DEF PlaceInv, TypeOK, RemoteOK, WorkersShareAddress
<1>4. CASE UNCHANGED vars
  BY <1>4 DEF vars, platformVars, PlaceInv, TypeOK, RemoteOK, WorkersShareAddress
<1> QED
  BY <1>2, <1>3, <1>4, ListenPlace, DialPlace DEF Next

LEMMA PlaceInvHolds == Spec => []PlaceInv
  BY PlaceInvInit, PlaceInvNext, ReplyInvHolds, PTL DEF Spec

(* Ports and scopes stay within the fields of a sockaddr, whatever zones   *)
(* and ports the texts and the peers name.                                 *)
THEOREM TypeCorrect == Spec => []TypeOK
<1>1. PlaceInv => TypeOK
  BY DEF PlaceInv
<1> QED
  BY <1>1, PlaceInvHolds, PTL

(* However many workers there are, their sockets are bound to one address, *)
(* if the kernel told the name of the first or the text names a port; or   *)
(* the address is link-local and Bind fails.                               *)
THEOREM WorkersAgree == Spec => []WorkersShareAddress
<1>1. PlaceInv => WorkersShareAddress
  BY DEF PlaceInv
<1> QED
  BY <1>1, PlaceInvHolds, PTL
=============================================================================
