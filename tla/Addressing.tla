------------------------------ MODULE Addressing ------------------------------
(***************************************************************************)
(* The address of a datagram on its way through the program: the text given*)
(* to Bind or Dial, parsedAddress, the sockaddr the sockets are bound to   *)
(* and the name a server reports (address.go, socket_unix.go,              *)
(* socket_windows.go), the source of a datagram as the application sees it,*)
(* and the sockaddr of what the application writes back (io_linux.go,      *)
(* io_bsd.go, and the completion pollers' transport.SocketAddress).        *)
(*                                                                         *)
(* An IP is a host and the form it is kept in: "4" (four bytes), "16" (a   *)
(* genuine IPv6 address), "mapped" (IPv4 in sixteen bytes), "nil". Slices  *)
(* of other lengths, which have no sockaddr, are left to ReadinessEndpoint *)
(* and CompletionEndpoint (addrOK). External: the kernel, net.ParseIP and  *)
(* the interface table.                                                    *)
(***************************************************************************)
EXTENDS Integers, Sequences

CONSTANTS
  Hosts,        \* Any and Loopback among them
  Any,          \* the wildcard address of both families
  Loopback,
  LinkLocal,    \* hosts whose IPv6 address needs a scope
  Ports,        \* ports, in texts also too large ones
  Ephemeral,    \* the first port the kernel picks for port 0
  MaxWorkers,   \* bound: endpoints of one Bind
  ScopeHalf,    \* half the number of scope ids; 2^31 in the code
  Interfaces,   \* indexes of the interfaces that have a name
  Paths,        \* conversions: "raw" (Linux), "unix", "windows", "completion"
  ByteOrders,   \* of the processor: big-endian or not
  IntWidths     \* is an int wider than a scope id

MaxPort == 65535

ASSUME AddressingAssumption ==
  /\ {Any, Loopback} \cup LinkLocal \subseteq Hosts
  /\ {Any, Loopback} \cap LinkLocal = {}
  /\ Ports \subseteq Nat
  /\ MaxWorkers \in Nat \ {0}
  /\ Ephemeral \in Nat \ {0} /\ Ephemeral + MaxWorkers - 1 <= MaxPort
  /\ ScopeHalf \in Nat \ {0}
  /\ Interfaces \subseteq 1 .. 2 * ScopeHalf - 1
  /\ Paths \subseteq {"raw", "unix", "windows", "completion"}
  /\ ByteOrders \cup IntWidths \subseteq BOOLEAN

VARIABLES
  path, bigEndian, wideInt,   \* the platform
  phase,       \* what has happened
  text,        \* the address given to Bind or Dial
  sockets,     \* the sockaddr each socket is bound to
  named,       \* history: the kernel told the name of the first socket
  remote,      \* endpoint.remote of a client
  source,      \* the sockaddr a datagram came from
  inbound,     \* its address in the application's hands
  sent         \* the sockaddr of a datagram sent

platformVars == <<path, bigEndian, wideInt>>
vars == <<platformVars, phase, text, sockets, named, remote, source, inbound, sent>>

ZoneIDs == 0 .. 2 * ScopeHalf - 1

-----------------------------------------------------------------------------
(* IPs, zones and addresses.                                               *)
IP(form, host) == [form |-> form, host |-> host]
NilIP == IP("nil", Any)

IsIP4(ip) == ip.form \in {"4", "mapped"}
To4(ip)   == IP("4", ip.host)
IsIP16(ip) == ip.form = "16"

(* The text of a zone: none, a decimal number, or a name, given by the     *)
(* index of its interface, 0 if there is no such interface.                *)
Zone(kind, n) == [kind |-> kind, n |-> n]
NoZone == Zone("none", 0)

(* Seeded defect: interfaces are not looked up by name.                    *)
zoneIDNumbersOnly(z) == IF z.kind = "number" /\ z.n \in ZoneIDs THEN z.n ELSE 0

zoneID(z) ==
  CASE z.kind = "none" -> 0
    [] z.kind = "number" -> IF z.n \in ZoneIDs THEN z.n ELSE 0
    [] z.kind = "name" -> z.n

(* strconv.Itoa(int(id)): an int of the same width has a sign bit.         *)
zoneText(id) ==
  IF id = 0 THEN NoZone
  ELSE Zone("number", IF wideInt \/ id < ScopeHalf THEN id ELSE id - 2 * ScopeHalf)

(* Address and parsedAddress.                                              *)
Address(ip, port, zone) == [ip |-> ip, port |-> port, zone |-> zone]
NoAddress == Address(NilIP, 0, NoZone)

Valid(a) == a.ip # NilIP /\ a.port \in 0 .. MaxPort

(* A kernel sockaddr, and transport.SocketAddress.                         *)
Sockaddr(family, ip, port, scope) ==
  [family |-> family, ip |-> ip, port |-> port, scope |-> scope]
NoSockaddr == Sockaddr("none", NilIP, 0, 0)

-----------------------------------------------------------------------------
(* Texts. `host' tells what stands before the port; ip and zone are those  *)
(* of a literal. A text that does not parse as host and port is garbage.   *)
Text(host, ip, zone, port) == [host |-> host, ip |-> ip, zone |-> zone, port |-> port]

(* Seeded defect: a port is not checked.                                   *)
ParsesAnyPort(t) == t.host # "garbage"

Parses(t) == t.host # "garbage" /\ t.port \in 0 .. MaxPort

parseAddress(t) ==
  CASE t.host = "empty"     -> Address(IP("mapped", Any), t.port, NoZone)
    [] t.host = "localhost" -> Address(IP("4", Loopback), t.port, NoZone)
    [] t.host = "literal"   -> IF IsIP4(t.ip) THEN Address(To4(t.ip), t.port, NoZone)
                                              ELSE Address(t.ip, t.port, t.zone)

(* Seeded defect: the zone is not printed.                                 *)
StringWithoutZone(a) ==
  Text("literal", IF IsIP4(a.ip) THEN To4(a.ip) ELSE a.ip, NoZone, a.port)

(* Address.String and parsedAddress.String, of an address that has an IP.  *)
String(a) ==
  Text("literal", IF IsIP4(a.ip) THEN To4(a.ip) ELSE a.ip,
       IF IsIP4(a.ip) THEN NoZone ELSE a.zone, a.port)

(* Seeded defect: the port of the text, also when the kernel picked one.   *)
socketNameOfText(sa, t, known) == Text("literal", sa.ip, NoZone, t.port)

(* socketName: the name of the socket bound to sa, without its zone; or,   *)
(* when the kernel does not tell it, the text t it was bound with.         *)
socketName(sa, t, known) ==
  IF known THEN Text("literal", sa.ip, NoZone, sa.port) ELSE String(parseAddress(t))

(* Seeded defect: a client always binds an IPv4 socket.                    *)
clientBindAddressIPv4(r) == Text("literal", IP("4", Any), NoZone, 0)

clientBindAddress(r) == Text("literal", IP(IF IsIP16(r.ip) THEN "16" ELSE "4", Any), NoZone, 0)

-----------------------------------------------------------------------------
(* Ports in a raw sockaddr.                                                *)
Swap(p) == (p % 256) * 256 + p \div 256

(* Seeded defect: not converted.                                           *)
hostToNetwork16Identity(p) == p

hostToNetwork16(p) == Swap(p)
networkToHost16(p) == hostToNetwork16(p)

(* The kernel reads the two bytes of the field in network order.           *)
KernelPort(field) == IF bigEndian THEN field ELSE Swap(field)
PortField(port)   == IF bigEndian THEN port ELSE Swap(port)

-----------------------------------------------------------------------------
(* From a valid address to a sockaddr.                                     *)
addressToSocketAddress(a) ==
  IF IsIP4(a.ip) THEN Sockaddr("ip4", To4(a.ip), a.port, 0)
                 ELSE Sockaddr("ip6", a.ip, a.port, zoneID(a.zone))

addressToUnixSockaddr(a)    == addressToSocketAddress(a)
addressToWindowsSockaddr(a) == addressToSocketAddress(a)

(* What the kernel makes of rawSockaddrFromAddress.                        *)
rawSockaddrFromAddress(a) ==
  [addressToSocketAddress(a) EXCEPT !.port = KernelPort(hostToNetwork16(a.port))]

ToSockaddr(a) ==
  CASE path = "raw"        -> rawSockaddrFromAddress(a)
    [] path = "unix"       -> addressToUnixSockaddr(a)
    [] path = "windows"    -> addressToWindowsSockaddr(a)
    [] path = "completion" -> addressToSocketAddress(a)

(* makeUnixSockaddr and makeWindowsSockaddr, of a parsed address.          *)
makeUnixSockaddr(a)    == addressToUnixSockaddr(a)
makeWindowsSockaddr(a) == addressToWindowsSockaddr(a)

BindSockaddr(a) == IF path = "windows" THEN makeWindowsSockaddr(a) ELSE makeUnixSockaddr(a)

-----------------------------------------------------------------------------
(* From a sockaddr to an address.                                          *)
socketAddressFromRawSockaddr(sa) ==
  [sa EXCEPT !.port = networkToHost16(PortField(sa.port))]

unixSockaddrToSocketAddress(sa)    == sa
windowsSockaddrToSocketAddress(sa) == sa

(* Seeded defect: the scope is forgotten.                                  *)
socketAddressToAddressUnscoped(sa) == Address(sa.ip, sa.port, NoZone)

socketAddressToAddress(sa) ==
  Address(sa.ip, sa.port, IF sa.family = "ip6" THEN zoneText(sa.scope) ELSE NoZone)

FromSockaddr(sa) ==
  socketAddressToAddress(
    CASE path = "raw"        -> socketAddressFromRawSockaddr(sa)
      [] path = "unix"       -> unixSockaddrToSocketAddress(sa)
      [] path = "windows"    -> windowsSockaddrToSocketAddress(sa)
      [] path = "completion" -> sa)

-----------------------------------------------------------------------------
(* listenUDP: bind fails for a link-local address without a scope.         *)
Scoped(sa)  == sa.ip.form = "16" /\ sa.ip.host \in LinkLocal
Binds(t)    == Parses(t) /\ (Scoped(BindSockaddr(parseAddress(t)))
                               => BindSockaddr(parseAddress(t)).scope # 0)
listenUDP(t, picked) ==
  LET sa == BindSockaddr(parseAddress(t))
  IN IF sa.port = 0 THEN [sa EXCEPT !.port = picked] ELSE sa

(* Seeded defect: IPV6_V6ONLY is left alone.                               *)
DualStack == FALSE

(* setSocketOptions sets IPV6_V6ONLY; on Windows it is the default.        *)
V6Only == TRUE

reusePortSupported == path # "windows"

(* listenAll for `count' workers: the sockets after the first are bound to *)
(* the name of the first; `known' tells whether the kernel gives that name.*)
Listen(t, count, known) ==
  LET first == listenUDP(t, Ephemeral)
      name  == socketName(first, t, known)
  IN
  /\ phase = "start"
  /\ text' = t
  /\ named' = known
  /\ IF Binds(t) /\ (count > 1 => reusePortSupported /\ Binds(name))
     THEN /\ phase'   = "listening"
          /\ sockets' = [j \in 1 .. count |->
                          IF j = 1 THEN first ELSE listenUDP(name, Ephemeral + j - 1)]
     ELSE /\ phase' = IF Binds(t) /\ reusePortSupported THEN "workerFailed" ELSE "failed"
          /\ UNCHANGED sockets
  /\ UNCHANGED <<platformVars, remote, source, inbound, sent>>

Dial(t) ==
  /\ phase = "start"
  /\ text' = t
  /\ IF Parses(t)
     THEN /\ phase'   = "dialed"
          /\ remote'  = parseAddress(t)
          /\ sockets' = <<listenUDP(clientBindAddress(parseAddress(t)), Ephemeral)>>
     ELSE phase' = "failed" /\ UNCHANGED <<remote, sockets>>
  /\ UNCHANGED <<platformVars, named, source, inbound, sent>>

(* The sources a socket of that family receives from.                      *)
Arrivals(sa) ==
  {s \in [family : {sa.family},
          ip     : {IP(f, h) : f \in {"4", "16", "mapped"}, h \in Hosts \ {Any}},
          port   : Ports \cap 1 .. MaxPort,
          scope  : ZoneIDs] :
     /\ IF sa.family = "ip4" THEN s.ip.form = "4"
                             ELSE s.ip.form = "16" \/ (s.ip.form = "mapped" /\ ~V6Only)
     /\ IF Scoped(s) THEN s.scope # 0 ELSE s.scope = 0}

Receive ==
  /\ phase \in {"listening", "dialed"}
  /\ \E s \in Arrivals(sockets[1]) :
       /\ source' = s
       /\ inbound' = FromSockaddr(s)
  /\ phase' = "received"
  /\ UNCHANGED <<platformVars, text, sockets, named, remote, sent>>

(* The application writes to the address it got, or a client to its remote *)
(* (a bare buffer).                                                        *)
Reply ==
  /\ phase = "received"
  /\ Valid(inbound)
  /\ sent' = ToSockaddr(inbound)
  /\ phase' = "replied"
  /\ UNCHANGED <<platformVars, text, sockets, named, remote, source, inbound>>

WriteRemote ==
  /\ phase = "dialed"
  /\ Valid(remote)
  /\ sent' = ToSockaddr(remote)
  /\ phase' = "sent"
  /\ UNCHANGED <<platformVars, text, sockets, named, remote, source, inbound>>

-----------------------------------------------------------------------------
Texts ==
  {Text(h, NilIP, NoZone, p) : h \in {"empty", "localhost", "garbage"}, p \in Ports \cup {-1}}
  \cup
  {Text("literal", IP(f, h), z, p) :
     f \in {"4", "16", "mapped"}, h \in Hosts, p \in Ports \cup {-1},
     z \in {NoZone} \cup {Zone("number", n) : n \in -1 .. 2 * ScopeHalf}
                    \cup {Zone("name", n) : n \in Interfaces \cup {0}}}

Init ==
  /\ path \in Paths
  /\ bigEndian \in ByteOrders
  /\ wideInt \in IntWidths
  /\ phase = "start"
  /\ text = Text("empty", NilIP, NoZone, 0)
  /\ sockets = <<>>
  /\ named = FALSE
  /\ remote = NoAddress
  /\ source = NoSockaddr
  /\ inbound = NoAddress
  /\ sent = NoSockaddr

Next ==
  \/ \E t \in Texts : Dial(t)
  \/ \E t \in Texts, count \in 1 .. MaxWorkers, known \in BOOLEAN : Listen(t, count, known)
  \/ Receive
  \/ Reply
  \/ WriteRemote

Spec == Init /\ [][Next]_vars

-----------------------------------------------------------------------------
(* Where a text points to, as a user of the program reads it. A zone that  *)
(* is no number of a scope and no name of an interface points nowhere.     *)
Meant(t) ==
  LET ip == CASE t.host = "empty" -> IP("4", Any)
              [] t.host = "localhost" -> IP("4", Loopback)
              [] OTHER -> IF t.ip.form = "mapped" THEN IP("4", t.ip.host) ELSE t.ip
  IN [ip     |-> ip,
      family |-> IF ip.form = "16" THEN "ip6" ELSE "ip4",
      port   |-> t.port,
      scope  |-> t.zone.n]

ZoneExists(z) ==
  \/ z = NoZone
  \/ z.kind = "number" /\ z.n \in ZoneIDs
  \/ z.kind = "name" /\ z.n \in Interfaces

SwappedPorts == path = "raw" /\ bigEndian
ScopeFits    == wideInt \/ source.scope < ScopeHalf

IPType      == [form : {"4", "16", "mapped", "nil"}, host : Hosts]
ZoneType    == [kind : {"none", "number", "name"}, n : Int]
AddressType == [ip : IPType, port : 0 .. MaxPort, zone : ZoneType]
SockaddrType ==
  [family : {"ip4", "ip6", "none"}, ip : IPType, port : 0 .. MaxPort, scope : ZoneIDs]

(* Every variable keeps its type: whatever zones and ports a text names,   *)
(* ports and scopes stay within the width of a sockaddr's fields.          *)
TypeOK ==
  /\ path \in Paths /\ bigEndian \in ByteOrders /\ wideInt \in IntWidths
  /\ phase \in {"start", "listening", "failed", "workerFailed", "dialed", "received",
                "replied", "sent"}
  /\ text \in [host : {"empty", "localhost", "garbage", "literal"}, ip : IPType,
               zone : ZoneType, port : Int]
  /\ sockets \in Seq(SockaddrType)
  /\ named \in BOOLEAN
  /\ remote \in AddressType /\ inbound \in AddressType
  /\ source \in SockaddrType /\ sent \in SockaddrType

(* A reply goes back to where the datagram came from, on the socket's own  *)
(* family, through every conversion on the way. Where an int is no wider   *)
(* than a scope, a scope of its upper half becomes a negative number and   *)
(* then no scope at all.                                                   *)
ReplyReturns ==
  phase = "replied" => sent = [source EXCEPT !.scope = IF ScopeFits THEN @ ELSE 0]

(* The application sees the port its peer sent from, and a client's        *)
(* datagram goes to the port of its remote address.                        *)
PortIsPeers ==
  /\ phase = "received" => inbound.port = source.port
  /\ phase = "sent" => sent.port = remote.port

(* The same, but for raw sockaddrs on a big-endian processor, whose ports  *)
(* hostToNetwork16 swaps although they are in network order already.        *)
PortIsPeersUnlessSwapped == ~SwappedPorts => PortIsPeers

(* A client writes to the host, port and scope that the text it dialed     *)
(* means, from a socket of that family. Two cases are not claimed: the port*)
(* of a raw sockaddr on a big-endian processor, which hostToNetwork16      *)
(* swaps, and a zone that does not exist, which becomes scope 0 and no     *)
(* error.                                                                  *)
DialReaches ==
  LET m == Meant(text)
  IN phase = "sent" =>
       /\ sent.ip = m.ip
       /\ sent.family = m.family /\ sockets[1].family = m.family
       /\ ~SwappedPorts => sent.port = m.port
       /\ m.family = "ip6" /\ ZoneExists(text.zone) => sent.scope = m.scope

(* With ReusePort the sockets of all workers are bound to one address, also*)
(* when the kernel picked the port; or the address is link-local, whose    *)
(* zone the name of the first socket lacks, and Bind fails. Not claimed: a *)
(* port of 0 when the kernel does not tell the name, where each worker gets*)
(* a port of its own.                                                      *)
WorkersShareAddress ==
  /\ phase = "listening" => \A j \in 2 .. Len(sockets) :
       /\ named => sockets[j] = [sockets[1] EXCEPT !.scope = 0]
       /\ ~named /\ text.port # 0 => sockets[j] = sockets[1]
  /\ phase = "workerFailed" => named /\ text.ip.form = "16" /\ text.ip.host \in LinkLocal

(* The printed form of a received address, parsed, leads to the same peer. *)
PrintedAddressParses ==
  phase = "received" =>
    LET t == String(inbound)
    IN Parses(t) /\ ToSockaddr(parseAddress(t)) = ToSockaddr(inbound)
=============================================================================
