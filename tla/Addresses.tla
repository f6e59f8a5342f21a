----------------------------- MODULE Addresses -----------------------------
(***************************************************************************)
(* The addresses of net/: what happens to the host and the port that a     *)
(* caller writes on their way through IpAddress and TcpAddress to a socket *)
(* and back (net/ip/IpAddress.cpp, net/tcp/TcpAddress.cpp, and the         *)
(* addresses in net/tcp/detail/linux/TcpSocket.cpp).                       *)
(*                                                                         *)
(* An address is its bytes in network order.  A host is the text that      *)
(* inet_pton() takes for the bytes of one family.                          *)
(***************************************************************************)
EXTENDS Integers, Sequences

CONSTANTS
    V4Hosts,    \* four bytes each
    V6Hosts,    \* sixteen bytes each
    Ports,
    Sizes,      \* of the buffers given to parse() and toV4()
    NULL

V4 == 1     \* the bits of net/Protocal.h
V6 == 2
TCP == 256
UDP == 512

IpBytes == <<4, 16>>    \* SIZE_OF_IPV4ADDRESS, SIZE_OF_IPV6ADDRESS
TcpBytes == <<16, 28>>  \* SIZE_OF_TCPIPV4_ADDRESS, SIZE_OF_TCPIPV6_ADDRESS

Ip(family, bytes) == [family |-> family, bytes |-> bytes]
Hosts == {Ip(V4, b) : b \in V4Hosts} \cup {Ip(V6, b) : b \in V6Hosts}
NotAHost == Ip(0, <<>>)     \* a text that is no address
Undefined == Ip(-1, <<>>)   \* what a copy past the end of an array leaves

VARIABLES
    host, port,     \* what the caller wrote (history)
    ip, tcp,        \* the IpAddress and the TcpAddress it has
    fd,             \* the socket, as its family
    bound,          \* the address that the kernel has for it
    answer          \* of the last call

vars == <<host, port, ip, tcp, fd, bound, answer>>

Init ==
    /\ host = NULL /\ port = NULL
    /\ ip = NULL /\ tcp = NULL
    /\ fd = NULL /\ bound = NULL
    /\ answer = "ok"

-----------------------------------------------------------------------------
(* IpAddress *)

Prefix == <<0, 0, 0, 0, 0, 0, 0, 0, 0, 0, 255, 255>>    \* s_v4mapped_prefix

IsV4Mapped(bytes) == SubSeq(bytes, 1, 12) = Prefix

\* operator==(), for each pair of families.
Same(a, b) ==
    CASE a.family = b.family -> a.bytes = b.bytes
      [] a.family = V4 /\ b.family = V6 -> IsV4Mapped(b.bytes) /\ SubSeq(b.bytes, 13, 16) = a.bytes
      [] a.family = V6 /\ b.family = V4 -> IsV4Mapped(a.bytes) /\ SubSeq(a.bytes, 13, 16) = b.bytes

\* The family under which a text is taken into a buffer of `size' bytes: IPv4
\* is tried first.
Taken(h, size, bytes) ==
    IF h.family = V4 /\ size >= bytes[V4] THEN V4
    ELSE IF h.family = V6 /\ size >= bytes[V6] THEN V6
    ELSE 0

\* parse(): an object if `size' is NULL, else the buffer of the caller.
ParseIp(h, size) ==
    /\ host = NULL
    /\ IF Taken(h, IF size = NULL THEN 16 ELSE size, IpBytes) # 0
       THEN host' = h /\ ip' = h /\ answer' = "ok"
       ELSE answer' = "refused" /\ UNCHANGED <<host, ip>>
    /\ UNCHANGED <<port, tcp, fd, bound>>

\* toV6(), with and without the buffer of the caller.
ToV6(size) ==
    /\ ip # NULL /\ ip.family = V4
    /\ IF size = NULL \/ size >= IpBytes[V6]
       THEN ip' = Ip(V6, Prefix \o ip.bytes) /\ answer' = "ok"
       ELSE answer' = "refused" /\ UNCHANGED ip
    /\ UNCHANGED <<host, port, tcp, fd, bound>>

\* Faulty: takes any IPv6 address for a mapped one.
ToV4OfAny(size) ==
    /\ ip # NULL /\ ip.family = V6
    /\ \/ ip' = Ip(V4, SubSeq(ip.bytes, 13, 16)) /\ answer' = "ok"
       \/ ip' = Undefined /\ answer' = "ok"
    /\ UNCHANGED <<host, port, tcp, fd, bound>>

\* toV4(): copies size() bytes, sixteen, from the last four of this address.
\* The four that the result has room for are the address; what the others hit
\* is undefined.
ToV4(size) ==
    /\ ip # NULL /\ ip.family = V6
    /\ IF (size = NULL \/ size >= IpBytes[V4]) /\ IsV4Mapped(ip.bytes)
       THEN /\ ip' \in {Ip(V4, SubSeq(ip.bytes, 13, 16)), Undefined}
            /\ answer' = "ok"
       ELSE answer' = "refused" /\ UNCHANGED ip
    /\ UNCHANGED <<host, port, tcp, fd, bound>>

-----------------------------------------------------------------------------
(* TcpAddress *)

Htons(p) == <<p \div 256, p % 256>>
Ntohs(b) == 256 * b[1] + b[2]

SocketAddress(a, p) == [family |-> a.family, port |-> Htons(p), bytes |-> a.bytes]

\* A TcpAddress of an IpAddress and a port.
MakeTcp(p) ==
    /\ ip # NULL /\ ip.family \in {V4, V6}
    /\ tcp = NULL
    /\ tcp' = SocketAddress(ip, p)
    /\ port' = p
    /\ answer' = "ok"
    /\ UNCHANGED <<host, ip, fd, bound>>

\* TcpAddress::parse(), into an object or the buffer of the caller.
ParseTcp(h, p, size) ==
    /\ host = NULL
    /\ IF Taken(h, IF size = NULL THEN 28 ELSE size, TcpBytes) # 0
       THEN /\ tcp' = SocketAddress(h, p)
            /\ host' = h /\ port' = p
            /\ answer' = "ok"
       ELSE answer' = "refused" /\ UNCHANGED <<host, port, tcp>>
    /\ UNCHANGED <<ip, fd, bound>>

-----------------------------------------------------------------------------
(* TcpSocket *)

Protocals == {transport + family : transport \in {TCP, UDP, 0}, family \in {V4, V6, 0}}

\* open()
Open(protocal) ==
    /\ fd = NULL
    /\ CASE protocal = TCP + V4 -> fd' = V4 /\ answer' = "ok"
         [] protocal = TCP + V6 -> fd' = V6 /\ answer' = "ok"
         [] protocal \in {TCP, UDP, 0} -> answer' = "no network protocal" /\ UNCHANGED fd
         [] OTHER -> answer' = "no transport protocal" /\ UNCHANGED fd
    /\ UNCHANGED <<host, port, ip, tcp, bound>>

\* The kernel binds the socket; port 0 asks it for any port.
Bind ==
    /\ fd # NULL /\ tcp # NULL /\ bound = NULL
    /\ IF tcp.family # fd
       THEN answer' = "no such family" /\ UNCHANGED bound
       ELSE /\ \E p \in IF tcp.port = Htons(0) THEN Ports \ {0} ELSE {Ntohs(tcp.port)} :
                    bound' = [tcp EXCEPT !.port = Htons(p)]
            /\ answer' = "ok"
    /\ UNCHANGED <<host, port, ip, tcp, fd>>

\* getLocalAddress(), and getRemoteAddress() of the one that has connected.
GetAddress ==
    /\ bound # NULL
    /\ IF bound.family \in {V4, V6}
       THEN tcp' = bound /\ answer' = "ok"
       ELSE answer' = "no network protocal" /\ UNCHANGED tcp
    /\ UNCHANGED <<host, port, ip, fd, bound>>

Next ==
    \/ \E h \in Hosts \cup {NotAHost}, size \in Sizes \cup {NULL} :
            ParseIp(h, size) \/ \E p \in Ports : ParseTcp(h, p, size)
    \/ \E size \in Sizes \cup {NULL} : ToV6(size) \/ ToV4(size)
    \/ \E p \in Ports : MakeTcp(p)
    \/ \E protocal \in Protocals : Open(protocal)
    \/ Bind
    \/ GetAddress

Spec == Init /\ [][Next]_vars

-----------------------------------------------------------------------------
\* The types of the variables.
TypeOK ==
    /\ host \in Hosts \cup {NULL} /\ port \in Ports \cup {NULL}
    /\ ip # NULL => ip.family \in {V4, V6, -1}
    /\ tcp # NULL => tcp.family \in {V4, V6} /\ Len(tcp.bytes) = IpBytes[tcp.family]
    /\ fd \in {V4, V6, NULL}

\* The one form in which the addresses of both families can be compared.
Mapped(a) == IF a.family = V4 THEN Prefix \o a.bytes ELSE a.bytes

\* Whatever it is converted to, an address is the one that the caller wrote,
\* and so is the port, unless it left the choice to the kernel.
MeansWhatWasWritten ==
    /\ ip \notin {NULL, Undefined} => Mapped(ip) = Mapped(host)
    /\ tcp # NULL =>
        /\ Mapped(tcp) = Mapped(host)
        /\ Ntohs(tcp.port) = port \/ (port = 0 /\ bound # NULL)

\* Two addresses are equal if and only if they mean the same, across the
\* families too.
EqualityIsOfMeaning ==
    ip \notin {NULL, Undefined} =>
        \A other \in Hosts : /\ Same(ip, other) <=> Mapped(ip) = Mapped(other)
                             /\ Same(ip, other) <=> Same(other, ip)

\* The socket has the family of the address that is bound.
BoundInItsFamily == bound # NULL => bound.family = fd

\* The addresses, along all ways through the conversions.
AddressInv == TypeOK /\ MeansWhatWasWritten /\ EqualityIsOfMeaning /\ BoundInItsFamily
=============================================================================
