----------------------------- MODULE WireProofs -----------------------------
(***************************************************************************)
(* Proofs about Wire, for any sizes of payloads, any numbers of VLAN tags  *)
(* and buffers of any number of records.                                   *)
(***************************************************************************)
EXTENDS Wire, SubsequenceProofs

-----------------------------------------------------------------------------
\* Packets.

PacketType ==
    [version : Nat, ihl : Nat, protocol : {"tcp", "udp"}, src : {"client", "server", "other"},
     flags : {"SYN", "ACK"},
     length : Nat, off : Nat, bytes : Nat]

\* What build_tcp_packet makes: a packet of this host, with lengths that agree.
IsBuilt(p, version, src) ==
    /\ p \in PacketType
    /\ p.version = version /\ p.ihl = 5 /\ p.protocol = "tcp" /\ p.src = src
    /\ version = 4 => p.off = 16384 /\ p.length = p.bytes /\ p.bytes >= 40 /\ p.bytes < 65536
    /\ version = 6 => p.off = 0 /\ p.length + 40 = p.bytes /\ p.bytes >= 60 /\ p.bytes < 65536

LEMMA BuiltIs ==
    ASSUME NEW version \in {4, 6}, NEW src \in {"client", "server"}, NEW flags \in {"SYN", "ACK"},
           NEW payload \in Nat, payload <= 1500
    PROVE  IsBuilt(build_tcp_packet(version, src, flags, payload), version, src)
<1> DEFINE header == TcpHeader(flags)
           length == IF version = 4 THEN 20 + header + payload ELSE header + payload
           off == IF version = 4 THEN 16384 ELSE 0
           bytes == (IF version = 4 THEN 20 ELSE 40) + header + payload
           p == build_tcp_packet(version, src, flags, payload)
<1>1. header \in {20, 24}
  BY DEF TcpHeader, TCP_HEADER_LEN
<1>2. p = [version |-> version, ihl |-> 5, protocol |-> "tcp", src |-> src, flags |-> flags,
           length |-> length, off |-> off, bytes |-> bytes]
  <2>1. IpHeader(version) = IF version = 4 THEN 20 ELSE 40
    BY DEF IpHeader, IPV4_HEADER_LEN, IPV6_HEADER_LEN
  <2> HIDE DEF header
  <2> QED BY <1>1, <2>1 DEF build_tcp_packet, DontFragment, header
<1> HIDE DEF p, header
<1>3. length \in Nat /\ off \in Nat /\ bytes \in Nat
  BY <1>1
<1> HIDE DEF length, off, bytes
<1>4. /\ p.version = version /\ p.ihl = 5 /\ p.protocol = "tcp" /\ p.src = src
      /\ p.length = length /\ p.off = off /\ p.bytes = bytes
  BY <1>2
<1>5. p \in PacketType
  BY <1>2, <1>3 DEF PacketType
<1>6. /\ version = 4 => p.length = p.bytes /\ p.bytes >= 40 /\ p.bytes < 65536
      /\ version = 6 => p.length + 40 = p.bytes /\ p.bytes >= 60 /\ p.bytes < 65536
  BY <1>1, <1>4 DEF length, bytes
<1>7. IsBuilt(p, version, src)
  BY <1>4, <1>5, <1>6 DEF IsBuilt, off
<1> QED BY <1>7 DEF p

Is16(x) == x \in Nat /\ x < 65536

\* Two changes of the byte order cancel out, for 16 bits.
LEMMA SwapTwice ==
    ASSUME NEW x, Is16(x)
    PROVE  Swap(Swap(x)) = x
<1>1. PICK h \in Nat, l \in Nat : h < 256 /\ l < 256 /\ h = x \div 256 /\ l = x % 256 /\ 256 * h + l = x
  <2>1. x \div 256 \in Nat /\ x \div 256 < 256
    BY SMT DEF Is16
  <2>2. x % 256 \in Nat /\ x % 256 < 256 /\ 256 * (x \div 256) + (x % 256) = x
    BY SMT DEF Is16
  <2> QED BY <2>1, <2>2
<1>2. Swap(x) = 256 * l + h
  BY <1>1 DEF Swap
<1>3. l \in Nat /\ h \in Nat /\ h < 256
  BY <1>1
<1>4. (256 * l + h) % 256 = h /\ (256 * l + h) \div 256 = l
  BY ONLY <1>3
<1> QED BY <1>1, <1>2, <1>4 DEF Swap

\* The kernel reads what the raw sender wrote in host order.
LEMMA OutputUndoes ==
    ASSUME NEW p \in PacketType, Is16(p.length), Is16(p.off)
    PROVE  Ipv4Output([p EXCEPT !.length = Swap(@), !.off = Swap(@)]) = p
<1> DEFINE m == Swap(p.length)
           n == Swap(p.off)
           q == [p EXCEPT !.length = m, !.off = n]
<1>1. m \in Nat /\ n \in Nat
  BY DEF Swap, PacketType
<1>2. Swap(m) = p.length /\ Swap(n) = p.off
  BY SwapTwice DEF PacketType
<1>3. q = [p EXCEPT !.length = Swap(@), !.off = Swap(@)]
  BY DEF PacketType
<1> HIDE DEF m, n
<1>4. q \in PacketType /\ q.length = m /\ q.off = n /\ [q EXCEPT !.length = p.length, !.off = p.off] = p
  BY ONLY <1>1, p \in PacketType, Zenon DEF PacketType
<1> HIDE DEF q
<1>5. Ipv4Output(q) = [q EXCEPT !.length = Swap(m), !.off = Swap(n)]
  BY ONLY <1>4 DEF Ipv4Output, PacketType
<1> QED BY <1>2, <1>3, <1>4, <1>5

LEMMA BuiltIsSent ==
    ASSUME family \in {4, 6}, NEW p, IsBuilt(p, family, "client")
    PROVE  Sent(p) = {p}
<1>1. CASE family = 4
  <2>1. /\ p \in PacketType /\ p.version = 4 /\ p.ihl = 5 /\ p.off = 16384
        /\ p.length = p.bytes /\ p.bytes \in Nat /\ p.bytes >= 40 /\ p.bytes < 65536
    BY <1>1 DEF IsBuilt, PacketType
  <2> DEFINE q == [p EXCEPT !.length = Swap(@), !.off = Swap(@)]
  <2>2. macos_raw_ipv4_packet(p) = {q}
    <3>1. 4 * p.ihl \in 20 .. p.bytes /\ ~(p.bytes < 20)
      BY <2>1
    <3> QED BY <2>1, <3>1 DEF macos_raw_ipv4_packet
  <2>3. Ipv4Output(q) = p
    <3>1. p \in PacketType /\ Is16(p.length) /\ Is16(p.off)
      BY <2>1, SMT DEF Is16
    <3> QED BY ONLY <3>1, OutputUndoes, Zenon
  <2> HIDE DEF q
  <2> QED BY <1>1, <2>2, <2>3 DEF Sent
<1>2. CASE family = 6
  <2>1. /\ p \in PacketType /\ p.version = 6 /\ p.protocol = "tcp" /\ p.src = "client"
        /\ p.length \in Nat /\ p.length + 40 = p.bytes /\ p.bytes \in Nat /\ p.bytes >= 60
    BY <1>2 DEF IsBuilt, PacketType
  <2>2. ipv6_tcp_payload(p) = {p.bytes - 40} /\ p.bytes - 40 = p.length /\ p.length + 40 = p.bytes
    BY <2>1 DEF ipv6_tcp_payload
  <2>3. Ipv6Output(p, p.length) = p
    BY <2>1, Zenon DEF Ipv6Output, PacketType
  <2> QED BY <1>2, <2>2, <2>3 DEF Sent
<1> QED BY <1>1, <1>2

-----------------------------------------------------------------------------
\* What the decoder makes of a frame.

LEMMA HeaderIs ==
    ASSUME link \in LinkType, NEW t \in Nat
    PROVE  Header(t) \in Nat /\ (link = "Raw" => Header(t) = 0) /\ (link # "Raw" => Header(t) >= 4)
<1>1. CASE link = "Raw"
  BY <1>1 DEF Header
<1>2. CASE link = "Null"
  BY <1>2 DEF Header
<1>3. CASE link = "Ethernet"
  BY <1>3 DEF Header
<1> QED BY <1>1, <1>2, <1>3 DEF LinkType

\* What is left of a frame when normalize_ip_packet is through.
LEMMA NormalizedIs ==
    ASSUME NEW p \in PacketType, NEW q \in normalize_ip_packet(p)
    PROVE  /\ parse_ip_packet(q) = "tcp"
           /\ q.src = p.src /\ p.protocol = "tcp" /\ p.version \in {4, 6}
           /\ p.version = 4 => p.ihl = 5 /\ FragmentOffset(p.off) = 0 /\ 40 <= p.length /\ p.length <= p.bytes
           /\ p.version = 6 => 20 <= p.length /\ p.length + 40 <= p.bytes
<1> USE DEF parse_ip_packet, IpHeader, IPV4_HEADER_LEN, IPV6_HEADER_LEN, TCP_HEADER_LEN
<1>1. CASE p.version = 4
  <2>1. /\ q \in Normalized(p, 40, p.length) /\ p.protocol = "tcp" /\ p.ihl = 5 /\ FragmentOffset(p.off) = 0
    BY <1>1 DEF normalize_ip_packet
  <2>2. q = [p EXCEPT !.bytes = p.length] /\ 40 <= p.length /\ p.length <= p.bytes
    BY <2>1 DEF Normalized, PacketType
  <2>3. q.version = 4 /\ q.protocol = "tcp" /\ q.bytes = p.length /\ q.src = p.src /\ p.length \in Nat
    BY <1>1, <2>1, <2>2 DEF PacketType
  <2>4. parse_ip_packet(q) = "tcp"
    BY <2>2, <2>3
  <2> QED BY <1>1, <2>1, <2>2, <2>3, <2>4
<1>2. CASE p.version = 6
  <2>1. q \in Normalized(p, 60, 40 + p.length) /\ p.protocol = "tcp"
    BY <1>2 DEF normalize_ip_packet
  <2>2. q = [p EXCEPT !.bytes = 40 + p.length] /\ 20 <= p.length /\ p.length + 40 <= p.bytes
    BY <2>1 DEF Normalized, PacketType
  <2>3. q.version = 6 /\ q.protocol = "tcp" /\ q.bytes = 40 + p.length /\ q.src = p.src /\ p.length \in Nat
    BY <1>2, <2>1, <2>2 DEF PacketType
  <2>4. parse_ip_packet(q) = "tcp"
    BY <2>2, <2>3
  <2> QED BY <1>2, <2>1, <2>2, <2>3, <2>4
<1>3. p.version \in {4, 6}
  BY DEF normalize_ip_packet
<1> QED BY <1>1, <1>2, <1>3

\* A packet of the server that is all there comes out as it was sent.
LEMMA BuiltIsNormalized ==
    ASSUME family \in {4, 6}, NEW p, IsBuilt(p, family, "server"), NEW b \in Nat, p.bytes <= b
    PROVE  normalize_ip_packet([p EXCEPT !.bytes = b]) = {p}
<1> DEFINE q == [p EXCEPT !.bytes = b]
<1>1. p \in PacketType
  BY DEF IsBuilt
<1>2. /\ q \in PacketType /\ q.bytes = b /\ q.version = p.version /\ q.protocol = p.protocol
      /\ q.ihl = p.ihl /\ q.off = p.off /\ q.length = p.length
      /\ [q EXCEPT !.bytes = p.bytes] = p
  BY ONLY <1>1, b \in Nat, Zenon DEF PacketType
<1> HIDE DEF q
<1>3. CASE family = 4
  <2>1. /\ p.version = 4 /\ p.protocol = "tcp" /\ p.ihl = 5 /\ p.off = 16384
        /\ p.length = p.bytes /\ p.bytes >= 40 /\ p.bytes \in Nat
    BY <1>1, <1>3 DEF IsBuilt, PacketType
  <2>2. FragmentOffset(q.off) = 0
    BY <1>2, <2>1, SMT DEF FragmentOffset
  <2>3. q.version = 4 /\ q.protocol = "tcp" /\ q.ihl = 5 /\ q.bytes >= 40
    BY <1>2, <2>1, SMT
  <2>4. normalize_ip_packet(q) = Normalized(q, 40, q.length)
    BY ONLY <2>2, <2>3 DEF normalize_ip_packet
  <2>5. Normalized(q, 40, q.length) = {p}
    BY <1>2, <2>1, SMT DEF Normalized
  <2> QED BY <2>4, <2>5 DEF q
<1>4. CASE family = 6
  <2>1. /\ p.version = 6 /\ p.protocol = "tcp"
        /\ p.length + 40 = p.bytes /\ p.bytes >= 60 /\ p.bytes \in Nat /\ p.length \in Nat
    BY <1>1, <1>4 DEF IsBuilt, PacketType
  <2>2. q.version = 6 /\ q.protocol = "tcp" /\ q.bytes >= 60
    BY <1>2, <2>1, SMT
  <2>3. normalize_ip_packet(q) = Normalized(q, 60, 40 + q.length)
    BY ONLY <2>2 DEF normalize_ip_packet
  <2>4. 40 + q.length = p.bytes
    BY <1>2, <2>1
  <2>5. Normalized(q, 60, 40 + q.length) = {p}
    BY <1>2, <2>1, <2>4, SMT DEF Normalized
  <2> QED BY <2>3, <2>5 DEF q
<1> QED BY <1>3, <1>4

\* An odd packet is no packet as the server builds them, and what padding adds to
\* it does not make it one.
LEMMA OddIs ==
    ASSUME family \in {4, 6}, NEW p \in Odd
    PROVE  /\ p \in PacketType /\ p.bytes <= 61 /\ ~IsBuilt(p, family, "server")
           /\ \A b \in Nat : b <= 61 =>
                 \A q \in normalize_ip_packet([p EXCEPT !.bytes = b]) : q.src # "server"
<1> DEFINE some == FromServer("ACK", 1)
<1>1. /\ some \in PacketType /\ some.version = family
      /\ family = 4 => some.length = 41 /\ some.bytes = 41
      /\ family = 6 => some.length = 21 /\ some.bytes = 61
  <2>1. IsBuilt(some, family, "server")
    BY BuiltIs DEF FromServer
  <2>2. /\ family = 4 => some.length = 41 /\ some.bytes = 41
        /\ family = 6 => some.length = 21 /\ some.bytes = 61
    BY DEF FromServer, build_tcp_packet, TcpHeader, IpHeader, IPV4_HEADER_LEN, IPV6_HEADER_LEN, TCP_HEADER_LEN
  <2> QED BY <2>1, <2>2 DEF IsBuilt
<1> HIDE DEF some
<1>2. \/ p = [some EXCEPT !.src = "other"]
      \/ p = [some EXCEPT !.protocol = "udp"]
      \/ p = [some EXCEPT !.version = 5]
      \/ p = [some EXCEPT !.length = 1000]
      \/ p = [some EXCEPT !.length = 19]
      \/ family = 4 /\ p = [some EXCEPT !.ihl = 6]
      \/ family = 4 /\ p = [some EXCEPT !.off = 1]
      \/ family = 4 /\ p = [some EXCEPT !.length = 39]
  BY DEF Odd, some
<1>3. /\ p \in PacketType /\ p.bytes = some.bytes
      /\ p.src = "other" \/ p.protocol = "udp" \/ p.version = 5
         \/ (p.version = family /\ p.length \in {19, 1000})
         \/ (family = 4 /\ p.version = 4 /\ (p.ihl = 6 \/ p.off = 1 \/ p.length = 39))
  <2> USE <1>1 DEF PacketType
  <2>1. CASE p = [some EXCEPT !.src = "other"]
    BY <2>1
  <2>2. CASE p = [some EXCEPT !.protocol = "udp"]
    BY <2>2
  <2>3. CASE p = [some EXCEPT !.version = 5]
    BY <2>3
  <2>4. CASE p = [some EXCEPT !.length = 1000]
    BY <2>4
  <2>5. CASE p = [some EXCEPT !.length = 19]
    BY <2>5
  <2>6. CASE family = 4 /\ p = [some EXCEPT !.ihl = 6]
    BY <2>6
  <2>7. CASE family = 4 /\ p = [some EXCEPT !.off = 1]
    BY <2>7
  <2>8. CASE family = 4 /\ p = [some EXCEPT !.length = 39]
    BY <2>8
  <2> QED BY <1>2, <2>1, <2>2, <2>3, <2>4, <2>5, <2>6, <2>7, <2>8
<1>4. p.bytes \in {41, 61} /\ (family = 4 => p.bytes = 41) /\ (family = 6 => p.bytes = 61)
  BY <1>1, <1>3
<1>5. ~IsBuilt(p, family, "server")
  BY <1>3, <1>4 DEF IsBuilt
<1>6. ASSUME NEW b \in Nat, b <= 61, NEW q \in normalize_ip_packet([p EXCEPT !.bytes = b]), q.src = "server"
      PROVE  FALSE
  <2> DEFINE r == [p EXCEPT !.bytes = b]
  <2>1. /\ r \in PacketType /\ r.bytes = b /\ r.version = p.version /\ r.protocol = p.protocol
        /\ r.ihl = p.ihl /\ r.off = p.off /\ r.length = p.length /\ r.src = p.src
    BY <1>3 DEF PacketType
  <2> HIDE DEF r
  <2>2. /\ q.src = r.src /\ r.protocol = "tcp" /\ r.version \in {4, 6}
        /\ r.version = 4 => r.ihl = 5 /\ FragmentOffset(r.off) = 0 /\ 40 <= r.length /\ r.length <= r.bytes
        /\ r.version = 6 => 20 <= r.length /\ r.length + 40 <= r.bytes
    BY <1>6, <2>1, NormalizedIs, Zenon DEF r
  <2>3. FragmentOffset(1) # 0
    BY DEF FragmentOffset
  <2> QED BY <1>3, <1>6, <2>1, <2>2, <2>3
<1> QED BY <1>3, <1>4, <1>5, <1>6

Accepts(f) == {p \in packet_from_link_frame(f) : parse_ip_packet(p) = "tcp" /\ p.src = "server"}

\* A frame: a whole packet of the server, or nothing of the server's comes of it.
LEMMA FrameIs ==
    ASSUME link \in LinkType, family \in {4, 6}, NEW f \in Frames
    PROVE  /\ f.packet \in PacketType /\ f.tags \in Nat /\ f.bytes \in Nat
           /\ \/ /\ IsWhole(f) /\ f.network = "ip" /\ IsBuilt(f.packet, family, "server")
                 /\ Header(f.tags) + f.packet.bytes <= f.bytes
              \/ ~IsWhole(f) /\ \A q \in packet_from_link_frame(f) : q.src # "server"
<1> DEFINE tagging == IF link = "Ethernet" THEN Tags ELSE {0}
           server == {FromServer("SYN", 0)} \cup {FromServer("ACK", n) : n \in Payload}
           some == FromServer("ACK", 1)
<1>1. tagging \subseteq Nat /\ 0 \in Nat
  BY WireAssumption DEF WireAssumption
<1>2. \A p \in server : IsBuilt(p, family, "server")
  BY WireAssumption, BuiltIs DEF WireAssumption, FromServer, MAX_PACKET_LEN
<1>3. IsBuilt(some, family, "server")
  BY BuiltIs DEF FromServer
<1>4. \/ \E p \in server, t \in tagging : f = Frame(p, t, "ip")
      \/ \E p \in Odd, t \in tagging : f = Frame(p, t, "ip")
      \/ \E t \in tagging, n \in {0, 19, 39} : f = [Frame(some, t, "ip") EXCEPT !.bytes = Header(t) + n]
      \/ link # "Raw" /\ f = Frame(some, 0, "other")
      \/ link # "Raw" /\ \E t \in tagging : f = [Frame(some, t, "ip") EXCEPT !.bytes = Header(t) - 1]
  BY DEF Frames
<1> HIDE DEF tagging, server, some
<1>5. \A p : IsBuilt(p, family, "server") =>
         /\ p \in PacketType /\ p.bytes \in Nat /\ p.bytes >= 40 /\ p \notin Odd
  BY OddIs DEF IsBuilt, PacketType
<1>6. ASSUME NEW p \in PacketType, NEW t \in Nat, NEW network
      PROVE  /\ Frame(p, t, network).packet = p /\ Frame(p, t, network).tags = t
             /\ Frame(p, t, network).network = network /\ Frame(p, t, network).bytes \in Nat
             /\ Header(t) \in Nat /\ p.bytes \in Nat /\ Header(t) + p.bytes <= Frame(p, t, network).bytes
             /\ Frame(p, t, network).bytes <= 60 \/ Frame(p, t, network).bytes = Header(t) + p.bytes
  BY HeaderIs DEF Frame, PacketType
<1>7. CASE \E p \in server, t \in tagging : f = Frame(p, t, "ip")
  <2>1. PICK p \in server, t \in tagging : f = Frame(p, t, "ip")
    BY <1>7
  <2>2. IsBuilt(p, family, "server") /\ p \in PacketType /\ p \notin Odd /\ t \in Nat
    BY <1>1, <1>2, <1>5
  <2> QED BY <1>6, <2>1, <2>2 DEF IsWhole
<1>8. CASE \E p \in Odd, t \in tagging : f = Frame(p, t, "ip")
  <2>1. PICK p \in Odd, t \in tagging : f = Frame(p, t, "ip")
    BY <1>8
  <2>2. /\ p \in PacketType /\ p.bytes <= 61 /\ t \in Nat
        /\ \A b \in Nat : b <= 61 =>
              \A q \in normalize_ip_packet([p EXCEPT !.bytes = b]) : q.src # "server"
    BY <1>1, OddIs
  <2>3. /\ f.packet = p /\ f.tags = t /\ f.bytes \in Nat /\ ~IsWhole(f)
        /\ f.bytes - Header(t) \in Nat /\ f.bytes - Header(t) <= 61
    BY <1>6, <2>1, <2>2 DEF IsWhole
  <2> QED BY <2>2, <2>3 DEF packet_from_link_frame
<1>9. ASSUME NEW t \in Nat, NEW b \in Nat, f = [Frame(some, t, "ip") EXCEPT !.bytes = b], b < Header(t) + 40,
             link = "Raw" => b >= Header(t)
      PROVE  /\ f.packet \in PacketType /\ f.tags \in Nat /\ f.bytes \in Nat
             /\ ~IsWhole(f) /\ \A q \in packet_from_link_frame(f) : q.src # "server"
  <2>1. some \in PacketType /\ some.bytes \in Nat /\ some.bytes >= 40 /\ Header(t) \in Nat
    BY <1>3, <1>5, HeaderIs
  <2>2. f.packet = some /\ f.tags = t /\ f.bytes = b
    BY <1>9 DEF Frame
  <2>3. ~IsWhole(f)
    BY <1>9, <2>1, <2>2 DEF IsWhole
  <2>4. ASSUME NEW q \in packet_from_link_frame(f) PROVE FALSE
    <3> DEFINE r == [some EXCEPT !.bytes = b - Header(t)]
    <3>1. b - Header(t) \in Nat /\ b - Header(t) < 40 /\ q \in normalize_ip_packet(r)
      BY <1>9, <2>1, <2>2, <2>4 DEF packet_from_link_frame
    <3>2. r.bytes = b - Header(t)
      BY <2>1 DEF PacketType
    <3> HIDE DEF r
    <3>3. normalize_ip_packet(r) = {}
      BY <3>1, <3>2 DEF normalize_ip_packet
    <3> QED BY <3>1, <3>3
  <2> QED BY <2>1, <2>2, <2>3, <2>4
<1>10. CASE \E t \in tagging, n \in {0, 19, 39} : f = [Frame(some, t, "ip") EXCEPT !.bytes = Header(t) + n]
  <2>1. PICK t \in tagging, n \in {0, 19, 39} : f = [Frame(some, t, "ip") EXCEPT !.bytes = Header(t) + n]
    BY <1>10
  <2>2. t \in Nat /\ Header(t) \in Nat
    BY <1>1, HeaderIs
  <2>3. Header(t) + n \in Nat /\ Header(t) + n < Header(t) + 40 /\ Header(t) + n >= Header(t)
    BY <2>2
  <2> QED BY <1>9, <2>1, <2>2, <2>3
<1>11. CASE link # "Raw" /\ f = Frame(some, 0, "other")
  <2>1. f.packet \in PacketType /\ f.tags \in Nat /\ f.bytes \in Nat /\ f.network = "other"
    BY <1>1, <1>3, <1>5, <1>6, <1>11
  <2> QED BY <1>11, <2>1 DEF IsWhole, packet_from_link_frame
<1>12. CASE link # "Raw" /\ \E t \in tagging : f = [Frame(some, t, "ip") EXCEPT !.bytes = Header(t) - 1]
  <2>1. PICK t \in tagging : f = [Frame(some, t, "ip") EXCEPT !.bytes = Header(t) - 1]
    BY <1>12
  <2>2. t \in Nat /\ Header(t) \in Nat /\ Header(t) >= 4
    BY <1>1, <1>12, HeaderIs
  <2>3. Header(t) - 1 \in Nat /\ Header(t) - 1 < Header(t) + 40
    BY <2>2
  <2> QED BY <1>9, <1>12, <2>1, <2>2, <2>3
<1> QED BY <1>4, <1>7, <1>8, <1>10, <1>11, <1>12

\* So the decoder accepts just the packets of the server, and its parser never
\* panics on what it has normalized.
LEMMA FrameDecodes ==
    ASSUME link \in LinkType, family \in {4, 6}, NEW f \in Frames
    PROVE  /\ f.bytes \in Nat
           /\ \A q \in packet_from_link_frame(f) : parse_ip_packet(q) = "tcp"
           /\ IsWhole(f) => Accepts(f) = {f.packet} /\ parse_ip_packet(f.packet) = "tcp"
           /\ ~IsWhole(f) => Accepts(f) = {}
<1>1. f.packet \in PacketType /\ f.tags \in Nat /\ f.bytes \in Nat /\ Header(f.tags) \in Nat
  BY FrameIs, HeaderIs
<1>2. \A q \in packet_from_link_frame(f) : parse_ip_packet(q) = "tcp"
  <2> SUFFICES ASSUME NEW q \in packet_from_link_frame(f) PROVE parse_ip_packet(q) = "tcp"
    OBVIOUS
  <2> DEFINE r == [f.packet EXCEPT !.bytes = f.bytes - Header(f.tags)]
  <2>1. q \in normalize_ip_packet(r) /\ f.bytes - Header(f.tags) \in Nat
    BY <1>1, HeaderIs DEF packet_from_link_frame
  <2>2. r \in PacketType
    BY <1>1, <2>1 DEF PacketType
  <2> HIDE DEF r
  <2> QED BY <2>1, <2>2, NormalizedIs
<1>3. CASE IsWhole(f)
  <2>1. /\ f.network = "ip" /\ IsBuilt(f.packet, family, "server")
        /\ Header(f.tags) + f.packet.bytes <= f.bytes
    BY <1>3, FrameIs
  <2>2. f.packet.bytes \in Nat /\ f.packet.src = "server"
    BY <1>1, <2>1 DEF PacketType, IsBuilt
  <2>3. /\ f.bytes - Header(f.tags) \in Nat /\ f.packet.bytes <= f.bytes - Header(f.tags)
        /\ ~(f.bytes < Header(f.tags))
    BY <1>1, <2>1, <2>2
  <2>4. packet_from_link_frame(f) = {f.packet}
    BY <2>1, <2>3, BuiltIsNormalized DEF packet_from_link_frame
  <2> QED BY <1>1, <1>2, <1>3, <2>2, <2>4 DEF Accepts
<1>4. CASE ~IsWhole(f)
  BY <1>1, <1>2, <1>4, FrameIs DEF Accepts
<1> QED BY <1>3, <1>4

-----------------------------------------------------------------------------
\* The buffer.

RecordType == [start : Nat, header_len : {18, 20}, frame : Frames]

\* Records follow each other at multiples of the word.
Layout ==
    /\ \A i \in DOMAIN records : i = 1 => records[i].start = 0
    /\ \A i, j \in DOMAIN records : j = i + 1 => records[j].start = bpf_word_align(End(records[i]))
    /\ \A i, j \in DOMAIN records : i < j => End(records[i]) <= records[j].start

WireTypeOK ==
    /\ link \in LinkType /\ family \in {4, 6}
    /\ records \in Seq(RecordType)
    /\ size \in Nat /\ offset \in Nat
    /\ status \in {"filling", "decoding", "queued", "error"}

\* What read may have returned: at least the start of the last record.
Filled ==
    /\ records # <<>>
    /\ Last.start + 17 <= size
    /\ size < End(Last) \/ Ends(End(Last))

\* s has the elements of S, in increasing order.
Enumerates(s, S) == s \in Seq(Nat) /\ Increasing(s) /\ Range(s) = S

\* The decoder is at record c, and has put the packets of the earlier ones in the queue.
DecodedTo(c) ==
    /\ offset = records[c].start
    /\ \E b \in Seq(Nat) : Enumerates(b, {i \in Whole : i < c}) /\ packets = PacketsOf(b)

Wanted == {i \in Whole : Fits(records[i].frame.packet)}

\* The packets of the records a are delivered, those of the records b are queued.
Handed(a, b) ==
    /\ Enumerates(a, Range(a)) /\ Enumerates(b, Range(b)) /\ Below(a, b)
    /\ Range(b) \subseteq Whole
    /\ Range(a) \cup (Range(b) \cap Wanted) = Wanted
    /\ delivered = PacketsOf(a) /\ packets = PacketsOf(b)

ReceiveInv ==
    /\ status = "filling" => size = 0 /\ offset = 0 /\ packets = <<>> /\ delivered = <<>>
    /\ status # "filling" => Filled
    /\ status = "decoding" => delivered = <<>> /\ \E c \in DOMAIN records : DecodedTo(c)
    /\ status = "queued" => ~Cut /\ \E a, b \in Seq(Nat) : Handed(a, b)
    /\ status = "error" => Cut

WireInv == WireTypeOK /\ Layout /\ ReceiveInv

LEMMA AlignIs ==
    ASSUME NEW x \in Nat
    PROVE  bpf_word_align(x) \in Nat /\ x <= bpf_word_align(x) /\ bpf_word_align(x) < x + 4
BY DEF bpf_word_align

LEMMA RecordIs ==
    ASSUME link \in LinkType, family \in {4, 6}, NEW r \in RecordType
    PROVE  /\ r.start \in Nat /\ r.header_len \in {18, 20} /\ r.frame \in Frames /\ r.frame.bytes \in Nat
           /\ End(r) = r.start + r.header_len + r.frame.bytes
           /\ End(r) \in Nat /\ r.start + 18 <= End(r)
<1>1. r.start \in Nat /\ r.header_len \in {18, 20} /\ r.frame \in Frames
  BY DEF RecordType
<1>2. r.frame.bytes \in Nat
  BY <1>1, FrameDecodes
<1> QED BY <1>1, <1>2 DEF End

LEMMA SameFrames ==
    ASSUME UNCHANGED <<link, family>>
    PROVE  Frames' = Frames /\ RecordType' = RecordType /\ \A f : IsWhole(f)' <=> IsWhole(f)
<1> USE DEF Header, FromServer, Odd, Frame
<1>1. Frames' = Frames
  BY DEF Frames
<1>2. \A f : IsWhole(f)' <=> IsWhole(f)
  BY DEF IsWhole
<1> QED BY <1>1, <1>2 DEF RecordType

LEMMA SameBuffer ==
    ASSUME WireTypeOK, UNCHANGED <<link, family, records>>
    PROVE  /\ records' \in Seq(RecordType') /\ (Layout => Layout')
           /\ Whole' = Whole /\ Wanted' = Wanted /\ \A b : PacketsOf(b)' = PacketsOf(b)
<1>1. Frames' = Frames /\ RecordType' = RecordType /\ \A f : IsWhole(f)' <=> IsWhole(f)
  BY SameFrames
<1>2. Layout => Layout'
  BY DEF Layout, End
<1>3. Whole' = Whole
  BY <1>1 DEF Whole
<1>4. Wanted' = Wanted
  BY <1>3 DEF Wanted, Fits, MAX_PACKET_LEN
<1>5. \A b : PacketsOf(b)' = PacketsOf(b)
  BY DEF PacketsOf
<1> QED BY <1>1, <1>2, <1>3, <1>4, <1>5 DEF WireTypeOK

LEMMA CapturedKeeps ==
    ASSUME WireInv, NEW f \in Frames, Captured(f)
    PROVE  WireInv'
<1> DEFINE n == Len(records)
           start == IF records = <<>> THEN 0 ELSE bpf_word_align(End(Last))
           r == [start |-> start, header_len |-> HeaderLen, frame |-> f]
<1>1. /\ status = "filling" /\ records' = Append(records, r)
      /\ UNCHANGED <<link, family, size, offset, packets, status, delivered>>
  BY DEF Captured, bpf_word_align
<1>2. link \in LinkType /\ family \in {4, 6} /\ records \in Seq(RecordType)
  BY DEF WireInv, WireTypeOK
<1>3. n \in Nat /\ DOMAIN records = 1 .. n /\ \A i \in 1 .. n : records[i] \in RecordType
  BY <1>2
<1>4. \A i \in 1 .. n : /\ records[i].start \in Nat /\ End(records[i]) \in Nat
                       /\ records[i].start + 18 <= End(records[i])
  BY <1>2, <1>3, RecordIs
<1>5. n # 0 => Last = records[n] /\ n \in 1 .. n /\ records # <<>>
  BY <1>2, <1>3 DEF Last
<1>6. n = 0 => records = <<>>
  BY <1>2, <1>3
<1>7. start \in Nat /\ (n = 0 => start = 0) /\ (n # 0 => start = bpf_word_align(End(records[n])))
  BY <1>4, <1>5, <1>6, AlignIs, Zenon
<1> HIDE DEF start, n
<1>8. r \in RecordType /\ r.start = start
  BY <1>7 DEF RecordType, HeaderLen
<1> HIDE DEF r
<1>9. records' \in Seq(RecordType)
  BY <1>1, <1>2, <1>8
<1>10. WireTypeOK'
  <2>1. RecordType' = RecordType
    BY <1>1, SameFrames
  <2> QED BY <1>1, <1>9, <2>1 DEF WireInv, WireTypeOK
<1>11. Layout'
  <2>1. DOMAIN records' = 1 .. n + 1 /\ records'[n + 1] = r /\ \A i \in 1 .. n : records'[i] = records[i]
    BY <1>1, <1>2, <1>3, <1>8 DEF n
  <2>2. \A i \in 1 .. n + 1 : i \in 1 .. n \/ i = n + 1
    BY <1>3
  <2>3. \A i \in DOMAIN records' : i = 1 => records'[i].start = 0
    <3>1. \A i \in 1 .. n : i = 1 => records[i].start = 0
      BY <1>3 DEF WireInv, Layout
    <3>2. n + 1 = 1 => r.start = 0
      BY <1>3, <1>7, <1>8
    <3> QED BY <2>1, <2>2, <3>1, <3>2
  <2>4. \A i, j \in DOMAIN records' : j = i + 1 => records'[j].start = bpf_word_align(End(records'[i]))
    <3> SUFFICES ASSUME NEW i \in 1 .. n + 1, NEW j \in 1 .. n + 1, j = i + 1
                 PROVE  records'[j].start = bpf_word_align(End(records'[i]))
      BY <2>1
    <3>1. i \in 1 .. n
      BY <1>3
    <3>2. CASE j \in 1 .. n
      BY <1>3, <2>1, <3>1, <3>2, Zenon DEF WireInv, Layout
    <3>3. CASE j = n + 1
      <4>1. i = n /\ n # 0
        BY <1>3, <3>1, <3>3
      <4> QED BY <1>7, <1>8, <2>1, <3>1, <3>3, <4>1
    <3> QED BY <2>2, <3>2, <3>3
  <2>5. \A i, j \in DOMAIN records' : i < j => End(records'[i]) <= records'[j].start
    <3> SUFFICES ASSUME NEW i \in 1 .. n + 1, NEW j \in 1 .. n + 1, i < j
                 PROVE  End(records'[i]) <= records'[j].start
      BY <2>1
    <3>1. i \in 1 .. n
      BY <1>3
    <3>2. CASE j \in 1 .. n
      BY <1>3, <2>1, <3>1, <3>2, Zenon DEF WireInv, Layout
    <3>3. CASE j = n + 1
      <4>1. n \in 1 .. n /\ n # 0 /\ (i = n \/ i < n)
        BY <1>3, <3>1
      <4>2. End(records[n]) <= start
        BY <1>4, <1>7, <4>1, AlignIs
      <4>3. End(records[i]) <= End(records[n])
        <5>1. i < n => End(records[i]) <= records[n].start
          BY <1>3, <3>1, <4>1 DEF WireInv, Layout
        <5> QED BY <1>4, <3>1, <4>1, <5>1
      <4> QED BY <1>4, <1>7, <1>8, <2>1, <3>1, <3>3, <4>1, <4>2, <4>3
    <3> QED BY <2>2, <3>2, <3>3
  <2> QED BY <2>3, <2>4, <2>5 DEF Layout, End
<1>12. ReceiveInv'
  BY <1>1 DEF WireInv, ReceiveInv
<1> QED BY <1>10, <1>11, <1>12 DEF WireInv

LEMMA ReadKeeps ==
    ASSUME WireInv, Read
    PROVE  WireInv'
<1> DEFINE n == Len(records)
           last == Last
           end == End(last)
<1>1. /\ status = "filling" /\ records # <<>> /\ status' = "decoding"
      /\ size' \in {bpf_word_align(end), end, end - 1, last.start + 17}
      /\ UNCHANGED <<link, family, records, offset, packets, delivered>>
  BY DEF Read, bpf_word_align
<1>2. link \in LinkType /\ family \in {4, 6} /\ records \in Seq(RecordType)
  BY DEF WireInv, WireTypeOK
<1>3. n \in Nat /\ DOMAIN records = 1 .. n /\ 1 \in 1 .. n /\ last \in RecordType
  BY <1>1, <1>2 DEF Last
<1> HIDE DEF last
<1>4. last.start \in Nat /\ end \in Nat /\ last.start + 18 <= end
  BY <1>2, <1>3, RecordIs
<1> HIDE DEF end
<1>5. bpf_word_align(end) \in Nat /\ end <= bpf_word_align(end)
  BY <1>4, AlignIs
<1>6. size' \in Nat /\ last.start + 17 <= size' /\ (size' < end \/ size' \in {end, bpf_word_align(end)})
  BY <1>1, <1>4, <1>5
<1>7. Filled'
  <2>1. Last' = last
    BY <1>1 DEF last, Last
  <2>2. End(Last)' = end
    BY <2>1, <1>1 DEF end, End
  <2>3. bpf_word_align(end)' = bpf_word_align(end)
    BY <1>1 DEF end, last, Last, End
  <2> QED BY <1>1, <1>6, <2>1, <2>2, <2>3 DEF Filled, Ends
<1>8. WireTypeOK' /\ Layout'
  BY <1>1, <1>6, SameBuffer DEF WireInv, WireTypeOK
<1>9. DecodedTo(1)'
  <2>1. offset' = records'[1].start
    BY <1>1, <1>3 DEF WireInv, Layout, ReceiveInv
  <2>2. {i \in Whole : i < 1}' = {}
    BY <1>1, <1>3 DEF Whole
  <2>3. Enumerates(<<>>, {i \in Whole : i < 1})'
    BY <2>2, EmptyIs DEF Enumerates
  <2>4. packets' = PacketsOf(<<>>)'
    BY <1>1 DEF WireInv, ReceiveInv, PacketsOf
  <2> QED BY <2>1, <2>3, <2>4, EmptyIs, Zenon DEF DecodedTo
<1>10. ReceiveInv'
  BY <1>1, <1>3, <1>7, <1>9 DEF WireInv, ReceiveInv
<1> QED BY <1>8, <1>10 DEF WireInv

-----------------------------------------------------------------------------
\* The queue.

LEMMA PacketsAre ==
    ASSUME WireTypeOK, NEW b \in Seq(Nat), Range(b) \subseteq DOMAIN records
    PROVE  /\ PacketsOf(b) \in Seq(PacketType) /\ Len(PacketsOf(b)) = Len(b)
           /\ \A k \in 1 .. Len(b) : PacketsOf(b)[k] = records[b[k]].frame.packet
<1>1. Len(b) \in Nat /\ DOMAIN b = 1 .. Len(b)
  OBVIOUS
<1>2. \A k \in 1 .. Len(b) : b[k] \in DOMAIN records
  BY <1>1 DEF Range
<1>3. \A i \in DOMAIN records : records[i].frame.packet \in PacketType
  <2>1. \A i \in DOMAIN records : records[i].frame \in Frames
    <3>1. \A i \in DOMAIN records : records[i] \in RecordType
      BY DEF WireTypeOK
    <3> QED BY <3>1 DEF RecordType
  <2> QED BY <2>1, FrameIs DEF WireTypeOK
<1>4. PacketsOf(b) = [k \in 1 .. Len(b) |-> records[b[k]].frame.packet]
  BY <1>1 DEF PacketsOf
<1>5. \A k \in 1 .. Len(b) : records[b[k]].frame.packet \in PacketType
  BY <1>2, <1>3
<1> QED BY <1>1, <1>4, <1>5

LEMMA PacketsGrow ==
    ASSUME WireTypeOK, NEW b \in Seq(Nat), Range(b) \subseteq DOMAIN records, NEW c \in DOMAIN records
    PROVE  PacketsOf(Append(b, c)) = Append(PacketsOf(b), records[c].frame.packet)
<1> DEFINE d == Append(b, c)
           x == records[c].frame.packet
           q == PacketsOf(b)
<1>0. c \in Nat
  BY DEF WireTypeOK
<1>1. /\ Len(b) \in Nat /\ d \in Seq(Nat) /\ Len(d) = Len(b) + 1 /\ d[Len(b) + 1] = c
      /\ \A k \in 1 .. Len(b) : d[k] = b[k]
  BY <1>0
<1>2. DOMAIN b = 1 .. Len(b) /\ DOMAIN d = 1 .. Len(b) + 1
  BY <1>1
<1> HIDE DEF d
<1>3. Range(d) \subseteq DOMAIN records
  <2>1. \A k \in 1 .. Len(b) : b[k] \in DOMAIN records
    BY <1>2 DEF Range
  <2> QED BY <1>1, <1>2, <2>1, SMTT(30) DEF Range
<1>4. /\ q \in Seq(PacketType) /\ Len(q) = Len(b)
      /\ \A k \in 1 .. Len(b) : q[k] = records[b[k]].frame.packet
  BY PacketsAre
<1>5. /\ PacketsOf(d) \in Seq(PacketType) /\ Len(PacketsOf(d)) = Len(d)
      /\ \A k \in 1 .. Len(d) : PacketsOf(d)[k] = records[d[k]].frame.packet
  BY <1>1, <1>3, PacketsAre
<1>6. x \in PacketType
  <2>1. 1 .. Len(b) + 1 = 1 .. Len(d) /\ Len(b) + 1 \in 1 .. Len(d)
    BY <1>1
  <2> QED BY <1>1, <1>5, <2>1
<1> HIDE DEF q, x
<1>7. /\ Append(q, x) \in Seq(PacketType) /\ Len(Append(q, x)) = Len(d)
      /\ Append(q, x)[Len(b) + 1] = x /\ \A k \in 1 .. Len(b) : Append(q, x)[k] = q[k]
  BY <1>1, <1>4, <1>6
<1>8. ASSUME NEW k \in 1 .. Len(d) PROVE PacketsOf(d)[k] = Append(q, x)[k]
  <2>1. CASE k = Len(b) + 1
    BY <1>1, <1>5, <1>7, <2>1 DEF x
  <2>2. CASE k \in 1 .. Len(b)
    BY <1>1, <1>4, <1>5, <1>7, <2>2, Zenon
  <2>3. k = Len(b) + 1 \/ k \in 1 .. Len(b)
    BY ONLY <1>1, k \in 1 .. Len(d)
  <2> QED BY <2>1, <2>2, <2>3, Zenon
<1>9. PacketsOf(d) = Append(q, x)
  BY <1>5, <1>7, <1>8, SeqEqual, Zenon
<1> QED BY <1>9 DEF d, q, x

LEMMA PacketsRest ==
    ASSUME WireTypeOK, NEW b \in Seq(Nat), Range(b) \subseteq DOMAIN records, b # <<>>
    PROVE  /\ PacketsOf(b) # <<>>
           /\ Head(PacketsOf(b)) = records[Head(b)].frame.packet
           /\ Tail(PacketsOf(b)) = PacketsOf(Tail(b))
<1> DEFINE d == Tail(b)
           q == PacketsOf(b)
<1>1. /\ Len(b) \in Nat /\ Len(b) > 0 /\ d \in Seq(Nat) /\ Len(d) = Len(b) - 1 /\ b[1] = Head(b)
      /\ \A k \in 1 .. Len(d) : d[k] = b[k + 1]
  BY HeadTailProperties
<1>2. DOMAIN b = 1 .. Len(b) /\ DOMAIN d = 1 .. Len(d)
  BY <1>1
<1> HIDE DEF d
<1>3. Range(d) \subseteq DOMAIN records
  <2>1. \A k \in 1 .. Len(d) : k + 1 \in 1 .. Len(b)
    BY <1>1
  <2> QED BY <1>1, <1>2, <2>1, Zenon DEF Range
<1>4. /\ q \in Seq(PacketType) /\ Len(q) = Len(b)
      /\ \A k \in 1 .. Len(b) : q[k] = records[b[k]].frame.packet
  BY PacketsAre
<1>5. /\ PacketsOf(d) \in Seq(PacketType) /\ Len(PacketsOf(d)) = Len(d)
      /\ \A k \in 1 .. Len(d) : PacketsOf(d)[k] = records[d[k]].frame.packet
  BY <1>1, <1>3, PacketsAre, Zenon
<1> HIDE DEF q
<1>6. q # <<>> /\ Head(q) = q[1] /\ 1 \in 1 .. Len(b)
  BY <1>1, <1>4
<1>7. /\ Tail(q) \in Seq(PacketType) /\ Len(Tail(q)) = Len(d)
      /\ \A k \in 1 .. Len(d) : Tail(q)[k] = q[k + 1]
  BY <1>1, <1>4, <1>6, HeadTailProperties
<1>8. ASSUME NEW k \in 1 .. Len(d) PROVE Tail(q)[k] = PacketsOf(d)[k]
  <2>1. k + 1 \in 1 .. Len(b)
    BY <1>1
  <2> QED BY <1>1, <1>4, <1>5, <1>7, <2>1, Zenon
<1>9. Tail(q) = PacketsOf(d)
  BY <1>5, <1>7, <1>8, SeqEqual, Zenon
<1> QED BY <1>1, <1>4, <1>6, <1>9 DEF d, q

-----------------------------------------------------------------------------
\* The decoder.

\* The packet of record c, if it is the server's, goes behind the queue.
LEMMA QueueGrows ==
    ASSUME WireInv, NEW c \in DOMAIN records, DecodedTo(c), NEW q,
           \/ \E p \in Accepts(records[c].frame) : q = Append(packets, p)
           \/ Accepts(records[c].frame) = {} /\ q = packets
    PROVE  \E b \in Seq(Nat) :
             /\ Enumerates(b, {i \in Whole : i < c + 1})
             /\ q = PacketsOf(b)
<1>1. PICK b \in Seq(Nat) : Enumerates(b, {i \in Whole : i < c}) /\ packets = PacketsOf(b)
  BY Zenon DEF DecodedTo
<1>2. records \in Seq(RecordType) /\ DOMAIN records \subseteq Nat /\ c \in Nat
  BY DEF WireInv, WireTypeOK
<1>3. Range(b) = {i \in Whole : i < c} /\ Increasing(b) /\ Whole \subseteq DOMAIN records
  BY <1>1 DEF Enumerates, Whole
<1>5. records[c].frame \in Frames
  <2>1. records[c] \in RecordType
    BY <1>2
  <2> QED BY <2>1 DEF RecordType
<1>6. records[c].frame.packet \in PacketType
  BY <1>5, FrameIs DEF WireInv, WireTypeOK
<1>7. CASE c \in Whole
  <2>1. Accepts(records[c].frame) = {records[c].frame.packet}
    BY <1>5, <1>7, FrameDecodes DEF WireInv, WireTypeOK, Whole
  <2>2. q = PacketsOf(Append(b, c))
    <3>1. q = Append(packets, records[c].frame.packet)
      BY <2>1, Zenon
    <3>2. Range(b) \subseteq DOMAIN records /\ WireTypeOK
      BY <1>3 DEF WireInv
    <3>3. PacketsOf(Append(b, c)) = Append(PacketsOf(b), records[c].frame.packet)
      BY <3>2, PacketsGrow
    <3> QED BY <1>1, <3>1, <3>3
  <2>3. \A m \in Range(b) : m < c
    BY <1>3
  <2>4. /\ Append(b, c) \in Seq(Nat) /\ Increasing(Append(b, c))
        /\ Range(Append(b, c)) = Range(b) \cup {c}
    BY <1>2, <1>3, <2>3, AppendIs
  <2>5. \A i \in Whole : i < c + 1 <=> i < c \/ i = c
    BY <1>2, <1>3
  <2>6. {i \in Whole : i < c + 1} = {i \in Whole : i < c} \cup {c}
    BY <1>7, <2>5
  <2>7. Enumerates(Append(b, c), {i \in Whole : i < c + 1})
    BY <1>3, <2>4, <2>6 DEF Enumerates
  <2> QED BY <2>2, <2>4, <2>7, Zenon
<1>8. CASE c \notin Whole
  <2>1. Accepts(records[c].frame) = {}
    BY <1>5, <1>8, FrameDecodes DEF WireInv, WireTypeOK, Whole
  <2>2. q = PacketsOf(b)
    BY <1>1, <2>1
  <2>3. \A i \in Whole : i < c + 1 <=> i < c
    BY <1>2, <1>3, <1>8
  <2>4. {i \in Whole : i < c + 1} = {i \in Whole : i < c}
    BY <2>3
  <2> QED BY <1>1, <2>2, <2>4, Zenon
<1> QED BY <1>7, <1>8, Zenon

\* Where the decoder is, and what the size of the buffer says of the record there.
LEMMA PositionIs ==
    ASSUME WireInv, status = "decoding", NEW c \in DOMAIN records, DecodedTo(c)
    PROVE  /\ HeadersAt(offset) = {records[c]}
           /\ records[c].start = offset
           /\ c + 1 \notin DOMAIN records =>
                 /\ records[c] = Last
                 /\ Ends(End(records[c])) \/ size < End(records[c])
           /\ c + 1 \in DOMAIN records =>
                 /\ records[c + 1].start = bpf_word_align(End(records[c]))
                 /\ bpf_word_align(End(records[c])) < size
<1> DEFINE n == Len(records)
<1>1. link \in LinkType /\ family \in {4, 6} /\ records \in Seq(RecordType) /\ size \in Nat
  BY DEF WireInv, WireTypeOK
<1>2. n \in Nat /\ DOMAIN records = 1 .. n /\ \A i \in 1 .. n : records[i] \in RecordType
  BY <1>1
<1>3. \A i \in 1 .. n : /\ records[i].start \in Nat /\ End(records[i]) \in Nat
                       /\ records[i].start + 18 <= End(records[i])
  BY <1>1, <1>2, RecordIs, Zenon
<1>4. Last = records[n]
  BY DEF Last
<1>5. records[n].start + 17 <= size /\ (size < End(records[n]) \/ Ends(End(records[n])))
  BY <1>4, Zenon DEF WireInv, ReceiveInv, Filled
<1> HIDE DEF n
<1>6. offset = records[c].start
  BY DEF DecodedTo
<1>7. n \in 1 .. n /\ c \in 1 .. n
  BY <1>2
<1>8. \A i, j \in 1 .. n : i < j => End(records[i]) <= records[j].start
  BY <1>2 DEF WireInv, Layout
<1>9. HeadersAt(offset) = {records[c]}
  <2>1. ASSUME NEW i \in 1 .. n, records[i].start = offset PROVE i = c
    <3>1. i < c => FALSE
      BY <1>3, <1>6, <1>7, <1>8, <2>1
    <3>2. c < i => FALSE
      BY <1>3, <1>6, <1>7, <1>8, <2>1
    <3> QED BY <1>2, <1>7, <3>1, <3>2
  <2> QED BY <1>2, <1>6, <1>7, <2>1 DEF HeadersAt, Range
<1>10. CASE c + 1 \notin DOMAIN records
  <2>1. c = n
    BY <1>2, <1>7, <1>10
  <2> QED BY <1>4, <1>5, <1>6, <1>9, <1>10, <2>1
<1>11. CASE c + 1 \in DOMAIN records
  <2>1. c + 1 \in 1 .. n
    BY <1>2, <1>11
  <2>2. records[c + 1].start = bpf_word_align(End(records[c]))
    BY <1>11 DEF WireInv, Layout
  <2>3. c + 1 = n \/ c + 1 < n
    BY <1>2, <1>7, <2>1
  <2>4. records[c + 1].start <= records[n].start
    BY <1>3, <1>7, <1>8, <2>1, <2>3
  <2>5. records[c + 1].start < size
    <3>1. records[c + 1].start \in Nat /\ records[n].start \in Nat
      BY <1>3, <1>7, <2>1
    <3>2. records[n].start + 17 <= size /\ size \in Nat
      BY <1>1, <1>5
    <3> QED BY ONLY <2>4, <3>1, <3>2
  <2> QED BY <1>6, <1>9, <1>11, <2>2, <2>5
<1> QED BY <1>10, <1>11, Zenon

LEMMA IterateKeeps ==
    ASSUME WireInv, Iterate
    PROVE  WireInv'
<1>1. status = "decoding" /\ UNCHANGED <<link, family, records, size, delivered>>
  BY DEF Iterate, Fails
<1>2. PICK c \in DOMAIN records : DecodedTo(c)
  BY <1>1 DEF WireInv, ReceiveInv
<1> DEFINE r == records[c]
           end == End(r)
           invalid == \/ size - offset < BPF_HEADER_MIN_SIZE
                      \/ r.header_len < BPF_HEADER_MIN_SIZE
                      \/ offset + r.header_len + r.frame.bytes > size
<1>3. link \in LinkType /\ family \in {4, 6} /\ records \in Seq(RecordType) /\ size \in Nat /\ offset \in Nat
  BY DEF WireInv, WireTypeOK
<1>4. HeadersAt(offset) = {r} /\ r.start = offset
  BY <1>1, <1>2, PositionIs
<1>5. r \in RecordType
  BY <1>2, <1>3
<1>6. /\ r.header_len \in {18, 20} /\ r.frame \in Frames /\ r.frame.bytes \in Nat
      /\ end = offset + r.header_len + r.frame.bytes /\ end \in Nat /\ offset + 18 <= end
  BY <1>3, <1>4, <1>5, RecordIs, Zenon
<1>7. bpf_word_align(end) \in Nat /\ end <= bpf_word_align(end)
  BY <1>6, AlignIs
<1>8. \A p \in packet_from_link_frame(r.frame) : parse_ip_packet(p) = "tcp"
  BY <1>3, <1>6, FrameDecodes
<1>9. \/ invalid /\ Fails("error")
      \/ /\ ~invalid
         /\ \/ \E p \in Accepts(r.frame) : packets' = Append(packets, p)
            \/ Accepts(r.frame) = {} /\ packets' = packets
         /\ offset' = bpf_word_align(end)
         /\ status' = CASE Ends(end) -> "queued"
                        [] ~Ends(end) /\ offset' > size -> "error"
                        [] OTHER -> "decoding"
  BY <1>4, <1>6, <1>8 DEF Iterate, Accepts
<1>10. end <= size => ~invalid
  BY <1>3, <1>6 DEF BPF_HEADER_MIN_SIZE
<1>11. size < end => invalid
  BY <1>3, <1>6
<1> HIDE DEF invalid
<1>12. records' \in Seq(RecordType') /\ Layout' /\ Whole' = Whole /\ Wanted' = Wanted
       /\ \A b : PacketsOf(b)' = PacketsOf(b)
  BY <1>1, SameBuffer DEF WireInv
<1>13. Filled'
  BY <1>1, Zenon DEF WireInv, ReceiveInv, Filled, Ends, Last, End
<1>14. CASE size < end
  <2>1. status' = "error" /\ UNCHANGED <<offset, packets>>
    BY <1>9, <1>11, <1>14 DEF Fails
  <2>2. r = Last
    <3>1. CASE c + 1 \in DOMAIN records
      <4>1. bpf_word_align(end) < size
        BY <1>1, <1>2, <3>1, PositionIs
      <4> QED BY ONLY <1>3, <1>6, <1>7, <1>14, <4>1
    <3>2. CASE c + 1 \notin DOMAIN records
      BY <1>1, <1>2, <3>2, PositionIs
    <3> QED BY <3>1, <3>2
  <2>3. size > 0
    <3>1. r.start + 17 <= size
      BY <1>1, <2>2 DEF WireInv, ReceiveInv, Filled
    <3> QED BY <1>3, <1>4, <3>1
  <2>4. Cut'
    BY <1>1, <1>14, <2>2, <2>3 DEF Cut, Last, End
  <2>5. WireTypeOK'
    BY <1>1, <1>3, <1>12, <2>1 DEF WireTypeOK
  <2>6. ReceiveInv'
    BY <1>13, <2>1, <2>4 DEF ReceiveInv
  <2> QED BY <1>12, <2>5, <2>6 DEF WireInv
<1>15. CASE end <= size
  <2>1. /\ \/ \E p \in Accepts(r.frame) : packets' = Append(packets, p)
           \/ Accepts(r.frame) = {} /\ packets' = packets
        /\ offset' = bpf_word_align(end)
        /\ status' = CASE Ends(end) -> "queued"
                       [] ~Ends(end) /\ offset' > size -> "error"
                       [] OTHER -> "decoding"
    BY <1>9, <1>10, <1>15
  <2>2. PICK b \in Seq(Nat) : Enumerates(b, {i \in Whole : i < c + 1}) /\ packets' = PacketsOf(b)
    BY <1>2, <2>1, QueueGrows, Zenon
  <2>3. delivered' = <<>>
    BY <1>1 DEF WireInv, ReceiveInv
  <2>4. CASE c + 1 \in DOMAIN records
    <3>1. records[c + 1].start = bpf_word_align(end) /\ bpf_word_align(end) < size
      BY <1>1, <1>2, <2>4, PositionIs
    <3>2. ~Ends(end)
      BY ONLY <1>3, <1>6, <1>7, <3>1 DEF Ends
    <3>3. ~(offset' > size)
      BY ONLY <1>3, <1>7, <2>1, <3>1
    <3>4. status' = "decoding"
      BY <2>1, <3>2, <3>3
    <3>5. WireTypeOK'
      BY <1>1, <1>3, <1>7, <1>12, <2>1, <3>4 DEF WireTypeOK
    <3>6. DecodedTo(c + 1)'
      BY <1>1, <1>12, <2>1, <2>2, <3>1, Zenon DEF DecodedTo
    <3>7. ReceiveInv'
      BY <1>1, <1>13, <2>3, <2>4, <3>4, <3>6 DEF ReceiveInv
    <3> QED BY <1>12, <3>5, <3>7 DEF WireInv
  <2>5. CASE c + 1 \notin DOMAIN records
    <3>1. r = Last /\ (Ends(end) \/ size < end)
      BY <1>1, <1>2, <2>5, PositionIs
    <3>2. Ends(end)
      BY ONLY <1>3, <1>6, <1>15, <3>1
    <3>3. status' = "queued"
      BY <2>1, <3>2
    <3>4. WireTypeOK'
      BY <1>1, <1>3, <1>7, <1>12, <2>1, <3>3 DEF WireTypeOK
    <3>5. ~Cut'
      <4>1. End(Last)' = end /\ ~(size < end)
        BY <1>1, <1>3, <1>6, <1>15, <3>1 DEF Last, End
      <4> QED BY <1>1, <4>1 DEF Cut
    <3>6. {i \in Whole : i < c + 1} = Whole
      <4>1. \A i \in DOMAIN records : i < c + 1
        BY <1>2, <1>3, <2>5
      <4> QED BY <4>1 DEF Whole
    <3>7. Handed(<<>>, b)'
      <4>1. Enumerates(b, Whole)
        BY <2>2, <3>6, Zenon
      <4>2. Enumerates(<<>>, {}) /\ Range(<<>>) = {}
        BY EmptyIs DEF Enumerates
      <4>3. Range(b) = Whole
        BY <4>1 DEF Enumerates
      <4>4. Below(<<>>, b)
        BY <4>2 DEF Below
      <4>5. Range(<<>>) \cup (Range(b) \cap Wanted) = Wanted
        BY <4>2, <4>3 DEF Wanted
      <4>6. delivered' = PacketsOf(<<>>)
        BY <2>3 DEF PacketsOf
      <4> QED BY <1>12, <2>2, <4>1, <4>2, <4>3, <4>4, <4>5, <4>6, Zenon DEF Handed
    <3>8. ReceiveInv'
      BY <1>13, <2>2, <3>3, <3>5, <3>7, EmptyIs, Zenon DEF ReceiveInv
    <3> QED BY <1>12, <3>4, <3>8 DEF WireInv
  <2> QED BY <2>4, <2>5
<1> QED BY <1>3, <1>6, <1>14, <1>15

\* The first of an increasing sequence, and the others.
LEMMA TailIs ==
    ASSUME NEW b \in Seq(Nat), Increasing(b), b # <<>>
    PROVE  /\ Head(b) \in Nat /\ Tail(b) \in Seq(Nat) /\ Increasing(Tail(b))
           /\ Range(b) = {Head(b)} \cup Range(Tail(b)) /\ \A m \in Range(Tail(b)) : Head(b) < m
<1>1. PICK l \in Nat : l = Len(b) /\ l > 0 /\ DOMAIN b = 1 .. l /\ Head(b) = b[1] /\ \A j \in 1 .. l : b[j] \in Nat
  OBVIOUS
<1>2. Tail(b) = SubSeq(b, 1 + 1, Len(b))
  BY TailIsSubSeq
<1>3. 1 \in DOMAIN b
  BY <1>1
<1>4. Tail(b) \in Seq(Nat) /\ Increasing(Tail(b)) /\ Range(Tail(b)) = {b[j] : j \in 1 + 1 .. l}
  BY <1>1, <1>2, <1>3, RestIs, Zenon
<1>5. \A j \in 1 .. l : j = 1 \/ j \in 1 + 1 .. l
  BY <1>1
<1>6. \A j \in 1 + 1 .. l : j \in 1 .. l /\ 1 < j
  BY <1>1
<1>7. Range(b) = {Head(b)} \cup Range(Tail(b))
  BY <1>1, <1>3, <1>4, <1>5, <1>6, Zenon DEF Range
<1>8. \A m \in Range(Tail(b)) : Head(b) < m
  BY <1>1, <1>3, <1>4, <1>6 DEF Increasing
<1> QED BY <1>1, <1>3, <1>4, <1>7, <1>8

LEMMA CopyPendingKeeps ==
    ASSUME WireInv, CopyPending
    PROVE  WireInv'
<1> DEFINE p == Head(packets)
<1>1. /\ status = "queued" /\ packets # <<>> /\ packets' = Tail(packets)
      /\ UNCHANGED <<link, family, records, size, offset>>
      /\ delivered' = IF Fits(p) THEN Append(delivered, p) ELSE delivered
      /\ parse_ip_packet(p) # "panic" => status' = status
  BY DEF CopyPending
<1>2. PICK a \in Seq(Nat), b \in Seq(Nat) : Handed(a, b)
  BY <1>1 DEF WireInv, ReceiveInv
<1>3. /\ Increasing(a) /\ Increasing(b) /\ Below(a, b) /\ Range(b) \subseteq Whole
      /\ Range(a) \cup (Range(b) \cap Wanted) = Wanted
      /\ delivered = PacketsOf(a) /\ packets = PacketsOf(b)
  BY <1>2 DEF Handed, Enumerates
<1>4. b # <<>>
  BY <1>1, <1>3 DEF PacketsOf
<1>5. Whole \subseteq DOMAIN records /\ Wanted \subseteq Whole
  BY DEF Whole, Wanted
<1>6. Range(a) \subseteq DOMAIN records /\ Range(b) \subseteq DOMAIN records
  BY <1>3, <1>5
<1> DEFINE i == Head(b)
           t == Tail(b)
<1>7. /\ i \in Nat /\ t \in Seq(Nat) /\ Increasing(t)
      /\ Range(b) = {i} \cup Range(t) /\ \A m \in Range(t) : i < m
  BY <1>3, <1>4, TailIs
<1>8. p = records[i].frame.packet /\ packets' = PacketsOf(t)
  BY <1>1, <1>3, <1>4, <1>6, PacketsRest DEF WireInv
<1> HIDE DEF i, t
<1>9. i \in Whole /\ i \in DOMAIN records
  BY <1>3, <1>5, <1>7
<1>10. status' = "queued"
  <2>1. records[i] \in RecordType
    BY <1>9 DEF WireInv, WireTypeOK
  <2>2. records[i].frame \in Frames
    BY <2>1 DEF RecordType
  <2>3. parse_ip_packet(p) = "tcp"
    BY <1>8, <1>9, <2>2, FrameDecodes DEF WireInv, WireTypeOK, Whole
  <2> QED BY <1>1, <2>3
<1>11. records' \in Seq(RecordType') /\ Layout' /\ Whole' = Whole /\ Wanted' = Wanted
       /\ \A s : PacketsOf(s)' = PacketsOf(s)
  BY <1>1, SameBuffer DEF WireInv
<1>12. Filled' /\ ~Cut'
  BY <1>1, Zenon DEF WireInv, ReceiveInv, Filled, Cut, Ends, Last, End
<1>13. WireTypeOK'
  BY <1>1, <1>10, <1>11 DEF WireInv, WireTypeOK
<1>14. \E s \in Seq(Nat) : Handed(s, t)'
  <2>1. Enumerates(t, Range(t)) /\ Range(t) \subseteq Whole
    BY <1>3, <1>7 DEF Enumerates
  <2>2. CASE Fits(p)
    <3>1. \A m \in Range(a) : m < i
      BY <1>3, <1>7 DEF Below
    <3>2. /\ Append(a, i) \in Seq(Nat) /\ Increasing(Append(a, i))
          /\ Range(Append(a, i)) = Range(a) \cup {i}
      BY <1>3, <1>7, <3>1, AppendIs
    <3>3. i \in Wanted
      BY <1>8, <1>9, <2>2 DEF Wanted
    <3>4. Range(Append(a, i)) \cup (Range(t) \cap Wanted) = Wanted
      BY <1>3, <1>7, <3>2, <3>3
    <3>5. Below(Append(a, i), t)
      BY <1>3, <1>7, <3>2 DEF Below
    <3>6. delivered' = PacketsOf(Append(a, i))
      <4>1. delivered' = Append(PacketsOf(a), records[i].frame.packet)
        BY <1>1, <1>3, <1>8, <2>2
      <4>2. WireTypeOK
        BY DEF WireInv
      <4> QED BY <1>6, <1>9, <4>1, <4>2, PacketsGrow, Zenon
    <3>7. Enumerates(Append(a, i), Range(Append(a, i)))
      BY <3>2 DEF Enumerates
    <3>8. Handed(Append(a, i), t)'
      BY <1>8, <1>11, <2>1, <3>4, <3>5, <3>6, <3>7 DEF Handed
    <3> QED BY <3>2, <3>8, Zenon
  <2>3. CASE ~Fits(p)
    <3>1. i \notin Wanted
      BY <1>8, <2>3 DEF Wanted
    <3>2. Range(a) \cup (Range(t) \cap Wanted) = Wanted
      BY <1>3, <1>7, <3>1
    <3>3. Below(a, t)
      BY <1>3, <1>7 DEF Below
    <3>4. delivered' = PacketsOf(a)
      BY <1>1, <1>3, <2>3
    <3>5. Enumerates(a, Range(a))
      BY <1>3 DEF Enumerates
    <3>6. Handed(a, t)'
      BY <1>8, <1>11, <2>1, <3>2, <3>3, <3>4, <3>5 DEF Handed
    <3> QED BY <3>6
  <2> QED BY <2>2, <2>3
<1>15. ReceiveInv'
  BY <1>7, <1>10, <1>12, <1>14 DEF ReceiveInv
<1> QED BY <1>11, <1>13, <1>15 DEF WireInv

-----------------------------------------------------------------------------

LEMMA WireInit == Init => WireInv
<1> SUFFICES ASSUME Init PROVE WireInv
  OBVIOUS
<1>1. records = <<>> /\ DOMAIN records = {}
  BY DEF Init
<1>2. WireTypeOK
  BY <1>1, EmptySeq DEF Init, WireTypeOK
<1>3. Layout
  BY <1>1 DEF Layout
<1>4. ReceiveInv
  BY DEF Init, ReceiveInv
<1> QED BY <1>2, <1>3, <1>4 DEF WireInv

\* Sending, and stuttering, leave the receiving side alone.
LEMMA OthersKeep ==
    ASSUME WireInv, UNCHANGED <<link, family, records, size, offset, packets, status, delivered>>
    PROVE  WireInv'
<1>1. records' \in Seq(RecordType') /\ Layout' /\ Whole' = Whole /\ Wanted' = Wanted
       /\ \A s : PacketsOf(s)' = PacketsOf(s)
  BY SameBuffer DEF WireInv
<1>2. WireTypeOK'
  BY <1>1 DEF WireInv, WireTypeOK
<1>3. (Filled => Filled') /\ (Cut' <=> Cut)
  BY DEF Filled, Cut, Ends, Last, End
<1>4. \A c : DecodedTo(c) => DecodedTo(c)'
  BY <1>1, Zenon DEF DecodedTo
<1>5. \A a, b : Handed(a, b) => Handed(a, b)'
  BY <1>1 DEF Handed
<1>6. ReceiveInv'
  BY <1>3, <1>4, <1>5 DEF WireInv, ReceiveInv
<1> QED BY <1>1, <1>2, <1>6 DEF WireInv

LEMMA WireNext == WireInv /\ [Next]_vars => WireInv'
<1> SUFFICES ASSUME WireInv, [Next]_vars PROVE WireInv'
  OBVIOUS
<1>1. CASE (\E payload \in Payload : Send(payload, "ACK")) \/ Send(0, "SYN")
  BY <1>1, OthersKeep DEF Send
<1>2. CASE \E f \in Frames : Captured(f)
  BY <1>2, CapturedKeeps
<1>3. CASE Read
  BY <1>3, ReadKeeps
<1>4. CASE Iterate
  BY <1>4, IterateKeeps
<1>5. CASE CopyPending
  BY <1>5, CopyPendingKeeps
<1>6. CASE UNCHANGED vars
  BY <1>6, OthersKeep DEF vars
<1> QED BY <1>1, <1>2, <1>3, <1>4, <1>5, <1>6 DEF Next

LEMMA WireHolds == Spec => []WireInv
BY WireInit, WireNext, PTL DEF Spec

\* Every packet that build_tcp_packet makes passes the checks of the raw sender and
\* leaves as it was built, for both families and any payload up to MAX_PACKET_LEN:
\* the two changes of byte order, in macos_raw_ipv4_packet and in the kernel, cancel
\* out for every length and offset of 16 bits.
THEOREM AlwaysSentAsBuilt == Spec => []SentAsBuilt
<1> DEFINE Inv == family \in {4, 6} /\ SentAsBuilt
<1>1. Init => Inv
  BY DEF Init, SentAsBuilt
<1>2. ASSUME Inv, NEW payload \in Nat, payload <= 1500, NEW flags \in {"SYN", "ACK"}, Send(payload, flags)
      PROVE  Inv'
  <2> DEFINE p == build_tcp_packet(family, "client", flags, payload)
  <2>1. sent' = [built |-> {p}, out |-> Sent(p)] /\ family' = family
    BY <1>2 DEF Send
  <2>2. IsBuilt(p, family, "client")
    BY <1>2, BuiltIs
  <2> HIDE DEF p
  <2>3. Sent(p) = {p}
    BY <1>2, <2>2, BuiltIsSent
  <2> QED BY <1>2, <2>1, <2>3 DEF SentAsBuilt
<1>3. \A payload \in Payload : payload \in Nat /\ payload <= 1500
  BY WireAssumption DEF WireAssumption, MAX_PACKET_LEN
<1>4. Inv /\ [Next]_vars => Inv'
  <2> SUFFICES ASSUME Inv, [Next]_vars PROVE Inv'
    OBVIOUS
  <2>1. CASE \E payload \in Payload : Send(payload, "ACK")
    BY <1>2, <1>3, <2>1
  <2>2. CASE Send(0, "SYN")
    BY <1>2, <2>2
  <2>3. CASE UNCHANGED <<family, sent>>
    BY <2>3 DEF SentAsBuilt
  <2> QED BY <2>1, <2>2, <2>3, Zenon DEF Next, Captured, Read, Iterate, Fails, CopyPending, vars
<1> QED BY <1>1, <1>4, PTL DEF Spec

\* decode_records refuses a buffer exactly when read returned less than the last
\* record, whatever frames the buffer holds and however many.
THEOREM OnlyCutBuffersAreRefused == Spec => []OnlyCutBuffersFail
<1>1. WireInv => OnlyCutBuffersFail
  BY DEF WireInv, ReceiveInv, OnlyCutBuffersFail
<1> QED BY <1>1, WireHolds, PTL

\* decode_records is at the start of a record whenever it goes on, and neither it
\* nor the parser of the stack panics.
THEOREM AlwaysOnRecords == Spec => []StaysOnRecords
<1>1. WireInv => StaysOnRecords
  <2> SUFFICES ASSUME WireInv PROVE StaysOnRecords
    OBVIOUS
  <2>1. status # "panic"
    BY DEF WireInv, WireTypeOK
  <2>2. ASSUME status = "decoding" PROVE HeadersAt(offset) # {}
    <3>1. PICK c \in DOMAIN records : DecodedTo(c)
      BY <2>2 DEF WireInv, ReceiveInv
    <3>2. HeadersAt(offset) = {records[c]}
      BY <2>2, <3>1, PositionIs, Zenon
    <3> QED BY <3>2
  <2> QED BY <2>1, <2>2 DEF StaysOnRecords
<1> QED BY <1>1, WireHolds, PTL

\* When the queue is empty, decode_records and copy_pending_packet have handed over
\* exactly the packets of the server that fit, as they were sent and in the order of
\* their capture.
THEOREM AlwaysDeliveredExactly == Spec => []DeliveredExactly
<1>1. WireInv => DeliveredExactly
  <2> SUFFICES ASSUME WireInv, status = "queued", packets = <<>> PROVE delivered = FromTheServer
    BY DEF DeliveredExactly
  <2>1. PICK a \in Seq(Nat), b \in Seq(Nat) : Handed(a, b)
    BY DEF WireInv, ReceiveInv
  <2>2. b = <<>>
    <3>1. DOMAIN b = {}
      BY <2>1 DEF Handed, PacketsOf
    <3> QED BY <3>1
  <2>3. Range(a) = Wanted /\ Increasing(a) /\ delivered = PacketsOf(a)
    BY <2>1, <2>2, EmptyIs, Zenon DEF Handed, Enumerates
  <2> DEFINE all == [i \in DOMAIN records |-> i]
  <2>4. all \in Seq(Nat) /\ Increasing(all) /\ Range(all) = DOMAIN records
    <3>1. records \in Seq(RecordType)
      BY DEF WireInv, WireTypeOK
    <3>2. PICK l \in Nat : DOMAIN records = 1 .. l
      BY <3>1
    <3>3. all = [i \in 1 .. l |-> i]
      BY <3>2
    <3> HIDE DEF all
    <3>4. all \in Seq(Nat)
      BY <3>3
    <3>5. Increasing(all) /\ Range(all) = 1 .. l
      BY <3>3 DEF Increasing, Range
    <3> QED BY <3>2, <3>4, <3>5
  <2> HIDE DEF all
  <2>5. /\ Only(all, Wanted) \in Seq(Nat) /\ Increasing(Only(all, Wanted))
        /\ Range(Only(all, Wanted)) = Wanted
    <3>1. Wanted \subseteq DOMAIN records
      BY DEF Wanted, Whole
    <3>2. DOMAIN records \cap Wanted = Wanted
      BY <3>1
    <3>3. /\ Only(all, Wanted) \in Seq(Nat) /\ Increasing(Only(all, Wanted))
          /\ Range(Only(all, Wanted)) = Range(all) \cap Wanted
      BY <2>4, OnlyIs
    <3> QED BY <2>4, <3>2, <3>3
  <2>6. a = Only(all, Wanted)
    BY <2>3, <2>5, SameElements
  <2>7. FromTheServer = PacketsOf(Only(all, Wanted))
    BY DEF FromTheServer, Wanted, all
  <2> QED BY <2>3, <2>6, <2>7
<1> QED BY <1>1, WireHolds, PTL

=============================================================================
