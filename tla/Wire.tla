------------------------------- MODULE Wire -------------------------------
(***************************************************************************)
(* What happens to a packet between the fake-TCP stack and the network:    *)
(* building and parsing (src/fake-tcp/src/packet.rs), the conversions of   *)
(* the raw sender, and the decoding of BPF records and link frames         *)
(* (src/phantun-client-mac/src/macos_packet.rs).  The two directions share *)
(* nothing, so a behaviour is about one of them: packets of the stack are  *)
(* built and sent, or frames are captured into a buffer, which is decoded  *)
(* record by record and whose packets are taken from the queue.            *)
(*                                                                         *)
(* What is abstracted.  A packet is the header fields the code reads or    *)
(* converts and the number of bytes there are of it; payloads, numbers and *)
(* checksums are left out, and an address is the host it belongs to.       *)
(* Lengths are the real ones, 16-bit fields have their width.              *)
(***************************************************************************)
EXTENDS Naturals, Sequences, Functions, Subsequences

CONSTANTS
    Payload,        \* sizes of the payloads sent and received
    Tags,           \* numbers of VLAN tags of an Ethernet frame
    MAX_RECORDS     \* bound: records of a BPF buffer

IPV4_HEADER_LEN == 20
IPV6_HEADER_LEN == 40
TCP_HEADER_LEN == 20
MAX_PACKET_LEN == 1500
BPF_HEADER_MIN_SIZE == 18

\* The 16 bits of flags and fragment offset of IPv4: DontFragment is bit 14, the
\* offset has 13 bits.
DontFragment == 16384
FragmentOffset(off) == off % 8192

LinkType == {"Raw", "Null", "Ethernet"}
IpHeader(version) == IF version = 4 THEN IPV4_HEADER_LEN ELSE IPV6_HEADER_LEN

ASSUME WireAssumption ==
    /\ \A payload \in Payload : payload \in Nat /\ payload <= MAX_PACKET_LEN
    /\ Tags \subseteq Nat
    /\ MAX_RECORDS \in Nat \ {0}

VARIABLES
    link,       \* LinkType of the interface
    family,     \* 4 or 6: of the remote address and of the local one
    sending,    \* the direction of this behaviour
    sent,       \* the last packet built and what left the machine
    records,    \* the BPF buffer, and where each record starts
    size,       \* bytes of the buffer that read returned
    offset,     \* decode_records: the position in the buffer
    packets,    \* decode_records: its result, then the queue `pending`
    status,     \* of the receiving side
    delivered   \* packets handed to the stack

vars == <<link, family, sending, sent, records, size, offset, packets, status, delivered>>

-----------------------------------------------------------------------------
(* packet.rs *)

\* flags: "SYN", with or without ACK, or another combination, all of them "ACK".
TcpHeader(flags) == TCP_HEADER_LEN + (IF flags = "SYN" THEN 4 ELSE 0)

\* off holds the flags and the fragment offset of IPv4.
\* length is the total length for IPv4, the payload length for IPv6.
build_tcp_packet(version, src, flags, payload) ==
    LET tcp_total_len == TcpHeader(flags) + payload
        total_len == IpHeader(version) + tcp_total_len
    IN  [version |-> version, ihl |-> 5, protocol |-> "tcp", src |-> src, flags |-> flags,
         length |-> IF version = 4 THEN total_len ELSE tcp_total_len,
         off |-> IF version = 4 THEN DontFragment ELSE 0,
         bytes |-> total_len]

\* buf[0], the constructors of the packet views and the slice panic when there are
\* too few bytes.
parse_ip_packet(p) ==
    IF p.bytes = 0 THEN "panic"
    ELSE IF p.version \notin {4, 6} THEN "none"
    ELSE IF p.bytes < IpHeader(p.version) THEN "panic"
    ELSE IF p.protocol # "tcp" THEN "none"
    ELSE IF p.bytes < IpHeader(p.version) + TCP_HEADER_LEN THEN "panic" ELSE "tcp"

-----------------------------------------------------------------------------
(* Sending *)

\* to_ne_bytes of a value that from_be_bytes read, on a little-endian host.
Swap(x) == (x % 256) * 256 + x \div 256

\* A wrong macos_raw_ipv4_packet, for mutation.
LengthOnly(p) ==
    IF p.version # 4 \/ p.bytes < 20 \/ p.length # p.bytes THEN {} ELSE {[p EXCEPT !.length = Swap(@)]}

\* send_ipv4_packet and macos_raw_ipv4_packet: a set with the bytes for sendto, or
\* without when the packet is refused.
macos_raw_ipv4_packet(p) ==
    IF p.version # 4 \/ p.bytes < 20 \/ 4 * p.ihl \notin 20 .. p.bytes \/ p.length # p.bytes
    THEN {} ELSE {[p EXCEPT !.length = Swap(@), !.off = Swap(@)]}

\* The number of bytes after the IPv6 header, in the same form.
ipv6_tcp_payload(p) ==
    IF p.version # 6 \/ p.bytes < 60 \/ p.protocol # "tcp" \/ p.length < 20 \/ p.length + 40 # p.bytes
    THEN {} ELSE {p.bytes - 40}

\* What the kernel makes of it: with IP_HDRINCL the IPv4 header is taken over, with
\* length and offset read in host order; the IPv6 header is the kernel's own.
Ipv4Output(p) == [p EXCEPT !.length = Swap(@), !.off = Swap(@)]

Ipv6Output(p, n) ==
    [p EXCEPT !.version = 6, !.protocol = "tcp", !.src = "client", !.length = n, !.bytes = n + 40]

Sent(p) ==
    IF family = 4 THEN {Ipv4Output(q) : q \in macos_raw_ipv4_packet(p)}
    ELSE {Ipv6Output(p, n) : n \in ipv6_tcp_payload(p)}

Send(payload, flags) ==
    /\ sending
    /\ LET p == build_tcp_packet(family, "client", flags, payload)
       IN  sent' = [built |-> {p}, out |-> Sent(p)]
    /\ UNCHANGED <<link, family, sending, records, size, offset, packets, status, delivered>>

-----------------------------------------------------------------------------
(* Capturing: the network, the driver and the kernel *)

FromServer(flags, payload) == build_tcp_packet(family, "server", flags, payload)

\* A wrong bpf_word_align, for mutation.
bpf_word_unaligned(value) == value

bpf_word_align(value) == 4 * ((value + 3) \div 4)

\* Packets that are not the server's, not the beginning of one, or not what they say.
Odd ==
    LET p == FromServer("ACK", 1) IN
    {[p EXCEPT !.src = "other"], [p EXCEPT !.protocol = "udp"], [p EXCEPT !.version = 5],
     [p EXCEPT !.length = 1000], [p EXCEPT !.length = 19]}
    \cup (IF family = 4 THEN {[p EXCEPT !.ihl = 6], [p EXCEPT !.off = 1], [p EXCEPT !.length = 39]} ELSE {})

Header(tags) == CASE link = "Raw" -> 0 [] link = "Null" -> 4 [] link = "Ethernet" -> 14 + 4 * tags

\* A frame has at least the length that Ethernet demands.
Frame(p, tags, network) ==
    LET n == Header(tags) + p.bytes IN
    [tags |-> tags, network |-> network, packet |-> p,
     bytes |-> IF link = "Ethernet" /\ n < 60 THEN 60 ELSE n]

\* Frames of the server, odd ones, ones without IP, and ones cut off after the
\* header and n bytes, or inside the header.
Frames ==
    LET tagging == IF link = "Ethernet" THEN Tags ELSE {0}
        server == {FromServer("SYN", 0)} \cup {FromServer("ACK", n) : n \in Payload}
        some == FromServer("ACK", 1)
    IN  {Frame(p, t, "ip") : p \in server \cup Odd, t \in tagging}
        \cup {[Frame(some, t, "ip") EXCEPT !.bytes = Header(t) + n] : t \in tagging, n \in {0, 19, 39}}
        \cup (IF link = "Raw" THEN {} ELSE
              {Frame(some, 0, "other")} \cup {[Frame(some, t, "ip") EXCEPT !.bytes = Header(t) - 1] : t \in tagging})

\* bh_hdrlen: the kernel aligns the network header.
HeaderLen == IF link = "Ethernet" THEN 18 ELSE 20

End(r) == r.start + r.header_len + r.frame.bytes

Last == records[Len(records)]

\* Records begin at multiples of the word.
Captured(f) ==
    /\ ~sending
    /\ status = "filling"
    /\ Len(records) < MAX_RECORDS
    /\ LET start == IF records = <<>> THEN 0 ELSE 4 * ((End(Last) + 3) \div 4)
       IN  records' = Append(records, [start |-> start, header_len |-> HeaderLen, frame |-> f])
    /\ UNCHANGED <<link, family, sending, sent, size, offset, packets, status, delivered>>

\* read returns the buffer, the last record with or without its padding, or, when
\* the device is at fault, cut off inside it.
Read ==
    /\ status = "filling"
    /\ records # <<>>
    /\ LET end == End(Last) IN
       size' \in {4 * ((end + 3) \div 4), end} \cup {n \in {end - 1, Last.start + 17} : n < end}
    /\ status' = "decoding"
    /\ UNCHANGED <<link, family, sending, sent, records, offset, packets, delivered>>

-----------------------------------------------------------------------------
(* Decoding.  A function that returns an Option returns a set of at most one. *)

Normalized(p, least, total_len) ==
    IF total_len < least \/ total_len > p.bytes THEN {} ELSE {[p EXCEPT !.bytes = total_len]}

\* A wrong normalize_ip_packet, for mutation.
normalize_untrimmed(p) == IF p.version \in {4, 6} /\ p.bytes >= 40 THEN {p} ELSE {}

normalize_ip_packet(p) ==
    CASE p.bytes >= 40 /\ p.version = 4 /\ p.protocol = "tcp" /\ p.ihl = 5 /\ FragmentOffset(p.off) = 0 ->
           Normalized(p, 40, p.length)
      [] p.bytes >= 60 /\ p.version = 6 /\ p.protocol = "tcp" -> Normalized(p, 60, 40 + p.length)
      [] OTHER -> {}

\* The packet starts behind the header and the tags and has all bytes that follow.
packet_from_link_frame(frame) ==
    IF link # "Raw" /\ (frame.bytes < Header(frame.tags) \/ frame.network # "ip") THEN {}
    ELSE normalize_ip_packet([frame.packet EXCEPT !.bytes = frame.bytes - Header(frame.tags)])

HeadersAt(o) == {r \in Range(records) : r.start = o}

Fails(s) ==
    /\ status' = s
    /\ UNCHANGED <<link, family, sending, sent, records, size, offset, packets, delivered>>

\* A wrong Ends, for mutation.
EndsAligned(end) == size = bpf_word_align(end)

\* A record whose padding is missing can only be the last one.
Ends(end) == size \in {end, bpf_word_align(end)}

\* An iteration of decode_records, with the test of its loop.
Iterate ==
    /\ status = "decoding"
    /\ \E r \in HeadersAt(offset) :
         LET packet_start == offset + r.header_len
             packet_end == packet_start + r.frame.bytes
             invalid == \/ size - offset < BPF_HEADER_MIN_SIZE
                        \/ r.header_len < BPF_HEADER_MIN_SIZE
                        \/ packet_end > size
             found == packet_from_link_frame(r.frame)
             accepted == {p \in found : parse_ip_packet(p) = "tcp" /\ p.src = "server"}
         IN  \/ invalid /\ Fails("error")
             \/ ~invalid /\ (\E p \in found : parse_ip_packet(p) = "panic") /\ Fails("panic")
             \/ /\ ~invalid
                /\ \A p \in found : parse_ip_packet(p) # "panic"
                /\ \/ \E p \in accepted : packets' = Append(packets, p)
                   \/ accepted = {} /\ packets' = packets
                /\ offset' = bpf_word_align(packet_end)
                /\ status' = CASE Ends(packet_end) -> "queued"
                               [] ~Ends(packet_end) /\ offset' > size -> "error"
                               [] OTHER -> "decoding"
                /\ UNCHANGED <<link, family, sending, sent, records, size, delivered>>

Fits(p) == p.bytes <= MAX_PACKET_LEN

\* An iteration of copy_pending_packet; the reader of the stack parses what it gets.
CopyPending ==
    /\ status = "queued"
    /\ packets # <<>>
    /\ packets' = Tail(packets)
    /\ delivered' = IF Fits(Head(packets)) THEN Append(delivered, Head(packets)) ELSE delivered
    /\ status' = IF Fits(Head(packets)) /\ parse_ip_packet(Head(packets)) = "panic" THEN "panic" ELSE status
    /\ UNCHANGED <<link, family, sending, sent, records, size, offset>>

-----------------------------------------------------------------------------

Init ==
    /\ link \in LinkType
    /\ family \in {4, 6}
    /\ sending \in BOOLEAN
    /\ sent = [built |-> {}, out |-> {}]
    /\ records = <<>>
    /\ size = 0
    /\ offset = 0
    /\ packets = <<>>
    /\ status = "filling"
    /\ delivered = <<>>

Next ==
    \/ \E payload \in Payload : Send(payload, "ACK")
    \/ Send(0, "SYN")
    \/ \E f \in Frames : Captured(f)
    \/ Read \/ Iterate \/ CopyPending

Spec == Init /\ [][Next]_vars

-----------------------------------------------------------------------------

Cut == size > 0 /\ size < End(Last)

\* The frame holds all of a packet of the server.
IsWhole(f) == f.network = "ip" /\ f.packet \notin Odd /\ f.bytes >= Header(f.tags) + f.packet.bytes

Whole == {i \in DOMAIN records : IsWhole(records[i].frame)}

\* The packets in the records with these numbers.
PacketsOf(numbers) == [k \in DOMAIN numbers |-> records[numbers[k]].frame.packet]

\* What the server sent, without tags and padding, in the order of capture.
FromTheServer ==
    PacketsOf(Only([i \in DOMAIN records |-> i], {i \in Whole : Fits(records[i].frame.packet)}))

\* decode_records and copy_pending_packet hand the stack the packets of the server
\* that fit its buffer, each with exactly the bytes that were sent: Ethernet padding
\* and VLAN tags are gone, a record of odd length does not shift the ones behind it,
\* and nothing else gets through.
DeliveredExactly == status = "queued" /\ packets = <<>> => delivered = FromTheServer

\* A buffer that holds whole records, with or without padding at its end, is never
\* refused: the error that would end the reader needs a fault of the device, and
\* such a fault is always noticed.
OnlyCutBuffersFail == /\ status = "error" => Cut
                      /\ status = "queued" => ~Cut

\* The decoder reads only what is there: after every record it is at the start of
\* the next one, never in padding or in the bytes of a frame, and whatever is
\* captured, no slice and no unwrap of the decoding and of the stack's parser panics.
StaysOnRecords == /\ status = "decoding" => HeadersAt(offset) # {}
                  /\ status # "panic"

\* Every packet that the stack builds passes the checks of the raw sender and goes
\* out as it was built, with length and flags in network order.
SentAsBuilt == sent.out = sent.built

=============================================================================
