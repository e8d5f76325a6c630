----------------------------- MODULE Handshake -----------------------------
(***************************************************************************)
(* One fake-TCP connection end to end (src/fake-tcp/src/lib.rs): the       *)
(* active open of Socket::connect, the passive open of reader_task and     *)
(* Socket::accept, Socket::send and Socket::recv on an established socket, *)
(* Socket::drop, and the RST with which a reader answers packets of no     *)
(* connection.  Both ends run this crate.                                  *)
(*                                                                         *)
(* The network loses, delays, reorders and duplicates: net is the set of   *)
(* all packets ever sent, and each may be taken any number of times or     *)
(* never.  A socket's channel of received packets is a part of it.  The    *)
(* client opens its tuple once; the server may open it again for a late    *)
(* SYN.  Numbers are taken modulo MODULUS, 2^32 in the code.  No handler   *)
(* looks at the numbers of an RST, with or without ACK: there is one RST   *)
(* for each end.                                                           *)
(***************************************************************************)
EXTENDS Integers

CONSTANTS
    RETRIES,           \* iterations of the loops of connect and accept
    MODULUS,           \* sequence numbers are u32
    MAX_UNACKED_LEN,   \* bytes received without an answer that call for an ACK
    MAX_SEQ,           \* bound: an end sends data while its number is lower
    DeviceMayFail,     \* the packet device may refuse a packet
    Leftover           \* packets of an earlier connection with the same tuple

End == {"client", "server"}
Flags == {"SYN", "SYN+ACK", "ACK", "RST"}
Number == 0 .. MODULUS - 1
Packet == [from : End, flags : Flags, seq : Number, ack : Number, len : 0 .. 1]

ASSUME HandshakeAssumption ==
    /\ {RETRIES, MODULUS, MAX_UNACKED_LEN, MAX_SEQ} \subseteq Nat \ {0}
    /\ MAX_SEQ < MODULUS
    /\ DeviceMayFail \in BOOLEAN
    /\ Leftover \subseteq Packet

VARIABLES
    net,       \* the packets sent so far
    state,     \* Socket::state of each end, or closed when it has no socket
    left,      \* iterations that connect or accept has left
    seq,       \* Socket::seq
    ack,       \* Socket::ack
    last_ack,  \* Socket::last_ack
    hellos     \* SYNs or SYN+ACKs sent by the socket (counted up to RETRIES)

vars == <<net, state, left, seq, ack, last_ack, hellos>>

\* The client has called Socket::connect.
Init ==
    /\ net = Leftover
    /\ state = [e \in End |-> IF e = "client" THEN "Idle" ELSE "closed"]
    /\ left = [e \in End |-> IF e = "client" THEN RETRIES ELSE 0]
    /\ seq = [e \in End |-> 0]
    /\ ack = [e \in End |-> 0]
    /\ last_ack = [e \in End |-> 0]
    /\ hellos = [e \in End |-> 0]

-----------------------------------------------------------------------------

Waiting(e) == IF e = "client" THEN "SynSent" ELSE "SynReceived"
Hello(e) == IF e = "client" THEN "SYN" ELSE "SYN+ACK"
Inbound(e) == {p \in net : p.from # e}

Segment(e, flags, s, a, n) ==
    [from |-> e, flags |-> flags, seq |-> s, ack |-> a, len |-> n]

Rst(e) == Segment(e, "RST", 0, 0, 0)

\* What becomes of the network when p is sent and a failure is not acted upon.
Sent(p) == {net \cup {p}} \cup (IF DeviceMayFail THEN {net} ELSE {})

\* A wrong Dropped, for mutation.
DroppedSilently(e) == {net}

\* Socket::drop sends an RST.
Dropped(e) == Sent(Rst(e))

Close(e) == state' = [state EXCEPT ![e] = "closed"] /\ net' \in Dropped(e)

\* A wrong Spent, for mutation.
SpentNothing(e) == left

\* One iteration of the loop is used up, whatever it did.
Spent(e) == [left EXCEPT ![e] = @ - 1]

\* State::Idle: SYN or SYN+ACK; when the device fails the socket is given up.
SendHello(e) ==
    /\ state[e] = "Idle" /\ left[e] > 0
    /\ left' = Spent(e)
    /\ last_ack' = [last_ack EXCEPT ![e] = ack[e]]
    /\ \/ /\ net' = net \cup {Segment(e, Hello(e), seq[e], ack[e], 0)}
          /\ state' = [state EXCEPT ![e] = Waiting(e)]
          /\ hellos' = [hellos EXCEPT ![e] = IF @ < RETRIES THEN @ + 1 ELSE @]
       \/ DeviceMayFail /\ Close(e) /\ UNCHANGED hellos
    /\ UNCHANGED <<seq, ack>>

\* No packet came within TIMEOUT.
Timeout(e) ==
    /\ state[e] = Waiting(e) /\ left[e] > 0
    /\ state' = [state EXCEPT ![e] = "Idle"]
    /\ left' = Spent(e)
    /\ UNCHANGED <<net, seq, ack, last_ack, hellos>>

\* A wrong Expected, for mutation.
ExpectedAny(e, p) == p.flags # "RST"

Expected(e, p) ==
    /\ p.flags = IF e = "client" THEN "SYN+ACK" ELSE "ACK"
    /\ p.ack = (seq[e] + 1) % MODULUS

\* The client answers the SYN+ACK and is established, unless the device fails.
ClientAnswers(p) ==
    LET a == (p.seq + 1) % MODULUS
        s == (seq["client"] + 1) % MODULUS
    IN  /\ seq' = [seq EXCEPT !["client"] = s]
        /\ ack' = [ack EXCEPT !["client"] = a]
        /\ last_ack' = [last_ack EXCEPT !["client"] = a]
        /\ \/ /\ net' = net \cup {Segment("client", "ACK", s, a, 0)}
              /\ state' = [state EXCEPT !["client"] = "Established"]
           \/ DeviceMayFail /\ Close("client")

\* The server is established; a payload of the packet is not looked at.
ServerAccepts ==
    /\ seq' = [seq EXCEPT !["server"] = (@ + 1) % MODULUS]
    /\ state' = [state EXCEPT !["server"] = "Established"]
    /\ UNCHANGED <<net, ack, last_ack>>

\* A packet comes in time: an RST ends the attempt, the expected packet
\* completes it, any other one only uses up the iteration.
Answer(e, p) ==
    /\ state[e] = Waiting(e) /\ left[e] > 0
    /\ p \in Inbound(e)
    /\ left' = Spent(e)
    /\ \/ p.flags = "RST" /\ Close(e) /\ UNCHANGED <<seq, ack, last_ack>>
       \/ Expected(e, p) /\ e = "client" /\ ClientAnswers(p)
       \/ Expected(e, p) /\ e = "server" /\ ServerAccepts
       \/ p.flags # "RST" /\ ~Expected(e, p) /\ UNCHANGED <<net, state, seq, ack, last_ack>>
    /\ UNCHANGED hellos

\* The iterations are used up.
GiveUp(e) ==
    /\ state[e] \in {"Idle", Waiting(e)} /\ left[e] = 0
    /\ Close(e)
    /\ UNCHANGED <<left, seq, ack, last_ack, hellos>>

\* Socket::send of a datagram of one byte; seq advances even if the device fails.
Send(e) ==
    /\ state[e] = "Established" /\ seq[e] < MAX_SEQ
    /\ net' \in Sent(Segment(e, "ACK", seq[e], ack[e], 1))
    /\ seq' = [seq EXCEPT ![e] = (@ + 1) % MODULUS]
    /\ last_ack' = [last_ack EXCEPT ![e] = ack[e]]
    /\ UNCHANGED <<state, left, ack, hellos>>

TooFar(e, n) == (n - last_ack[e]) % MODULUS > MAX_UNACKED_LEN

\* Socket::recv: ack follows whatever packet comes; an ACK is sent back when the
\* distance to the last number acknowledged, which wraps around, is too great.
Recv(e, p) ==
    LET new_ack == (p.seq + p.len) % MODULUS
    IN  /\ state[e] = "Established"
        /\ p \in Inbound(e) /\ p.flags # "RST"
        /\ ack' = [ack EXCEPT ![e] = new_ack]
        /\ IF TooFar(e, new_ack)
           THEN /\ last_ack' = [last_ack EXCEPT ![e] = new_ack]
                /\ net' \in Sent(Segment(e, "ACK", seq[e], new_ack, 0))
           ELSE UNCHANGED <<net, last_ack>>
        /\ UNCHANGED <<state, left, seq, hellos>>

\* Socket::recv returns None for an RST, and the application drops the socket.
RecvRst(e) ==
    /\ state[e] = "Established"
    /\ \E p \in Inbound(e) : p.flags = "RST"
    /\ Close(e)
    /\ UNCHANGED <<left, seq, ack, last_ack, hellos>>

\* The application drops the socket for a reason of its own.
Drop(e) ==
    /\ state[e] = "Established"
    /\ Close(e)
    /\ UNCHANGED <<left, seq, ack, last_ack, hellos>>

\* reader_task: a SYN opens a socket on the listening server.  Every SYN of this
\* crate has the number 0 that the reader asks for.
PassiveOpen(p) ==
    /\ state["server"] = "closed"
    /\ p \in Inbound("server") /\ p.flags = "SYN" /\ p.seq = 0
    /\ state' = [state EXCEPT !["server"] = "Idle"]
    /\ left' = [left EXCEPT !["server"] = RETRIES]
    /\ seq' = [seq EXCEPT !["server"] = 0]
    /\ ack' = [ack EXCEPT !["server"] = 1]
    /\ last_ack' = [last_ack EXCEPT !["server"] = 1]
    /\ hellos' = [hellos EXCEPT !["server"] = 0]
    /\ UNCHANGED net

\* reader_task: any other packet of no connection is answered by an RST, unless
\* it is one itself.
Refuse(e, p) ==
    /\ state[e] = "closed"
    /\ p \in Inbound(e) /\ p.flags # "RST"
    /\ ~(e = "server" /\ p.flags = "SYN")
    /\ net' = net \cup {Rst(e)}
    /\ UNCHANGED <<state, left, seq, ack, last_ack, hellos>>

-----------------------------------------------------------------------------

Loop(e) ==
    \/ SendHello(e) \/ Timeout(e) \/ GiveUp(e)
    \/ \E p \in Inbound(e) : Answer(e, p)

Next ==
    \/ \E p \in Inbound("server") : PassiveOpen(p)
    \/ \E e \in End :
          \/ Loop(e) \/ Send(e) \/ RecvRst(e) \/ Drop(e)
          \/ \E p \in Inbound(e) : Recv(e, p) \/ Refuse(e, p)

Spec == Init /\ [][Next]_vars

\* The loops of connect and accept run, each wait ending with a packet or with
\* the timeout, and of the RSTs an end sends not every one is lost.
FairSpec == Spec /\ \A e \in End : WF_vars(Loop(e)) /\ WF_vars(RecvRst(e))

-----------------------------------------------------------------------------

\* Whatever the network does, accept completes only when connect has: when the
\* server end is established, the client end has received a SYN+ACK and has
\* counted its own SYN.
Agreement == state["server"] = "Established" => seq["client"] >= 1

\* Each loop of RETRIES iterations sends its SYN or SYN+ACK at most every other
\* iteration, also when unexpected packets use up iterations.
HelloBudget == \A e \in End : 2 * hellos[e] <= RETRIES + 1

\* Every call of Socket::connect and of Socket::accept comes to an end.
LoopEnds ==
    \A e \in End : state[e] \in {"Idle", Waiting(e)} ~> state[e] \in {"Established", "closed"}

\* A connection does not stay half open: an end that is established while the
\* other one is not (the final ACK was lost, accept gave up, the other end was
\* dropped) sees the other end become established or is closed itself.
HalfOpenHeals ==
    /\ state["client"] = "Established" ~> state["server"] = "Established" \/ state["client"] = "closed"
    /\ state["server"] = "Established" ~> state["client"] = "Established" \/ state["server"] = "closed"

=============================================================================
