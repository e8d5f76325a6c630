----------------------------- MODULE Segments -----------------------------
(***************************************************************************)
(* Sequence and acknowledgement numbers of an established socket           *)
(* (src/fake-tcp/src/lib.rs, Socket::send, recv and build_tcp_packet) and  *)
(* the raw sender behind it (RawPacketSender and wait_writable in          *)
(* src/phantun-client-mac/src/macos_packet.rs).  One task sends datagrams, *)
(* several workers receive; they share the atomics seq, ack and last_ack   *)
(* without a lock, so every load and every store is a step of its own.     *)
(*                                                                         *)
(* What is abstracted.  A datagram has one unit of payload, and segments   *)
(* of the server arrive in order.  Numbers are counted on, and wrap only   *)
(* where the code subtracts them.  The kernel's send buffer holds some     *)
(* packets; a write to a full one would block.                             *)
(***************************************************************************)
EXTENDS Integers, Sequences, FiniteSets

CONSTANTS
    Sender,             \* the task that calls Socket::send
    Worker,             \* the tasks that call Socket::recv
    MODULUS,            \* numbers are taken modulo this, 2^32 in the code
    MAX_UNACKED_LEN,
    SEND_BUFFER,        \* packets the kernel's send buffer holds
    MAX_SEGMENTS,       \* bound: segments of the server
    MAX_DATAGRAMS       \* bound: datagrams sent

ASSUME SegmentsAssumption ==
    /\ Sender \notin Worker
    /\ IsFiniteSet(Worker)
    /\ {MODULUS, MAX_UNACKED_LEN, SEND_BUFFER, MAX_SEGMENTS, MAX_DATAGRAMS} \subseteq Nat \ {0}
    /\ MAX_SEGMENTS < MODULUS - MAX_UNACKED_LEN

Task == Worker \cup {Sender}

VARIABLES
    seq, ack, last_ack,  \* the atomics of Socket
    at,         \* the next step of each task
    reg,        \* the number each task has in hand
    seen,       \* the last_ack each worker has read
    used,       \* packets in the kernel's send buffer
    writable,   \* the readiness that AsyncFd remembers
    wire,       \* numbers of the data packets written, in order
    taken,      \* the end of the newest segment a worker has taken
    noted       \* the newest acknowledgement put into a packet

numbers == <<seq, ack, last_ack>>
device == <<used, writable, wire>>
vars == <<numbers, at, reg, seen, device, taken, noted>>

Greater(m, n) == IF m > n THEN m ELSE n

\* The numbers after the handshake are counted from 0.
Init ==
    /\ seq = 0 /\ ack = 0 /\ last_ack = 0
    /\ at = [t \in Task |-> "idle"]
    /\ reg = [t \in Task |-> 0]
    /\ seen = [w \in Worker |-> 0]
    /\ used = 0
    /\ writable = TRUE
    /\ wire = <<>>
    /\ taken = 0 /\ noted = 0

Goto(t, where, number) ==
    /\ at' = [at EXCEPT ![t] = where]
    /\ reg' = [reg EXCEPT ![t] = number]

-----------------------------------------------------------------------------
(* The kernel *)

\* The kernel sends a packet and reports that there is room.
Drain ==
    /\ used > 0
    /\ used' = used - 1
    /\ writable' = TRUE
    /\ UNCHANGED <<numbers, at, reg, seen, wire, taken, noted>>

-----------------------------------------------------------------------------
(* Socket::build_tcp_packet *)

LoadAck(t) ==
    /\ at[t] = "build"
    /\ Goto(t, "note", ack)
    /\ UNCHANGED <<numbers, seen, device, taken, noted>>

\* The number of an idle ACK is of no consequence: a worker goes on to try_send.
StoreLastAck(t) ==
    /\ at[t] = "note"
    /\ last_ack' = reg[t]
    /\ noted' = Greater(noted, reg[t])
    /\ Goto(t, IF t = Sender THEN "number" ELSE "try", 0)
    /\ UNCHANGED <<seq, ack, seen, device, taken>>

LoadSeq ==
    /\ at[Sender] = "number"
    /\ Goto(Sender, "advance", seq)
    /\ UNCHANGED <<numbers, seen, device, taken, noted>>

-----------------------------------------------------------------------------
(* Socket::send and wait_writable *)

Send ==
    /\ at[Sender] = "idle"
    /\ seq < MAX_DATAGRAMS
    /\ Goto(Sender, "build", 0)
    /\ UNCHANGED <<numbers, seen, device, taken, noted>>

\* A wrong Advanced, for mutation.
AdvancedNot == seq

Advanced == seq + 1

FetchAdd ==
    /\ at[Sender] = "advance"
    /\ seq' = Advanced
    /\ Goto(Sender, "write", reg[Sender])
    /\ UNCHANGED <<ack, last_ack, seen, device, taken, noted>>

Room == used < SEND_BUFFER

Write ==
    /\ at[Sender] = "write"
    /\ writable
    /\ Room
    /\ used' = used + 1
    /\ wire' = Append(wire, reg[Sender])
    /\ Goto(Sender, "idle", 0)
    /\ UNCHANGED <<numbers, seen, writable, taken, noted>>

\* A wrong Blocked, for mutation.
BlockedAlways == at[Sender] = "write" /\ writable

Blocked == at[Sender] = "write" /\ writable /\ ~Room

\* try_io forgets the readiness and the loop awaits the next one.
WouldBlock ==
    /\ Blocked
    /\ writable' = FALSE
    /\ UNCHANGED <<numbers, at, reg, seen, used, wire, taken, noted>>

\* Any other error of sendto ends the send; its number is not used again.
WriteFails ==
    /\ at[Sender] = "write"
    /\ writable
    /\ Goto(Sender, "idle", 0)
    /\ UNCHANGED <<numbers, seen, device, taken, noted>>

-----------------------------------------------------------------------------
(* Socket::recv *)

\* The channel yields the next segment of the server.
Take(w) ==
    /\ at[w] = "idle"
    /\ taken < MAX_SEGMENTS
    /\ taken' = taken + 1
    /\ Goto(w, "peek", taken + 1)
    /\ UNCHANGED <<numbers, seen, device, noted>>

LoadLastAck(w) ==
    /\ at[w] = "peek"
    /\ seen' = [seen EXCEPT ![w] = last_ack]
    /\ Goto(w, "store", reg[w])
    /\ UNCHANGED <<numbers, device, taken, noted>>

\* A wrong TooFar, for mutation.
TooFarFromAck(w) == (reg[w] - ack) % MODULUS > MAX_UNACKED_LEN

\* overflowing_sub: a segment before the last acknowledged one is too far, too.
TooFar(w) == (reg[w] - seen[w]) % MODULUS > MAX_UNACKED_LEN

StoreAck(w) ==
    /\ at[w] = "store"
    /\ ack' = reg[w]
    /\ IF TooFar(w) THEN Goto(w, "build", 0) ELSE Goto(w, "idle", 0)
    /\ seen' = [seen EXCEPT ![w] = 0]
    /\ UNCHANGED <<seq, last_ack, device, taken, noted>>

\* try_send of the idle ACK: without room, or on an error, it is given up.
TrySend(w) ==
    /\ at[w] = "try"
    /\ used' \in {used} \cup {n \in {used + 1} : Room}
    /\ Goto(w, "idle", 0)
    /\ UNCHANGED <<numbers, seen, writable, wire, taken, noted>>

-----------------------------------------------------------------------------

SenderStep == LoadAck(Sender) \/ StoreLastAck(Sender) \/ LoadSeq \/ FetchAdd \/ Write \/ WouldBlock

WorkerStep(w) ==
    LoadLastAck(w) \/ StoreAck(w) \/ LoadAck(w) \/ StoreLastAck(w) \/ TrySend(w)

Next ==
    \/ Drain
    \/ Send \/ SenderStep \/ WriteFails
    \/ \E w \in Worker : Take(w) \/ WorkerStep(w)

Spec == Init /\ [][Next]_vars

\* A task that can go on does; the kernel sends what is in its buffer; and idle ACKs,
\* which are rare, do not win the room in it from the sender every time.
FairSpec ==
    /\ Spec
    /\ WF_vars(SenderStep) /\ WF_vars(Drain) /\ SF_vars(Write)
    /\ \A w \in Worker : WF_vars(WorkerStep(w))

-----------------------------------------------------------------------------

\* Acknowledgements keep up: what the k workers have taken is never further ahead of
\* the newest number put into a packet than MAX_UNACKED_LEN and 1 + 2 + ... + k
\* segments, although a worker may be delayed between any two of its steps, store an
\* older number over a newer one, or read a last_ack that is out of date.
UnackedBounded ==
    LET k == Cardinality(Worker)
    IN  2 * (taken - noted - MAX_UNACKED_LEN) <= k * (k + 1)

\* The data packets on the wire have increasing numbers, so no two datagrams share
\* one, whatever ACKs, full buffers and failed writes come between them.
DataInOrder == \A i, j \in DOMAIN wire : i < j => wire[i] < wire[j]

\* wait_writable misses no readiness: a send always returns, although the idle ACKs
\* of the workers fill the buffer behind its back.
SendReturns == at[Sender] # "idle" ~> at[Sender] = "idle"

=============================================================================
