------------------------------ MODULE Capture ------------------------------
(***************************************************************************)
(* The receiving side of the macOS packet device (BpfCapture in            *)
(* src/phantun-client-mac/src/macos_packet.rs) under the select! of        *)
(* reader_task (src/fake-tcp/src/lib.rs).  read_packet hands out packets   *)
(* of the queue `pending` and, when it is empty, awaits a read on the      *)
(* blocking pool.  The select! drops read_packet when a purge comes first: *)
(* the blocking read goes on as an orphan and its result is thrown away,   *)
(* while the next call of read_packet starts another read on the same      *)
(* descriptor.                                                             *)
(*                                                                         *)
(* What is abstracted.  A record is its number in the order of capture,    *)
(* and has a kind, what decode_records and copy_pending_packet make of it: *)
(*   good    a TCP packet of the server that fits the buffer of the stack  *)
(*   big     such a packet that does not fit                               *)
(*   other   a frame with no such packet in it                             *)
(*   broken  a record with impossible boundaries                           *)
(* Records that find the kernel's buffer full are never captured.          *)
(***************************************************************************)
EXTENDS Naturals, Sequences, FiniteSetsExt, Functions, Subsequences

CONSTANTS
    Read,           \* threads of the blocking pool
    NoRead,
    BUFFER_LEN,     \* records the kernel's buffer holds
    MAX_CAPTURED    \* bound: records captured in a behaviour

ASSUME CaptureAssumption ==
    /\ NoRead \notin Read
    /\ {BUFFER_LEN, MAX_CAPTURED} \subseteq Nat \ {0}

Kind == {"good", "big", "other", "broken"}

VARIABLES
    captured,   \* the kinds of the records captured so far
    kernel,     \* records in the kernel's buffer
    stage,      \* where each read_bpf_records is, with its result at the end
    got,        \* the records a finished read returns
    awaited,    \* the read that read_packet awaits
    pending,    \* BpfCapture::pending
    pc,         \* the reader: entering the select!, awaiting, or handling a result
    delivered,  \* the packets read_packet has returned
    cancelled   \* a read was orphaned

bpfVars == <<captured, kernel>>
readVars == <<stage, got, awaited>>
vars == <<bpfVars, readVars, pending, pc, delivered, cancelled>>

Record == DOMAIN captured
Keep == {n \in Record : captured[n] \in {"good", "big"}}
Fit == {n \in Record : captured[n] = "good"}

Finished == {"none", "records", "failed"}

Init ==
    /\ captured = <<>>
    /\ kernel = <<>>
    /\ stage = [r \in Read |-> "off"]
    /\ got = [r \in Read |-> <<>>]
    /\ awaited = NoRead
    /\ pending = <<>>
    /\ pc = "select"
    /\ delivered = <<>>
    /\ cancelled = FALSE

\* The kernel captures a record.
Captured(k) ==
    /\ Len(captured) < MAX_CAPTURED
    /\ Len(kernel) < BUFFER_LEN
    /\ captured' = Append(captured, k)
    /\ kernel' = Append(kernel, Len(captured) + 1)
    /\ UNCHANGED <<readVars, pending, pc, delivered, cancelled>>

-----------------------------------------------------------------------------
(* read_bpf_records, on a thread of the blocking pool *)

\* A wrong Readable, for mutation.
ReadableFull == Len(kernel) >= BUFFER_LEN

\* BIOCIMMEDIATE: poll reports a record as soon as there is one.
Readable == kernel # <<>>

\* The read ends; the result of an orphan is dropped.
Finish(r, result, records) ==
    /\ stage' = [stage EXCEPT ![r] = IF r = awaited THEN result ELSE "off"]
    /\ got' = [got EXCEPT ![r] = IF r = awaited THEN records ELSE <<>>]
    /\ UNCHANGED <<captured, awaited, pending, pc, delivered, cancelled>>

PollReady(r) ==
    /\ stage[r] = "polling"
    /\ Readable
    /\ stage' = [stage EXCEPT ![r] = "readable"]
    /\ UNCHANGED <<bpfVars, got, awaited, pending, pc, delivered, cancelled>>

PollTimeout(r) == stage[r] = "polling" /\ ~Readable /\ Finish(r, "none", <<>>) /\ UNCHANGED kernel

\* read returns all the records there are.
ReadRecords(r) ==
    /\ stage[r] = "readable"
    /\ kernel # <<>>
    /\ kernel' = <<>>
    /\ Finish(r, "records", kernel)

\* Another read was faster: WouldBlock.
ReadNothing(r) ==
    stage[r] = "readable" /\ kernel = <<>> /\ Finish(r, "none", <<>>) /\ UNCHANGED kernel

\* poll or read fails, or the device is closed.
ReadFails(r) ==
    stage[r] \in {"polling", "readable"} /\ Finish(r, "failed", <<>>) /\ UNCHANGED kernel

-----------------------------------------------------------------------------
(* read_packet and the select! of reader_task *)

\* decode_records, when no record is broken.
Decode(records) == Only(records, Keep)

Broken(records) == \E i \in DOMAIN records : captured[records[i]] = "broken"

Fitting(queue) == {i \in DOMAIN queue : queue[i] \in Fit}

\* A wrong Copied, for mutation.
CopiedBack(queue) ==
    LET i == Max(Fitting(queue)) IN [packet |-> queue[i], rest |-> SubSeq(queue, 1, i - 1)]

\* A wrong Copied, for mutation.
CopiedOnly(queue) == [packet |-> queue[Min(Fitting(queue))], rest |-> <<>>]

\* copy_pending_packet: packets that do not fit are thrown away on the way.
Copied(queue) ==
    LET i == Min(Fitting(queue)) IN
    [packet |-> queue[i], rest |-> SubSeq(queue, i + 1, Len(queue))]

\* An iteration of read_packet: a packet of the queue, or else another read.
Iterate(queue, reads) ==
    \/ /\ Fitting(queue) # {}
       /\ delivered' = Append(delivered, Copied(queue).packet)
       /\ pending' = Copied(queue).rest
       /\ stage' = reads
       /\ awaited' = NoRead
       /\ pc' = "handle"
    \/ /\ Fitting(queue) = {}
       /\ pending' = <<>>
       /\ \E r \in Read : reads[r] = "off" /\ stage' = [reads EXCEPT ![r] = "polling"] /\ awaited' = r
       /\ pc' = "await"
       /\ UNCHANGED delivered

Enter ==
    /\ pc = "select"
    /\ Iterate(pending, stage)
    /\ UNCHANGED <<bpfVars, got, cancelled>>

\* The records of the read that is awaited, which is then over.
Result == got[awaited]
Joined == [stage EXCEPT ![awaited] = "off"]
Emptied == [got EXCEPT ![awaited] = <<>>]

Resume ==
    /\ pc = "await"
    /\ stage[awaited] \in {"none", "records"}
    /\ ~Broken(Result)
    /\ Iterate(pending \o Decode(Result), Joined)
    /\ got' = Emptied
    /\ UNCHANGED <<bpfVars, cancelled>>

\* read_packet returns an error, which the reader unwraps.
Fail ==
    /\ pc = "await"
    /\ stage[awaited] = "failed" \/ Broken(Result)
    /\ pc' = "dead"
    /\ stage' = Joined
    /\ got' = Emptied
    /\ awaited' = NoRead
    /\ UNCHANGED <<bpfVars, pending, delivered, cancelled>>

\* A purge comes before read_packet was polled.
PurgeFirst ==
    /\ pc = "select"
    /\ pc' = "handle"
    /\ UNCHANGED <<bpfVars, readVars, pending, delivered, cancelled>>

\* A purge comes while read_packet waits: the read is orphaned.
PurgeCancels ==
    /\ pc = "await"
    /\ pc' = "handle"
    /\ stage' = IF stage[awaited] \in Finished THEN Joined ELSE stage
    /\ got' = Emptied
    /\ awaited' = NoRead
    /\ cancelled' = TRUE
    /\ UNCHANGED <<bpfVars, pending, delivered>>

\* The reader is done with the packet or the purge.
Handle ==
    /\ pc = "handle"
    /\ pc' = "select"
    /\ UNCHANGED <<bpfVars, readVars, pending, delivered, cancelled>>

-----------------------------------------------------------------------------

ReadStep(r) ==
    PollReady(r) \/ PollTimeout(r) \/ ReadRecords(r) \/ ReadNothing(r) \/ ReadFails(r)

Next ==
    \/ \E k \in Kind : Captured(k)
    \/ \E r \in Read : ReadStep(r)
    \/ Enter \/ Resume \/ Fail \/ PurgeFirst \/ PurgeCancels \/ Handle

Spec == Init /\ [][Next]_vars

\* A blocking read ends (poll has a timeout) and not every one fails; the reader
\* gets on; select! polls its branches in random order, so purges cannot win
\* every time.
Fairness ==
    /\ \A r \in Read : WF_vars(ReadStep(r)) /\ SF_vars(PollReady(r)) /\ SF_vars(ReadRecords(r))
    /\ WF_vars(Handle)
    /\ SF_vars(Enter)
    /\ SF_vars(Resume \/ Fail)

FairSpec == Spec /\ Fairness

-----------------------------------------------------------------------------

Accounted == UNION {Range(q) : q \in {delivered, pending, kernel} \cup {got[r] : r \in Read}}

\* A packet that fits gets lost only with a read that a purge has orphaned, or
\* with the reader: otherwise each one captured is delivered, queued, in a read
\* that has finished, or in the kernel's buffer.
LossNeedsCancel == cancelled \/ pc = "dead" \/ Fit \subseteq Accounted

\* Captured records leave the kernel's buffer and the queue as long as the
\* reader runs, however often purges interrupt it.
CapturedMovesOn == kernel \o pending # <<>> ~> kernel \o pending = <<>> \/ pc = "dead"

\* What recv may still return: the packets that fit, of the queue, of the read that
\* is awaited, and of the kernel's buffer.
Receivable ==
    LET read == IF awaited = NoRead THEN <<>> ELSE got[awaited]
    IN  Only(pending \o read \o kernel, Fit)

Device == INSTANCE TunDevice WITH
    Packet <- 1 .. MAX_CAPTURED, queue <- Receivable, received <- delivered, up <- pc # "dead"

\* Orphaned reads, purges and the queue together are no more than a device that
\* may lose packets: what read_packet returns is always the first packet that is
\* still there, and a packet that was skipped is never returned later.
ImplementsTunDevice == Device!Spec

=============================================================================
