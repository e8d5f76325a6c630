---------------------------- MODULE CaptureProofs ----------------------------
(***************************************************************************)
(* Proofs about Capture, for any number of threads of the blocking pool,   *)
(* any buffer and any number of records.  The argument is about sequences  *)
(* of record numbers that grow: such a sequence is known when the set of   *)
(* its elements is, so that each step of the device is a matter of sets.   *)
(***************************************************************************)
EXTENDS Capture, SubsequenceProofs

-----------------------------------------------------------------------------
\* The way of a record: d delivered, p pending, r read, k in the kernel's buffer.

Flow(d, p, r, k, n) ==
    /\ \A s \in {d, p, r, k} : s \in Seq(Nat) /\ Increasing(s) /\ Range(s) \subseteq 1 .. n
    /\ Below(d, p) /\ Below(d, r) /\ Below(d, k)
    /\ Below(p, r) /\ Below(p, k) /\ Below(r, k)

\* A record is captured.
LEMMA FlowArrives ==
    ASSUME NEW d, NEW p, NEW r, NEW k, NEW n \in Nat, Flow(d, p, r, k, n)
    PROVE  /\ Flow(d, p, r, Append(k, n + 1), n + 1)
           /\ Range(Append(k, n + 1)) = Range(k) \cup {n + 1}
<1>1. \A s \in {d, p, r, k} : s \in Seq(Nat) /\ Increasing(s) /\ Range(s) \subseteq 1 .. n
  BY DEF Flow
<1>2. \A s \in {d, p, r, k} : (\A m \in Range(s) : m < n + 1) /\ Range(s) \subseteq 1 .. n + 1
  BY <1>1
<1>3. /\ Append(k, n + 1) \in Seq(Nat) /\ Increasing(Append(k, n + 1))
      /\ Range(Append(k, n + 1)) = Range(k) \cup {n + 1}
  BY <1>1, <1>2, AppendIs
<1>4. Range(Append(k, n + 1)) \subseteq 1 .. n + 1
  BY <1>2, <1>3
<1>5. \A s \in {d, p, r} : Below(s, k) => Below(s, Append(k, n + 1))
  BY <1>2, <1>3 DEF Below
<1> QED BY <1>1, <1>2, <1>3, <1>4, <1>5 DEF Flow

\* Sequences are emptied, or a read takes over the kernel's buffer.
LEMMA FlowMoves ==
    ASSUME NEW d, NEW p, NEW r, NEW k, NEW n, Flow(d, p, r, k, n)
    PROVE  /\ Flow(d, p, r, <<>>, n) /\ Flow(d, p, <<>>, k, n) /\ Flow(d, <<>>, <<>>, k, n)
           /\ Flow(d, p, k, <<>>, n) /\ Flow(d, p, <<>>, <<>>, n)
BY EmptyIs, Zenon DEF Flow, Below

\* decode_records puts what it keeps of a read behind the queue.
Decodes(p, r, S, q) == q = p \o Only(r, S)

LEMMA FlowDecodes ==
    ASSUME NEW d, NEW p, NEW r, NEW k, NEW n, NEW S, NEW q, Flow(d, p, r, k, n), Decodes(p, r, S, q)
    PROVE  Flow(d, q, <<>>, k, n) /\ Range(q) = Range(p) \cup (Range(r) \cap S)
<1> DEFINE o == Only(r, S)
<1>1. \A s \in {d, p, r, k} : s \in Seq(Nat) /\ Increasing(s) /\ Range(s) \subseteq 1 .. n
  BY DEF Flow
<1>2. o \in Seq(Nat) /\ Increasing(o) /\ Range(o) = Range(r) \cap S
  BY <1>1, OnlyIs
<1> HIDE DEF o
<1>3. Below(p, o) /\ Below(d, o) /\ Below(o, k)
  BY <1>2 DEF Flow, Below
<1>4. p \o o \in Seq(Nat) /\ Increasing(p \o o) /\ Range(p \o o) = Range(p) \cup Range(o)
  BY <1>1, <1>2, <1>3, ConcatIs
<1>5. Below(d, p \o o) /\ Below(p \o o, k)
  BY <1>3, <1>4 DEF Flow, Below
<1>6. Range(p \o o) \subseteq 1 .. n
  BY <1>1, <1>2, <1>4
<1>7. Flow(d, p \o o, <<>>, k, n)
  BY <1>1, <1>4, <1>5, <1>6, EmptyIs DEF Flow, Below
<1> QED BY <1>2, <1>4, <1>7 DEF o, Decodes

\* copy_pending_packet hands out the first packet of the queue that fits.
Copies(q, F, x, rest) ==
    LET i == Min({j \in DOMAIN q : q[j] \in F})
    IN  /\ \E j \in DOMAIN q : q[j] \in F
        /\ x = q[i] /\ rest = SubSeq(q, i + 1, Len(q))

LEMMA FlowCopies ==
    ASSUME NEW d, NEW q, NEW k, NEW n, NEW F, NEW x, NEW rest,
           Flow(d, q, <<>>, k, n), Copies(q, F, x, rest)
    PROVE  /\ Flow(Append(d, x), rest, <<>>, k, n)
           /\ x \in F \cap Range(q) /\ x \in Nat
           /\ F \cap Range(q) = {x} \cup (F \cap Range(rest))
           /\ \A m \in Range(rest) \cup Range(k) : x < m
           /\ Range(Append(d, x)) = Range(d) \cup {x}
<1> DEFINE fit == {j \in DOMAIN q : q[j] \in F}
           i == Min(fit)
<1>0. x = q[i] /\ rest = SubSeq(q, i + 1, Len(q)) /\ fit # {}
  BY DEF Copies
<1>1. \A s \in {d, q, k} : s \in Seq(Nat) /\ Increasing(s) /\ Range(s) \subseteq 1 .. n
  BY DEF Flow
<1>2. PICK l \in Nat : l = Len(q) /\ DOMAIN q = 1 .. l /\ \A j \in 1 .. l : q[j] \in Nat
  <2>1. q \in Seq(Nat)
    BY <1>1
  <2>2. Len(q) \in Nat /\ DOMAIN q = 1 .. Len(q) /\ \A j \in 1 .. Len(q) : q[j] \in Nat
    BY ONLY <2>1
  <2> QED BY <2>2, Zenon
<1>3. i \in fit /\ \A j \in fit : i <= j
  <2>1. fit \in SUBSET Nat /\ fit # {}
    BY <1>0, <1>2
  <2>2. \E j \in fit : \A m \in fit : j <= m
    BY <2>1, LeastExists, Zenon
  <2> HIDE DEF fit
  <2> QED BY <2>2 DEF Min
<1> HIDE DEF i
<1>4. i \in 1 .. l /\ q[i] \in F /\ q[i] \in Nat /\ q[i] \in Range(q)
  BY <1>2, <1>3 DEF Range
<1>5. rest \in Seq(Nat) /\ Increasing(rest) /\ Range(rest) = {q[j] : j \in i + 1 .. l}
  BY <1>1, <1>2, <1>4, <1>0, RestIs, Zenon
<1>6. ASSUME NEW j \in i + 1 .. l
      PROVE  j \in 1 .. l /\ q[i] < q[j]
  <2>1. j \in 1 .. l /\ i < j
    BY <1>2, <1>4
  <2>2. Increasing(q)
    BY <1>1
  <2> QED BY <1>2, <1>4, <2>1, <2>2, Zenon DEF Increasing
<1>7. Range(rest) \subseteq Range(q) /\ \A m \in Range(rest) : q[i] < m
  BY <1>2, <1>5, <1>6, Zenon DEF Range
<1>8. F \cap Range(q) = {q[i]} \cup (F \cap Range(rest))
  <2>1. ASSUME NEW j \in 1 .. l, q[j] \in F
        PROVE  j = i \/ j \in i + 1 .. l
    BY <1>2, <1>3, <1>4, <2>1
  <2> QED BY <1>2, <1>4, <1>5, <1>7, <2>1, ZenonT(30) DEF Range
<1>9. /\ Append(d, q[i]) \in Seq(Nat) /\ Increasing(Append(d, q[i]))
      /\ Range(Append(d, q[i])) = Range(d) \cup {q[i]}
  <2>1. \A m \in Range(d) : m < q[i]
    BY <1>4 DEF Flow, Below
  <2> QED BY <1>1, <1>4, <2>1, AppendIs, Zenon
<1>10. \A m \in Range(k) : q[i] < m
  BY <1>4 DEF Flow, Below
<1>11. Below(Append(d, q[i]), rest) /\ Below(Append(d, q[i]), k) /\ Below(rest, k)
  BY <1>7, <1>9, <1>10 DEF Flow, Below
<1>12. Range(rest) \subseteq 1 .. n /\ Range(Append(d, q[i])) \subseteq 1 .. n
  BY <1>1, <1>4, <1>7, <1>9
<1>13. Flow(Append(d, q[i]), rest, <<>>, k, n)
  BY <1>1, <1>5, <1>9, <1>11, <1>12, EmptyIs, Zenon DEF Flow, Below
<1> QED BY <1>4, <1>7, <1>8, <1>9, <1>10, <1>13, <1>0

\* What may still be received, as one sequence.
LEMMA QueueIs ==
    ASSUME NEW d, NEW p, NEW r, NEW k, NEW n, NEW F, Flow(d, p, r, k, n)
    PROVE  /\ Only(p \o r \o k, F) \in Seq(Nat) /\ Increasing(Only(p \o r \o k, F))
           /\ Range(Only(p \o r \o k, F)) = (Range(p) \cup Range(r) \cup Range(k)) \cap F
<1>1. \A s \in {p, r, k} : s \in Seq(Nat) /\ Increasing(s)
  BY DEF Flow
<1>2. p \o r \in Seq(Nat) /\ Increasing(p \o r) /\ Range(p \o r) = Range(p) \cup Range(r)
  BY <1>1, ConcatIs DEF Flow
<1>3. Below(p \o r, k)
  BY <1>2 DEF Flow, Below
<1>4. /\ p \o r \o k \in Seq(Nat) /\ Increasing(p \o r \o k)
      /\ Range(p \o r \o k) = Range(p) \cup Range(r) \cup Range(k)
  BY <1>1, <1>2, <1>3, ConcatIs, Zenon
<1> QED BY <1>4, OnlyIs, Zenon

-----------------------------------------------------------------------------
\* The reader and the blocking pool.

Reading == IF awaited = NoRead THEN <<>> ELSE got[awaited]

CaptureTypeOK ==
    /\ captured \in Seq(Kind) /\ Len(captured) <= MAX_CAPTURED
    /\ stage \in [Read -> {"off", "polling", "readable"} \cup Finished]
    /\ got \in [Read -> Seq(Nat)]
    /\ awaited \in Read \cup {NoRead}
    /\ pc \in {"select", "await", "handle", "dead"}

\* Only the read that is awaited keeps its result, and the reader awaits exactly
\* in the await of read_packet.
ReadsInv ==
    /\ pc = "await" <=> awaited \in Read
    /\ awaited \in Read => stage[awaited] # "off"
    /\ \A r \in Read : got[r] # <<>> => r = awaited /\ stage[r] = "records"
    /\ \A r \in Read : stage[r] \in Finished => r = awaited

FlowInv == Flow(delivered, pending, Reading, kernel, Len(captured))

\* Without an orphan, every packet that fits is still on its way.
LossInv ==
    cancelled \/ pc = "dead" \/
    /\ Fit \subseteq Range(delivered) \cup Range(pending) \cup Range(Reading) \cup Range(kernel)
    /\ \A r \in Read : stage[r] # "off" => r = awaited

CaptureInv == CaptureTypeOK /\ ReadsInv /\ FlowInv /\ LossInv

LEMMA CaptureInit == Init => CaptureInv
<1> SUFFICES ASSUME Init PROVE CaptureInv
  OBVIOUS
<1>1. CaptureTypeOK /\ ReadsInv
  BY CaptureAssumption DEF CaptureAssumption, Init, CaptureTypeOK, ReadsInv, Finished
<1>2. Reading = <<>> /\ Len(captured) = 0
  BY DEF Init, Reading
<1>3. FlowInv
  BY <1>2, EmptyIs DEF Init, FlowInv, Flow, Below
<1>4. Fit = {}
  BY DEF Init, Fit, Record
<1>5. LossInv
  BY <1>4 DEF Init, LossInv
<1> QED BY <1>1, <1>3, <1>5 DEF CaptureInv

-----------------------------------------------------------------------------
\* The steps of the abstract device.

\* The records that may still be received, in no order.
Open == Range(pending) \cup Range(Reading) \cup Range(kernel)

LEMMA ReceivableIs ==
    ASSUME FlowInv
    PROVE  Receivable \in Seq(Nat) /\ Increasing(Receivable) /\ Range(Receivable) = Open \cap Fit
<1>1. Receivable = Only(pending \o Reading \o kernel, Fit)
  BY DEF Receivable, Reading
<1> QED BY <1>1, QueueIs DEF FlowInv, Open

LEMMA ReceivableNext ==
    ASSUME FlowInv'
    PROVE  Receivable' \in Seq(Nat) /\ Increasing(Receivable') /\ Range(Receivable') = Open' \cap Fit'
<1>1. Receivable' = Only(pending' \o Reading' \o kernel', Fit')
  BY DEF Receivable, Reading
<1>2. Flow(delivered', pending', Reading', kernel', Len(captured'))
  BY DEF FlowInv
<1> QED BY <1>1, <1>2, QueueIs DEF Open

\* The abstract device uses the same operators.
LEMMA DeviceOperators ==
    ASSUME NEW s, NEW S
    PROVE  Device!Range(s) = Range(s) /\ Device!Only(s, S) = Only(s, S)
<1>1. Device!Range(s) = Range(s)
  BY DEF Device!Range, Range
<1>2. Device!Only(s, S) = Only(s, S)
  BY DEF Device!Only, Only
<1> QED BY <1>1, <1>2

LEMMA DeviceLoses ==
    ASSUME FlowInv, FlowInv', delivered' = delivered, Open' \cap Fit' \subseteq Open \cap Fit,
           pc = "dead" => pc' = "dead"
    PROVE  Device!Next
<1> DEFINE S == Range(Receivable) \ Range(Receivable')
           kept == Only(Receivable, Range(Receivable) \ S)
<1>1. Receivable \in Seq(Nat) /\ Increasing(Receivable) /\ Range(Receivable) = Open \cap Fit
  BY ReceivableIs
<1>2. Receivable' \in Seq(Nat) /\ Increasing(Receivable') /\ Range(Receivable') = Open' \cap Fit'
  BY ReceivableNext
<1>3. kept \in Seq(Nat) /\ Increasing(kept) /\ Range(kept) = Range(Receivable) \cap (Range(Receivable) \ S)
  BY <1>1, OnlyIs
<1>4. Range(kept) = Range(Receivable')
  BY <1>1, <1>2, <1>3, Zenon
<1>5. Receivable' = kept
  <2> HIDE DEF kept
  <2> QED BY <1>2, <1>3, <1>4, SameElements, Zenon
<1>6. (pc' # "dead") \in {pc # "dead", FALSE}
  BY Zenon
<1>7. S \in SUBSET Range(Receivable)
  OBVIOUS
<1>8. /\ Device!Range(Receivable) = Range(Receivable)
      /\ Receivable' = Device!Only(Receivable, Range(Receivable) \ S)
  BY <1>5, DeviceOperators
<1> HIDE DEF S
<1>9. Device!Lose
  BY <1>6, <1>7, <1>8, Zenon DEF Device!Lose
<1> QED BY <1>9 DEF Device!Next

LEMMA DeviceReceives ==
    ASSUME FlowInv, FlowInv', pc # "dead", pc' # "dead",
           NEW x \in Nat, delivered' = Append(delivered, x),
           Open \cap Fit = {x} \cup (Open' \cap Fit'), \A m \in Open' : x < m
    PROVE  Device!Next
<1>1. Receivable \in Seq(Nat) /\ Increasing(Receivable) /\ Range(Receivable) = Open \cap Fit
  BY ReceivableIs
<1>2. Receivable' \in Seq(Nat) /\ Increasing(Receivable') /\ Range(Receivable') = Open' \cap Fit'
  BY ReceivableNext
<1>3. Range(Receivable) = {x} \cup Range(Receivable') /\ \A m \in Range(Receivable') : x < m
  BY <1>1, <1>2
<1>4. Receivable # <<>> /\ Head(Receivable) = x /\ Tail(Receivable) = Receivable'
  BY <1>1, <1>2, <1>3, FirstIs, Zenon
<1>5. Device!recv
  BY <1>4 DEF Device!recv
<1> QED BY <1>5 DEF Device!Next

LEMMA DeviceArrives ==
    ASSUME FlowInv, FlowInv', UNCHANGED <<delivered, pc>>,
           NEW n \in 1 .. MAX_CAPTURED, Open' \cap Fit' = (Open \cap Fit) \cup {n},
           \A m \in Open \cup Range(delivered) : m < n
    PROVE  Device!Next
<1>1. Receivable \in Seq(Nat) /\ Increasing(Receivable) /\ Range(Receivable) = Open \cap Fit
  BY ReceivableIs
<1>2. Receivable' \in Seq(Nat) /\ Increasing(Receivable') /\ Range(Receivable') = Open' \cap Fit'
  BY ReceivableNext
<1>3. n \in Nat /\ \A m \in Range(Receivable) : m < n
  BY <1>1, CaptureAssumption DEF CaptureAssumption
<1>4. /\ Append(Receivable, n) \in Seq(Nat) /\ Increasing(Append(Receivable, n))
      /\ Range(Append(Receivable, n)) = Range(Receivable) \cup {n}
  BY <1>1, <1>3, AppendIs
<1>5. Receivable' = Append(Receivable, n)
  BY <1>1, <1>2, <1>4, SameElements, Zenon
<1>6. /\ Device!Range(Receivable) = Range(Receivable)
      /\ Device!Range(delivered) = Range(delivered)
  BY DeviceOperators
<1>7. Device!Arrive(n)
  BY <1>3, <1>5, <1>6 DEF Device!Arrive
<1> QED BY <1>7 DEF Device!Next

-----------------------------------------------------------------------------
\* The steps of the reader, of the reads and of the kernel.

LEMMA CapturedStep ==
    ASSUME CaptureInv, NEW kind \in Kind, Captured(kind)
    PROVE  CaptureInv' /\ Device!Next
<1> DEFINE n == Len(captured)
<1>1. /\ captured \in Seq(Kind) /\ n \in Nat /\ n < MAX_CAPTURED /\ MAX_CAPTURED \in Nat
      /\ captured' = Append(captured, kind) /\ kernel' = Append(kernel, n + 1)
      /\ UNCHANGED <<stage, got, awaited, pending, pc, delivered, cancelled>>
  BY CaptureAssumption DEF CaptureAssumption, Captured, CaptureInv, CaptureTypeOK, readVars
<1>2. captured' \in Seq(Kind) /\ Len(captured') = n + 1
  BY <1>1
<1>3. Reading' = Reading
  BY <1>1 DEF Reading
<1>4. CaptureTypeOK' /\ ReadsInv'
  <2>1. n + 1 <= MAX_CAPTURED
    BY <1>1
  <2> QED BY <1>1, <1>2, <2>1 DEF CaptureInv, CaptureTypeOK, ReadsInv
<1>5. Fit' = Fit \cup {m \in {n + 1} : kind = "good"} /\ Fit \subseteq 1 .. n
  <2>1. DOMAIN captured = 1 .. n /\ DOMAIN captured' = 1 .. n + 1
    BY <1>1, <1>2
  <2>2. captured'[n + 1] = kind /\ \A m \in 1 .. n : captured'[m] = captured[m]
    BY <1>1
  <2>3. \A m \in 1 .. n + 1 : m = n + 1 \/ m \in 1 .. n
    BY <1>1
  <2>4. \A m \in 1 .. n : m \in 1 .. n + 1 /\ m # n + 1
    BY <1>1
  <2>5. n + 1 \in 1 .. n + 1
    BY <1>1
  <2> QED BY <2>1, <2>2, <2>3, <2>4, <2>5 DEF Fit, Record
<1>6. Flow(delivered, pending, Reading, kernel, n)
  BY DEF CaptureInv, FlowInv
<1> HIDE DEF n
<1>7. Flow(delivered, pending, Reading, kernel', n + 1) /\ Range(kernel') = Range(kernel) \cup {n + 1}
  BY <1>1, <1>6, FlowArrives
<1>8. FlowInv'
  BY <1>1, <1>2, <1>3, <1>7 DEF FlowInv
<1>9. \A m \in Open \cup Range(delivered) : m < n + 1
  <2>1. Range(delivered) \subseteq 1 .. n /\ Open \subseteq 1 .. n
    BY <1>6 DEF Flow, Open
  <2> QED BY <1>1, <2>1
<1>10. Open' = Open \cup {n + 1}
  BY <1>1, <1>3, <1>7 DEF Open
<1>11. LossInv'
  BY <1>1, <1>3, <1>5, <1>7, Zenon DEF CaptureInv, LossInv
<1>12. n + 1 \notin Open /\ n + 1 \notin Fit
  BY <1>1, <1>5, <1>9
<1>13. Device!Next
  <2>1. CASE kind = "good"
    <3>1. Open' \cap Fit' = (Open \cap Fit) \cup {n + 1}
      BY <1>5, <1>10, <1>12, <2>1
    <3>2. n + 1 \in 1 .. MAX_CAPTURED
      BY <1>1
    <3> QED BY <1>1, <1>8, <1>9, <3>1, <3>2, DeviceArrives DEF CaptureInv
  <2>2. CASE kind # "good"
    <3>1. Open' \cap Fit' = Open \cap Fit
      BY <1>5, <1>10, <1>12, <2>2
    <3> QED BY <1>1, <1>8, <3>1, DeviceLoses DEF CaptureInv
  <2> QED BY <2>1, <2>2
<1> QED BY <1>4, <1>8, <1>11, <1>13 DEF CaptureInv

LEMMA ReadStepKeeps ==
    ASSUME CaptureInv, NEW r \in Read, ReadStep(r)
    PROVE  CaptureInv' /\ Device!Next
<1> USE DEF bpfVars
<1>1. /\ UNCHANGED <<captured, awaited, pending, pc, delivered, cancelled>>
      /\ stage[r] \in {"polling", "readable"}
  BY DEF ReadStep, PollReady, PollTimeout, ReadRecords, ReadNothing, ReadFails, Finish
<1>2. got[r] = <<>>
  BY <1>1 DEF CaptureInv, ReadsInv
<1>3. Fit' = Fit /\ Len(captured') = Len(captured)
  BY <1>1 DEF Fit, Record
<1>4. NoRead \notin Read
  BY CaptureAssumption DEF CaptureAssumption
<1>5. CASE UNCHANGED <<kernel, got>> /\ CaptureTypeOK' /\ ReadsInv' /\ (LossInv => LossInv')
  <2>1. Reading' = Reading
    BY <1>1, <1>5 DEF Reading
  <2>2. FlowInv'
    BY <1>1, <1>3, <1>5, <2>1 DEF CaptureInv, FlowInv
  <2>3. Open' \cap Fit' = Open \cap Fit
    BY <1>1, <1>3, <1>5, <2>1 DEF Open
  <2> QED BY <1>1, <1>5, <2>2, <2>3, DeviceLoses DEF CaptureInv
<1>6. CASE PollReady(r)
  <2>1. stage' = [stage EXCEPT ![r] = "readable"] /\ UNCHANGED <<kernel, got>> /\ stage[r] = "polling"
    BY <1>6 DEF PollReady
  <2>2. CaptureTypeOK' /\ ReadsInv'
    BY <1>1, <1>3, <2>1 DEF CaptureInv, CaptureTypeOK, ReadsInv, Finished
  <2>3. LossInv => LossInv'
    <3>1. Reading' = Reading
      BY <1>1, <2>1 DEF Reading
    <3> QED BY <1>1, <1>3, <2>1, <3>1 DEF LossInv, CaptureInv, CaptureTypeOK
  <2> QED BY <1>5, <2>1, <2>2, <2>3
<1>7. ASSUME NEW result \in Finished, Finish(r, result, <<>>), UNCHANGED kernel
      PROVE  CaptureInv' /\ Device!Next
  <2>1. stage' = [stage EXCEPT ![r] = IF r = awaited THEN result ELSE "off"]
    BY <1>7 DEF Finish
  <2>2. got' = got
    <3>1. got' = [got EXCEPT ![r] = <<>>]
      BY <1>7 DEF Finish
    <3> QED BY <1>2, <3>1 DEF CaptureInv, CaptureTypeOK
  <2>3. CaptureTypeOK'
    BY <1>1, <1>3, <2>1, <2>2 DEF CaptureInv, CaptureTypeOK, Finished
  <2>4. ReadsInv'
    <3>1. \A q \in Read : q # r => stage'[q] = stage[q]
      BY <2>1 DEF CaptureInv, CaptureTypeOK
    <3>2. stage'[r] = IF r = awaited THEN result ELSE "off"
      BY <2>1 DEF CaptureInv, CaptureTypeOK
    <3> QED BY <1>1, <1>2, <1>7, <2>2, <3>1, <3>2, Zenon DEF CaptureInv, ReadsInv, Finished
  <2>5. LossInv => LossInv'
    <3>1. Reading' = Reading
      BY <1>1, <2>2 DEF Reading
    <3> QED BY <1>1, <1>3, <1>7, <2>1, <3>1 DEF LossInv, CaptureInv, CaptureTypeOK
  <2> QED BY <1>5, <1>7, <2>2, <2>3, <2>4, <2>5
<1>8. CASE ReadRecords(r)
  <2>1. /\ kernel' = <<>>
        /\ stage' = [stage EXCEPT ![r] = IF r = awaited THEN "records" ELSE "off"]
        /\ got' = [got EXCEPT ![r] = IF r = awaited THEN kernel ELSE <<>>]
    BY <1>8 DEF ReadRecords, Finish
  <2>2. Flow(delivered, pending, Reading, kernel, Len(captured))
    BY DEF CaptureInv, FlowInv
  <2>3. kernel \in Seq(Nat) /\ got \in [Read -> Seq(Nat)]
    BY <2>2 DEF Flow, CaptureInv, CaptureTypeOK
  <2>4. got' \in [Read -> Seq(Nat)]
    BY <2>1, <2>3
  <2>5. CaptureTypeOK'
    BY <1>1, <1>3, <2>1, <2>4 DEF CaptureInv, CaptureTypeOK, Finished
  <2>6. ReadsInv'
    <3>1. \A q \in Read : q # r => stage'[q] = stage[q] /\ got'[q] = got[q]
      BY <2>1, <2>3 DEF CaptureInv, CaptureTypeOK
    <3>2. /\ stage'[r] = IF r = awaited THEN "records" ELSE "off"
          /\ got'[r] = IF r = awaited THEN kernel ELSE <<>>
      BY <2>1, <2>3 DEF CaptureInv, CaptureTypeOK
    <3> QED BY <1>1, <3>1, <3>2 DEF CaptureInv, ReadsInv, Finished
  <2>7. CASE r = awaited
    <3>1. Reading = <<>> /\ Reading' = kernel
      BY <1>1, <1>2, <1>4, <2>1, <2>3, <2>7 DEF Reading
    <3>2. Flow(delivered, pending, kernel, <<>>, Len(captured))
      BY <2>2, FlowMoves
    <3>3. FlowInv'
      BY <1>1, <1>3, <2>1, <3>1, <3>2 DEF FlowInv
    <3>4. Range(<<>>) = {}
      BY EmptyIs
    <3>5. Open' = Open
      BY <1>1, <2>1, <3>1, <3>4 DEF Open
    <3>6. LossInv'
      BY <1>1, <1>3, <2>1, <2>7, <3>1, <3>4 DEF LossInv, CaptureInv, CaptureTypeOK
    <3> QED BY <1>1, <1>3, <2>5, <2>6, <3>3, <3>5, <3>6, DeviceLoses DEF CaptureInv
  <2>8. CASE r # awaited
    <3>1. Reading' = Reading
      BY <1>1, <2>1, <2>3, <2>8 DEF Reading, CaptureInv, CaptureTypeOK
    <3>2. Flow(delivered, pending, Reading, <<>>, Len(captured))
      BY <2>2, FlowMoves
    <3>3. FlowInv'
      BY <1>1, <1>3, <2>1, <3>1, <3>2 DEF FlowInv
    <3>4. Range(<<>>) = {}
      BY EmptyIs
    <3>5. Open' \subseteq Open
      BY <1>1, <2>1, <3>1, <3>4 DEF Open
    <3>6. cancelled \/ pc = "dead"
      BY <1>1, <2>8 DEF CaptureInv, LossInv
    <3>7. LossInv'
      BY <1>1, <3>6 DEF LossInv
    <3> QED BY <1>1, <1>3, <2>5, <2>6, <3>3, <3>5, <3>7, DeviceLoses DEF CaptureInv
  <2> QED BY <2>7, <2>8
<1> QED BY <1>6, <1>7, <1>8 DEF ReadStep, PollTimeout, ReadNothing, ReadFails, Finished

\* An iteration of read_packet, with the queue that it finds and the reads that
\* are still running.
LEMMA Iterates ==
    ASSUME CaptureInv, NEW queue, NEW reads \in [Read -> {"off", "polling", "readable"}],
           Iterate(queue, reads), UNCHANGED <<captured, kernel, cancelled>>,
           got' \in [Read -> Seq(Nat)], \A r \in Read : got'[r] = <<>>,
           Flow(delivered, queue, <<>>, kernel, Len(captured)),
           Range(queue) \cap Fit = (Range(pending) \cup Range(Reading)) \cap Fit,
           pc # "dead", cancelled \/ \A r \in Read : reads[r] = "off"
    PROVE  CaptureInv' /\ Device!Next
<1>1. Fit' = Fit /\ Len(captured') = Len(captured)
  BY DEF Fit, Record
<1>2. NoRead \notin Read
  BY CaptureAssumption DEF CaptureAssumption
<1>3. Reading' = <<>>
  BY DEF Iterate, Reading
<1>4. Range(<<>>) = {}
  BY EmptyIs
<1>5. FlowInv
  BY DEF CaptureInv
<1>6. Open' = Range(pending') \cup Range(kernel)
  BY <1>3, <1>4 DEF Open
<1>7. Open \cap Fit = (Range(queue) \cup Range(kernel)) \cap Fit
  BY DEF Open
<1>8. cancelled \/ Fit \subseteq Range(delivered) \cup Range(queue) \cup Range(kernel)
  BY DEF CaptureInv, LossInv
<1>9. CASE Fitting(queue) # {}
  <2> DEFINE x == Copied(queue).packet
             rest == Copied(queue).rest
  <2>1. /\ delivered' = Append(delivered, x) /\ pending' = rest
        /\ stage' = reads /\ awaited' = NoRead /\ pc' = "handle"
    BY <1>9, Zenon DEF Iterate
  <2>2. Copies(queue, Fit, x, rest)
    BY <1>9, Zenon DEF Copies, Copied, Fitting
  <2> HIDE DEF x, rest
  <2>4. /\ Flow(Append(delivered, x), rest, <<>>, kernel, Len(captured))
        /\ x \in Fit \cap Range(queue) /\ x \in Nat
        /\ Fit \cap Range(queue) = {x} \cup (Fit \cap Range(rest))
        /\ \A m \in Range(rest) \cup Range(kernel) : x < m
        /\ Range(Append(delivered, x)) = Range(delivered) \cup {x}
    BY <2>2, FlowCopies, SMTT(30)
  <2>5. CaptureTypeOK'
    BY <1>1, <2>1 DEF CaptureInv, CaptureTypeOK, Finished
  <2>6. ReadsInv'
    BY <1>2, <2>1, Zenon DEF ReadsInv, Finished
  <2>7. FlowInv'
    BY <1>1, <1>3, <2>1, <2>4 DEF FlowInv
  <2>8. LossInv'
    <3>1. CASE cancelled
      BY <3>1 DEF LossInv
    <3>2. CASE ~cancelled
      <4>1. Fit \subseteq Range(delivered') \cup Range(pending') \cup Range(kernel)
        BY <1>8, <2>1, <2>4, <3>2
      <4>2. \A r \in Read : stage'[r] = "off"
        BY <2>1, <3>2
      <4> QED BY <1>1, <4>1, <4>2 DEF LossInv
    <3> QED BY <3>1, <3>2
  <2>9. Open \cap Fit = {x} \cup (Open' \cap Fit')
    BY <1>1, <1>6, <1>7, <2>1, <2>4
  <2>10. \A m \in Open' : x < m
    BY <1>6, <2>1, <2>4
  <2>11. pc' # "dead"
    BY <2>1
  <2>12. Device!Next
    BY <1>5, <2>1, <2>4, <2>7, <2>9, <2>10, <2>11, DeviceReceives, Zenon
  <2> QED BY <2>5, <2>6, <2>7, <2>8, <2>12 DEF CaptureInv
<1>10. CASE Fitting(queue) = {}
  <2>1. PICK r \in Read : /\ reads[r] = "off" /\ stage' = [reads EXCEPT ![r] = "polling"]
                          /\ awaited' = r
    BY <1>10, Zenon DEF Iterate
  <2>2. pending' = <<>> /\ pc' = "await" /\ delivered' = delivered
    BY <1>10, Zenon DEF Iterate
  <2>3. Range(queue) \cap Fit = {}
    <3>1. \A j \in DOMAIN queue : queue[j] \notin Fit
      BY <1>10 DEF Fitting
    <3> QED BY <3>1, Zenon DEF Range
  <2>4. CaptureTypeOK'
    BY <1>1, <2>1, <2>2 DEF CaptureInv, CaptureTypeOK, Finished
  <2>5. ReadsInv'
    BY <2>1, <2>2 DEF ReadsInv, Finished
  <2>6. FlowInv'
    <3>1. Flow(delivered, <<>>, <<>>, kernel, Len(captured))
      BY FlowMoves
    <3> QED BY <1>1, <1>3, <2>2, <3>1 DEF FlowInv
  <2>7. LossInv'
    <3>1. CASE cancelled
      BY <3>1 DEF LossInv
    <3>2. CASE ~cancelled
      <4>1. Fit \subseteq Range(delivered') \cup Range(kernel)
        BY <1>8, <2>2, <2>3, <3>2
      <4>2. \A q \in Read : stage'[q] # "off" => q = awaited'
        BY <2>1, <3>2
      <4> QED BY <1>1, <4>1, <4>2 DEF LossInv
    <3> QED BY <3>1, <3>2
  <2>8. Open' \cap Fit' \subseteq Open \cap Fit
    BY <1>1, <1>4, <1>6, <1>7, <2>2
  <2>9. Device!Next
    BY <1>5, <2>2, <2>6, <2>8, DeviceLoses
  <2> QED BY <2>4, <2>5, <2>6, <2>7, <2>9 DEF CaptureInv
<1> QED BY <1>9, <1>10

LEMMA EnterStep ==
    ASSUME CaptureInv, Enter
    PROVE  CaptureInv' /\ Device!Next
<1>1. pc = "select" /\ Iterate(pending, stage) /\ UNCHANGED <<captured, kernel, got, cancelled>>
  BY DEF Enter, bpfVars
<1>2. awaited = NoRead
  BY <1>1 DEF CaptureInv, ReadsInv, CaptureTypeOK
<1>3. NoRead \notin Read
  BY CaptureAssumption DEF CaptureAssumption
<1>4. Reading = <<>> /\ Range(<<>>) = {}
  BY <1>2, EmptyIs DEF Reading
<1>5. Flow(delivered, pending, <<>>, kernel, Len(captured))
  BY <1>4 DEF CaptureInv, FlowInv
<1>6. stage \in [Read -> {"off", "polling", "readable"}]
  BY <1>2, <1>3 DEF CaptureInv, CaptureTypeOK, ReadsInv
<1>7. got' \in [Read -> Seq(Nat)] /\ \A r \in Read : got'[r] = <<>>
  BY <1>1, <1>2, <1>3 DEF CaptureInv, CaptureTypeOK, ReadsInv
<1>8. cancelled \/ \A r \in Read : stage[r] = "off"
  BY <1>1, <1>2, <1>3 DEF CaptureInv, LossInv
<1>9. Range(pending) \cap Fit = (Range(pending) \cup Range(Reading)) \cap Fit
  BY <1>4
<1> QED BY <1>1, <1>5, <1>6, <1>7, <1>8, <1>9, Iterates

LEMMA ResumeStep ==
    ASSUME CaptureInv, Resume
    PROVE  CaptureInv' /\ Device!Next
<1> DEFINE queue == pending \o Decode(Result)
<1>1. /\ pc = "await" /\ Iterate(queue, Joined) /\ got' = Emptied
      /\ UNCHANGED <<captured, kernel, cancelled>>
  BY DEF Resume, bpfVars
<1>2. awaited \in Read /\ NoRead \notin Read
  BY <1>1, CaptureAssumption DEF CaptureAssumption, CaptureInv, ReadsInv
<1>3. Reading = Result
  BY <1>2 DEF Reading, Result
<1>4. Flow(delivered, pending, Result, kernel, Len(captured))
  BY <1>3 DEF CaptureInv, FlowInv
<1>5. /\ Flow(delivered, queue, <<>>, kernel, Len(captured))
      /\ Range(queue) = Range(pending) \cup (Range(Result) \cap Keep)
  <2>1. Decodes(pending, Result, Keep, queue)
    BY DEF Decode, Decodes
  <2> HIDE DEF queue
  <2> QED BY <1>4, <2>1, FlowDecodes
<1>6. Fit \subseteq Keep
  BY DEF Fit, Keep
<1>7. Range(queue) \cap Fit = (Range(pending) \cup Range(Reading)) \cap Fit
  BY <1>3, <1>5, <1>6
<1>8. Joined \in [Read -> {"off", "polling", "readable"}]
  BY <1>2 DEF Joined, CaptureInv, CaptureTypeOK, ReadsInv
<1>9. got' \in [Read -> Seq(Nat)] /\ \A r \in Read : got'[r] = <<>>
  BY <1>1, <1>2 DEF Emptied, CaptureInv, CaptureTypeOK, ReadsInv
<1>10. cancelled \/ \A r \in Read : Joined[r] = "off"
  BY <1>1, <1>2 DEF Joined, CaptureInv, CaptureTypeOK, LossInv
<1> HIDE DEF queue
<1> QED BY <1>1, <1>5, <1>7, <1>8, <1>9, <1>10, Iterates

\* The steps of the reader that take nothing from the queue: the read it awaits,
\* if any, is over or orphaned, and what that read held is lost.
LEMMA DropStep ==
    ASSUME CaptureInv, Fail \/ PurgeFirst \/ PurgeCancels \/ Handle
    PROVE  CaptureInv' /\ Device!Next
<1>1. UNCHANGED <<captured, kernel, pending, delivered>> /\ pc # "dead"
  BY DEF Fail, PurgeFirst, PurgeCancels, Handle, bpfVars
<1>2. Fit' = Fit /\ Len(captured') = Len(captured)
  BY <1>1 DEF Fit, Record
<1>3. NoRead \notin Read
  BY CaptureAssumption DEF CaptureAssumption
<1>4. Range(<<>>) = {}
  BY EmptyIs
<1>5. Flow(delivered, pending, Reading, kernel, Len(captured))
  BY DEF CaptureInv, FlowInv
<1>6. Flow(delivered, pending, <<>>, kernel, Len(captured))
  BY <1>5, FlowMoves
<1>7. CASE PurgeFirst \/ Handle
  <2>1. /\ UNCHANGED <<stage, got, awaited, cancelled>>
        /\ pc \in {"select", "handle"} /\ pc' \in {"select", "handle"}
    BY <1>7 DEF PurgeFirst, Handle, readVars
  <2>2. Reading' = Reading
    BY <2>1 DEF Reading
  <2>3. CaptureTypeOK' /\ ReadsInv'
    BY <1>1, <1>2, <2>1 DEF CaptureInv, CaptureTypeOK, ReadsInv
  <2>4. FlowInv'
    BY <1>1, <1>2, <1>5, <2>2 DEF FlowInv
  <2>5. LossInv'
    BY <1>1, <1>2, <2>1, <2>2 DEF CaptureInv, LossInv
  <2>6. Open' \cap Fit' = Open \cap Fit
    BY <1>1, <1>2, <2>2 DEF Open
  <2> QED BY <1>1, <2>3, <2>4, <2>5, <2>6, DeviceLoses DEF CaptureInv
<1>8. CASE Fail \/ PurgeCancels
  <2>1. /\ pc = "await" /\ pc' \in {"handle", "dead"} /\ got' = Emptied /\ awaited' = NoRead
        /\ stage' = Joined \/ (stage' = stage /\ stage[awaited] \notin Finished)
    BY <1>8 DEF Fail, PurgeCancels
  <2>2. awaited \in Read
    BY <2>1 DEF CaptureInv, ReadsInv
  <2>3. Reading' = <<>>
    BY <2>1 DEF Reading
  <2>4. got' \in [Read -> Seq(Nat)] /\ \A r \in Read : got'[r] = <<>>
    BY <2>1, <2>2 DEF Emptied, CaptureInv, CaptureTypeOK, ReadsInv
  <2>5. stage' \in [Read -> {"off", "polling", "readable"}]
    <3>1. CASE stage' = Joined
      BY <2>2, <3>1 DEF Joined, CaptureInv, CaptureTypeOK, ReadsInv
    <3>2. CASE stage' = stage /\ stage[awaited] \notin Finished
      BY <2>2, <3>2 DEF CaptureInv, CaptureTypeOK, ReadsInv
    <3> QED BY <2>1, <3>1, <3>2
  <2>6. CaptureTypeOK'
    BY <1>1, <1>2, <2>1, <2>4, <2>5 DEF CaptureInv, CaptureTypeOK
  <2>7. ReadsInv'
    BY <1>3, <2>1, <2>4, <2>5 DEF ReadsInv, Finished
  <2>8. FlowInv'
    BY <1>1, <1>2, <1>6, <2>3 DEF FlowInv
  <2>9. LossInv'
    BY <1>8 DEF Fail, PurgeCancels, LossInv
  <2>10. Open' \cap Fit' \subseteq Open \cap Fit
    BY <1>1, <1>2, <1>4, <2>3 DEF Open
  <2> QED BY <1>1, <2>6, <2>7, <2>8, <2>9, <2>10, DeviceLoses DEF CaptureInv
<1> QED BY <1>7, <1>8

LEMMA CaptureStutter ==
    ASSUME CaptureInv, UNCHANGED vars
    PROVE  CaptureInv' /\ UNCHANGED Device!vars
<1> USE DEF vars, bpfVars, readVars
<1>1. Fit' = Fit /\ Reading' = Reading
  BY DEF Fit, Record, Reading
<1>2. CaptureTypeOK' /\ ReadsInv'
  BY DEF CaptureInv, CaptureTypeOK, ReadsInv
<1>3. FlowInv' /\ LossInv'
  BY <1>1 DEF CaptureInv, FlowInv, LossInv
<1>4. UNCHANGED Device!vars
  BY <1>1 DEF Device!vars, Receivable, Reading
<1> QED BY <1>2, <1>3, <1>4 DEF CaptureInv

\* Every step keeps the invariant and is a step of the abstract device.
LEMMA CaptureNext ==
    ASSUME CaptureInv, [Next]_vars
    PROVE  CaptureInv' /\ [Device!Next]_Device!vars
<1>1. CASE \E k \in Kind : Captured(k)
  BY <1>1, CapturedStep
<1>2. CASE \E r \in Read : ReadStep(r)
  BY <1>2, ReadStepKeeps
<1>3. CASE Enter
  BY <1>3, EnterStep
<1>4. CASE Resume
  BY <1>4, ResumeStep
<1>5. CASE Fail \/ PurgeFirst \/ PurgeCancels \/ Handle
  BY <1>5, DropStep
<1>6. CASE UNCHANGED vars
  BY <1>6, CaptureStutter
<1> QED BY <1>1, <1>2, <1>3, <1>4, <1>5, <1>6 DEF Next

-----------------------------------------------------------------------------

\* The invariant of the capture: the queue, the read that is awaited and the
\* kernel's buffer hold records in the order of capture, behind all that were
\* delivered, and lose none of those that fit before a purge orphans a read.
THEOREM CaptureSafe == Spec => []CaptureInv
<1>1. CaptureInv /\ [Next]_vars => CaptureInv'
  BY CaptureNext
<1> QED BY <1>1, CaptureInit, PTL DEF Spec

\* A captured packet that fits is lost only with a read that a purge orphaned or
\* with the reader itself (read_packet under the select! of reader_task), for any
\* number of threads and any sizes of the buffers.
THEOREM OnlyCancelLoses == Spec => []LossNeedsCancel
<1>1. CaptureInv => LossNeedsCancel
  <2> SUFFICES ASSUME CaptureInv, ~cancelled, pc # "dead" PROVE Fit \subseteq Accounted
    BY DEF LossNeedsCancel
  <2>1. Fit \subseteq Range(delivered) \cup Range(pending) \cup Range(Reading) \cup Range(kernel)
    BY DEF CaptureInv, LossInv
  <2>2. Range(delivered) \cup Range(pending) \cup Range(kernel) \subseteq Accounted
    BY DEF Accounted
  <2>3. Range(Reading) \subseteq Accounted
    <3>1. CASE awaited = NoRead
      BY <3>1, EmptyIs DEF Reading
    <3>2. CASE awaited # NoRead
      <4>1. awaited \in Read /\ Reading = got[awaited]
        BY <3>2 DEF CaptureInv, CaptureTypeOK, Reading
      <4> QED BY <4>1 DEF Accounted
    <3> QED BY <3>1, <3>2
  <2> QED BY <2>1, <2>2, <2>3
<1> QED BY <1>1, CaptureSafe, PTL

\* read_packet never reorders, repeats or makes up a packet, whatever purges and
\* orphaned reads do: the records delivered come in the order of capture.
THEOREM DeliveredInOrder == Spec => [](Increasing(delivered) /\ Range(delivered) \subseteq Record)
<1>1. CaptureInv => Increasing(delivered) /\ Range(delivered) \subseteq Record
  <2> SUFFICES ASSUME CaptureInv PROVE Increasing(delivered) /\ Range(delivered) \subseteq Record
    OBVIOUS
  <2>1. Increasing(delivered) /\ Range(delivered) \subseteq 1 .. Len(captured)
    BY DEF CaptureInv, FlowInv, Flow
  <2>2. Record = 1 .. Len(captured)
    BY DEF Record, CaptureInv, CaptureTypeOK
  <2> QED BY <2>1, <2>2
<1> QED BY <1>1, CaptureSafe, PTL

\* The capture implements the device that the stack expects (TunDevice), which may
\* lose packets and do nothing else to them.
THEOREM CaptureIsTunDevice == Spec => ImplementsTunDevice
<1>1. Init => Device!Init
  <2> SUFFICES ASSUME Init PROVE Device!Init
    OBVIOUS
  <2>1. FlowInv /\ Reading = <<>>
    BY CaptureInit DEF CaptureInv, Init, Reading
  <2>2. Receivable \in Seq(Nat) /\ Range(Receivable) = {}
    BY <2>1, ReceivableIs, EmptyIs DEF Open, Init
  <2>3. Receivable = <<>>
    <3>1. \A i \in DOMAIN Receivable : FALSE
      BY <2>2 DEF Range
    <3> QED BY <2>2, <3>1, EmptySeq, SMTT(30)
  <2> QED BY <2>3 DEF Device!Init, Init
<1>2. CaptureInv /\ [Next]_vars => [Device!Next]_Device!vars
  BY CaptureNext
<1> QED BY <1>1, <1>2, CaptureSafe, PTL DEF Spec, ImplementsTunDevice, Device!Spec

=============================================================================
