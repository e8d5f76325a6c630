--------------------------- MODULE SegmentsProofs ---------------------------
(***************************************************************************)
(* Proofs about Segments, for any number of workers, any size of the send  *)
(* buffer and any threshold.  OrderInv follows the number the sender has   *)
(* in hand.  LagInv bounds, for every number n that may become the newest  *)
(* acknowledgement, how many segments beyond it can still be taken before  *)
(* some worker acknowledges more than n.                                   *)
(***************************************************************************)
EXTENDS Segments, FiniteSetTheorems, TLAPS

Where == {"idle", "peek", "store", "build", "note", "number", "advance", "write", "try"}

SegmentsTypeOK ==
    /\ seq \in Nat /\ ack \in Nat /\ last_ack \in Nat
    /\ at \in [Task -> Where]
    /\ reg \in [Task -> Nat]
    /\ seen \in [Worker -> Nat]
    /\ used \in 0 .. SEND_BUFFER
    /\ wire \in Seq(Nat)
    /\ taken \in 0 .. MAX_SEGMENTS /\ noted \in Nat

\* Every acknowledgement is of a segment that a worker has taken, and last_ack,
\* wherever it was read, is no newer than the newest one sent.
NumbersInv ==
    /\ ack <= taken /\ noted <= taken /\ last_ack <= noted
    /\ \A w \in Worker : reg[w] <= taken /\ seen[w] <= noted
    /\ at[Sender] = "note" => reg[Sender] <= taken

\* The numbers on the wire are below the one in the sender's hand.
OrderInv ==
    /\ \A i \in DOMAIN wire : wire[i] < seq
    /\ at[Sender] = "advance" => reg[Sender] = seq
    /\ at[Sender] = "write" =>
          reg[Sender] < seq /\ \A i \in DOMAIN wire : wire[i] < reg[Sender]
    /\ DataInOrder

\* Worker w is about to store a number that is not beyond n, ...
IsBehind(w, n) == at[w] \in {"peek", "store"} /\ reg[w] <= n

\* ... or is bound to acknowledge a number beyond n, unless a worker that is behind
\* stores its own first.
IsAhead(w, n) ==
    \/ at[w] \in {"peek", "store"} /\ reg[w] > n + MAX_UNACKED_LEN
    \/ at[w] = "build" /\ ack > n
    \/ at[w] = "note" /\ reg[w] > n

Behind(n) == {w \in Worker : IsBehind(w, n)}
Ready(n) == {w \in Worker : ~IsBehind(w, n) /\ ~IsAhead(w, n)}

\* The workers R may each take one segment more; then every store of a worker of B
\* frees all workers that are not behind for one more.  With t segments taken, these
\* do not get further than 1 + 2 + ... + k beyond n + MAX_UNACKED_LEN.
Fits(t, n, B, R) ==
    LET k == Cardinality(Worker)
        h == Cardinality(B)
    IN  2 * (t - n - MAX_UNACKED_LEN) + 2 * Cardinality(R) + h * (2 * k - h + 1) <= k * (k + 1)

LagInv == \A n \in noted .. MAX_SEGMENTS : Fits(taken, n, Behind(n), Ready(n))

-----------------------------------------------------------------------------
\* Type correctness and the numbers.

LEMMA Bounds ==
    /\ MODULUS \in Nat /\ MAX_UNACKED_LEN \in Nat /\ SEND_BUFFER \in Nat /\ MAX_SEGMENTS \in Nat
    /\ MAX_SEGMENTS < MODULUS - MAX_UNACKED_LEN
BY SegmentsAssumption DEF SegmentsAssumption

LEMMA Tasks == Sender \in Task /\ Worker \subseteq Task /\ Sender \notin Worker
BY SegmentsAssumption DEF SegmentsAssumption, Task

LEMMA SegmentsTypeInit == Init => SegmentsTypeOK /\ NumbersInv /\ OrderInv
BY SegmentsAssumption
   DEF SegmentsAssumption, Init, SegmentsTypeOK, NumbersInv, OrderInv, DataInOrder, Task, Where

LEMMA GotoTyped ==
    ASSUME SegmentsTypeOK, NEW t \in Task, NEW where \in Where, NEW number \in Nat,
           Goto(t, where, number)
    PROVE  /\ at' \in [Task -> Where] /\ reg' \in [Task -> Nat]
           /\ at'[t] = where /\ reg'[t] = number
           /\ \A u \in Task \ {t} : at'[u] = at[u] /\ reg'[u] = reg[u]
BY DEF Goto, SegmentsTypeOK

LEMMA SegmentsTypeNext ==
    ASSUME SegmentsTypeOK, NumbersInv, [Next]_vars
    PROVE  SegmentsTypeOK' /\ NumbersInv'
<1> USE Bounds DEF numbers, device
<1>0. Sender \in Task /\ Worker \subseteq Task /\ Sender \notin Worker
  BY Tasks
<1>1. CASE Drain \/ WouldBlock \/ UNCHANGED vars
  BY <1>1, SMTT(30) DEF Drain, WouldBlock, vars, SegmentsTypeOK, NumbersInv
<1>2. ASSUME NEW t \in Task, LoadAck(t)
      PROVE  SegmentsTypeOK' /\ NumbersInv'
  <2>1. /\ at' \in [Task -> Where] /\ reg' \in [Task -> Nat] /\ reg'[t] = ack
        /\ \A u \in Task \ {t} : at'[u] = at[u] /\ reg'[u] = reg[u]
    BY <1>2, GotoTyped DEF LoadAck, SegmentsTypeOK, Where
  <2>2. UNCHANGED <<numbers, seen, device, taken, noted>>
    BY <1>2 DEF LoadAck
  <2>8. SegmentsTypeOK'
    BY <2>1, <2>2 DEF SegmentsTypeOK
  <2>9. NumbersInv'
    BY <1>0, <2>1, <2>2, Zenon DEF SegmentsTypeOK, NumbersInv
  <2> QED BY <2>8, <2>9
<1>3. ASSUME NEW t \in Task, StoreLastAck(t)
      PROVE  SegmentsTypeOK' /\ NumbersInv'
  <2>1. /\ at' \in [Task -> Where] /\ reg' \in [Task -> Nat] /\ reg'[t] = 0
        /\ at'[t] # "note" /\ \A u \in Task \ {t} : at'[u] = at[u] /\ reg'[u] = reg[u]
    BY <1>3, GotoTyped DEF StoreLastAck, Where
  <2>2. reg[t] \in Nat /\ reg[t] <= taken
    BY <1>3 DEF StoreLastAck, SegmentsTypeOK, NumbersInv, Task
  <2>3. noted' \in Nat /\ noted' <= taken /\ reg[t] <= noted' /\ noted <= noted'
    BY <1>3, <2>2 DEF StoreLastAck, Greater, SegmentsTypeOK, NumbersInv
  <2>4. last_ack' = reg[t] /\ UNCHANGED <<seq, ack, seen, device, taken>>
    BY <1>3 DEF StoreLastAck
  <2>8. SegmentsTypeOK'
    BY <1>0, <2>1, <2>2, <2>3, <2>4 DEF SegmentsTypeOK
  <2>9. NumbersInv'
    <3>1. ack' <= taken' /\ noted' <= taken' /\ last_ack' <= noted'
      BY <1>0, <2>1, <2>2, <2>3, <2>4 DEF SegmentsTypeOK, NumbersInv
    <3>2. ASSUME NEW v \in Worker PROVE reg'[v] <= taken' /\ seen'[v] <= noted'
      <4>1. reg[v] \in Nat /\ reg[v] <= taken /\ seen[v] \in Nat /\ seen[v] <= noted
        BY <1>0 DEF SegmentsTypeOK, NumbersInv
      <4> QED BY <4>1, <1>0, <2>1, <2>2, <2>3, <2>4, SMTT(30) DEF SegmentsTypeOK
    <3>3. at'[Sender] = "note" => reg'[Sender] <= taken'
      BY <1>0, <2>1, <2>2, <2>3, <2>4 DEF SegmentsTypeOK, NumbersInv
    <3> QED BY <3>1, <3>2, <3>3 DEF NumbersInv
  <2> QED BY <2>8, <2>9
<1>4. CASE Send \/ LoadSeq \/ FetchAdd \/ Write \/ WriteFails
  <2>1. /\ at' \in [Task -> Where] /\ reg' \in [Task -> Nat] /\ at'[Sender] # "note"
        /\ \A w \in Worker : at'[w] = at[w] /\ reg'[w] = reg[w]
    BY <1>0, <1>4, GotoTyped, SMTT(30) DEF Send, LoadSeq, FetchAdd, Write, WriteFails, SegmentsTypeOK, Where
  <2>2. seq' \in Nat
    BY <1>4 DEF Send, LoadSeq, FetchAdd, Write, WriteFails, Advanced, SegmentsTypeOK
  <2>3. wire' \in Seq(Nat) /\ used' \in 0 .. SEND_BUFFER
    <3>1. CASE Write
      <4>1. reg[Sender] \in Nat
        BY <1>0 DEF SegmentsTypeOK
      <4>2. wire' \in Seq(Nat)
        BY <3>1, <4>1 DEF Write, SegmentsTypeOK
      <4> QED BY <3>1, <4>2 DEF Write, Room, SegmentsTypeOK
    <3> QED BY <1>4, <3>1 DEF Send, LoadSeq, FetchAdd, WriteFails, SegmentsTypeOK
  <2>4. UNCHANGED <<ack, last_ack, seen, taken, noted>>
    BY <1>4 DEF Send, LoadSeq, FetchAdd, Write, WriteFails
  <2> QED BY <2>1, <2>2, <2>3, <2>4 DEF SegmentsTypeOK, NumbersInv
<1>5. ASSUME NEW w \in Worker, Take(w) \/ LoadLastAck(w) \/ TrySend(w)
      PROVE  SegmentsTypeOK' /\ NumbersInv'
  <2>1. /\ at' \in [Task -> Where] /\ reg' \in [Task -> Nat] /\ reg'[w] <= taken'
        /\ \A u \in Task \ {w} : at'[u] = at[u] /\ reg'[u] = reg[u]
    BY <1>0, <1>5, GotoTyped, SMTT(30) DEF Take, LoadLastAck, TrySend, SegmentsTypeOK, NumbersInv, Where
  <2>2. seen' \in [Worker -> Nat] /\ \A v \in Worker : seen'[v] <= noted
    BY <1>5, Zenon DEF Take, LoadLastAck, TrySend, SegmentsTypeOK, NumbersInv
  <2>3. used' \in 0 .. SEND_BUFFER /\ UNCHANGED <<numbers, wire, noted>>
    BY <1>5, SMTT(30) DEF Take, LoadLastAck, TrySend, Room, SegmentsTypeOK
  <2>4. taken' \in 0 .. MAX_SEGMENTS /\ taken <= taken'
    BY <1>5 DEF Take, LoadLastAck, TrySend, SegmentsTypeOK
  <2>8. SegmentsTypeOK'
    BY <1>0, <2>1, <2>2, <2>3, <2>4 DEF SegmentsTypeOK
  <2>9. NumbersInv'
    <3>1. ack' <= taken' /\ noted' <= taken' /\ last_ack' <= noted'
      BY <1>0, <2>1, <2>2, <2>3, <2>4 DEF SegmentsTypeOK, NumbersInv
    <3>2. ASSUME NEW v \in Worker PROVE reg'[v] <= taken' /\ seen'[v] <= noted'
      <4>1. reg[v] \in Nat /\ reg[v] <= taken /\ seen[v] \in Nat /\ seen[v] <= noted
        BY <1>0 DEF SegmentsTypeOK, NumbersInv
      <4>2. reg'[v] <= taken'
        <5>1. CASE v = w
          BY <2>1, <5>1
        <5>2. CASE v # w
          BY <1>0, <2>1, <2>4, <4>1, <5>2 DEF SegmentsTypeOK
        <5> QED BY <5>1, <5>2
      <4> QED BY <2>2, <2>3, <4>2
    <3>3. at'[Sender] = "note" => reg'[Sender] <= taken'
      BY <1>0, <2>1, <2>2, <2>3, <2>4 DEF SegmentsTypeOK, NumbersInv
    <3> QED BY <3>1, <3>2, <3>3 DEF NumbersInv
  <2> QED BY <2>8, <2>9
<1>6. ASSUME NEW w \in Worker, StoreAck(w)
      PROVE  SegmentsTypeOK' /\ NumbersInv'
  <2>1. /\ at' \in [Task -> Where] /\ reg' \in [Task -> Nat] /\ reg'[w] = 0
        /\ \A u \in Task \ {w} : at'[u] = at[u] /\ reg'[u] = reg[u]
    BY <1>0, <1>6, GotoTyped DEF StoreAck, Where
  <2>2. seen' \in [Worker -> Nat] /\ \A v \in Worker : seen'[v] <= noted
    BY <1>6 DEF StoreAck, SegmentsTypeOK, NumbersInv
  <2>3. ack' = reg[w] /\ UNCHANGED <<seq, last_ack, device, taken, noted>>
    BY <1>6 DEF StoreAck
  <2>8. SegmentsTypeOK'
    BY <1>0, <2>1, <2>2, <2>3 DEF SegmentsTypeOK
  <2>9. NumbersInv'
    <3>1. ack' <= taken' /\ noted' <= taken' /\ last_ack' <= noted'
      BY <1>0, <2>1, <2>2, <2>3 DEF SegmentsTypeOK, NumbersInv
    <3>2. ASSUME NEW v \in Worker PROVE reg'[v] <= taken' /\ seen'[v] <= noted'
      <4>1. reg[v] \in Nat /\ reg[v] <= taken /\ seen[v] \in Nat /\ seen[v] <= noted
        BY <1>0 DEF SegmentsTypeOK, NumbersInv
      <4>2. reg'[v] <= taken'
        <5>1. CASE v = w
          BY <1>0, <2>1, <2>3, <5>1 DEF SegmentsTypeOK
        <5>2. CASE v # w
          BY <1>0, <2>1, <2>3, <4>1, <5>2
        <5> QED BY <5>1, <5>2
      <4> QED BY <2>2, <2>3, <4>2
    <3>3. at'[Sender] = "note" => reg'[Sender] <= taken'
      BY <1>0, <2>1, <2>2, <2>3 DEF SegmentsTypeOK, NumbersInv
    <3> QED BY <3>1, <3>2, <3>3 DEF NumbersInv
  <2> QED BY <2>8, <2>9
<1> QED BY <1>0, <1>1, <1>2, <1>3, <1>4, <1>5, <1>6 DEF Next, SenderStep, WorkerStep

LEMMA NumbersHold == Spec => [](SegmentsTypeOK /\ NumbersInv)
<1>1. SegmentsTypeOK /\ NumbersInv /\ [Next]_vars => (SegmentsTypeOK /\ NumbersInv)'
  BY SegmentsTypeNext
<1> QED BY <1>1, SegmentsTypeInit, PTL DEF Spec

-----------------------------------------------------------------------------
\* The numbers of the datagrams.

LEMMA OrderNext ==
    ASSUME SegmentsTypeOK, OrderInv, [Next]_vars
    PROVE  OrderInv'
<1> USE DEF numbers, device
<1>1. CASE FetchAdd
  <2>1. at'[Sender] = "write" /\ reg'[Sender] = reg[Sender] /\ at[Sender] = "advance"
    BY <1>1, Tasks, GotoTyped DEF FetchAdd, SegmentsTypeOK, Where
  <2>2. seq' = seq + 1 /\ wire' = wire
    BY <1>1 DEF FetchAdd, Advanced
  <2>3. \A i \in DOMAIN wire : wire[i] \in Nat
    BY DEF SegmentsTypeOK
  <2> QED BY <2>1, <2>2, <2>3 DEF OrderInv, DataInOrder, SegmentsTypeOK
<1>2. CASE Write
  <2>1. at'[Sender] = "idle" /\ at[Sender] = "write" /\ seq' = seq
    BY <1>2, Tasks, GotoTyped DEF Write, SegmentsTypeOK, Where
  <2>2. reg[Sender] \in Nat /\ wire \in Seq(Nat) /\ wire' = Append(wire, reg[Sender])
    BY <1>2, Tasks DEF Write, SegmentsTypeOK
  <2>3. /\ DOMAIN wire' = 1 .. Len(wire) + 1 /\ DOMAIN wire = 1 .. Len(wire) /\ Len(wire) \in Nat
        /\ wire'[Len(wire) + 1] = reg[Sender]
        /\ \A i \in 1 .. Len(wire) : wire'[i] = wire[i]
    BY <2>2
  <2>4. reg[Sender] < seq /\ \A i \in DOMAIN wire : wire[i] < reg[Sender] /\ wire[i] < seq
    BY <2>1 DEF OrderInv
  <2>5. \A i \in DOMAIN wire' : wire'[i] < seq
    BY <2>3, <2>4
  <2>6. \A i, j \in DOMAIN wire' : i < j => wire'[i] < wire'[j]
    BY <2>3, <2>4 DEF OrderInv, DataInOrder
  <2> QED BY <2>1, <2>5, <2>6 DEF OrderInv, DataInOrder
<1>3. CASE LoadSeq
  <2>1. at'[Sender] = "advance" /\ reg'[Sender] = seq /\ seq' = seq /\ wire' = wire
    BY <1>3, Tasks, GotoTyped DEF LoadSeq, SegmentsTypeOK, Where
  <2> QED BY <2>1 DEF OrderInv, DataInOrder
<1>4. CASE /\ UNCHANGED <<seq, wire>>
           /\ at'[Sender] \notin {"advance", "write"} \/ UNCHANGED <<at[Sender], reg[Sender]>>
  BY <1>4 DEF OrderInv, DataInOrder
<1>5. CASE Send \/ WriteFails
  BY <1>4, <1>5, Tasks, GotoTyped, Zenon DEF Send, WriteFails, SegmentsTypeOK, Where
<1>6. CASE Drain \/ WouldBlock \/ UNCHANGED vars
  BY <1>4, <1>6 DEF Drain, WouldBlock, vars
<1>7. ASSUME NEW t \in Task, LoadAck(t) \/ StoreLastAck(t)
      PROVE  OrderInv'
  <2>1. PICK where \in {"note", "number", "try"}, number \in Nat : Goto(t, where, number)
    BY <1>7 DEF LoadAck, StoreLastAck, SegmentsTypeOK
  <2>2. /\ at'[t] = where
        /\ \A u \in Task \ {t} : at'[u] = at[u] /\ reg'[u] = reg[u]
    BY <2>1, GotoTyped DEF Where
  <2>3. UNCHANGED <<seq, wire>>
    BY <1>7 DEF LoadAck, StoreLastAck
  <2> QED BY <1>4, <2>2, <2>3, Tasks
<1>8. ASSUME NEW w \in Worker, Take(w) \/ LoadLastAck(w) \/ StoreAck(w) \/ TrySend(w)
      PROVE  OrderInv'
  <2>1. PICK where \in Where, number \in Nat : Goto(w, where, number)
    BY <1>8, Tasks DEF Take, LoadLastAck, StoreAck, TrySend, SegmentsTypeOK, Where
  <2>2. UNCHANGED <<at[Sender], reg[Sender]>>
    BY <2>1, GotoTyped, Tasks
  <2>3. UNCHANGED <<seq, wire>>
    BY <1>8 DEF Take, LoadLastAck, StoreAck, TrySend
  <2> QED BY <1>4, <2>2, <2>3
<1> QED BY <1>1, <1>2, <1>3, <1>5, <1>6, <1>7, <1>8, Tasks DEF Next, SenderStep, WorkerStep

\* No two datagrams go out under one number, and numbers only grow, whatever the
\* workers store between the sender's steps and whatever writes fail.
THEOREM DataAlwaysInOrder == Spec => []DataInOrder
<1>1. SegmentsTypeOK /\ OrderInv /\ [Next]_vars => OrderInv'
  BY OrderNext
<1>2. OrderInv => DataInOrder
  BY DEF OrderInv
<1> QED BY <1>1, <1>2, SegmentsTypeInit, NumbersHold, PTL DEF Spec

\* No packet acknowledges a segment that no worker has taken.
AcksTaken == noted <= taken /\ last_ack <= taken /\ ack <= taken

THEOREM OnlyTakenIsAcked == Spec => []AcksTaken
<1>1. SegmentsTypeOK /\ NumbersInv => AcksTaken
  BY DEF SegmentsTypeOK, NumbersInv, AcksTaken
<1> QED BY <1>1, NumbersHold, PTL

-----------------------------------------------------------------------------
\* How many segments fit before one beyond n is acknowledged.

LEMMA Counts ==
    ASSUME NEW B \in SUBSET Worker, NEW R \in SUBSET Worker, B \cap R = {}
    PROVE  /\ Cardinality(Worker) \in Nat /\ Cardinality(B) \in Nat /\ Cardinality(R) \in Nat
           /\ Cardinality(B) + Cardinality(R) <= Cardinality(Worker)
<1>1. IsFiniteSet(Worker) /\ IsFiniteSet(B) /\ IsFiniteSet(R)
  BY SegmentsAssumption, FS_Subset DEF SegmentsAssumption
<1>2. Cardinality(Worker) \in Nat /\ Cardinality(B) \in Nat /\ Cardinality(R) \in Nat
  BY <1>1, FS_CardinalityType
<1>3. Cardinality(B \cup R) = Cardinality(B) + Cardinality(R) - Cardinality(B \cap R)
  BY <1>1, FS_Union
<1>4. Cardinality(B \cap R) = 0
  BY FS_EmptySet
<1>5. Cardinality(B \cup R) <= Cardinality(Worker)
  BY <1>1, FS_Subset
<1> QED BY <1>2, <1>3, <1>4, <1>5

\* Before a segment beyond n + MAX_UNACKED_LEN is taken, any state fits.
LEMMA FitsEarly ==
    ASSUME NEW B \in SUBSET Worker, NEW R \in SUBSET Worker, B \cap R = {},
           NEW t \in Nat, NEW n \in Nat, t <= n + MAX_UNACKED_LEN
    PROVE  Fits(t, n, B, R)
<1> DEFINE k == Cardinality(Worker)
           h == Cardinality(B)
           r == Cardinality(R)
           g == k - h
<1>1. k \in Nat /\ h \in Nat /\ r \in Nat /\ r <= g /\ g \in Nat /\ h = k - g
  BY Counts
<1>2. 2 * (t - n - MAX_UNACKED_LEN) <= 0
  BY Bounds
<1> SUFFICES 2 * r + h * (2 * k - h + 1) <= k * (k + 1)
  BY <1>1, <1>2, Bounds DEF Fits
<1> HIDE DEF k, h, r, g
<1>3. h * (2 * k - h + 1) = (k - g) * (k + g + 1)
  BY <1>1
<1>4. (k - g) * (k + g + 1) = k * (k + 1) - g * g - g
  BY <1>1
<1>5. g <= g * g
  BY <1>1
<1> QED BY <1>1, <1>3, <1>4, <1>5

LEMMA FitsFewer ==
    ASSUME NEW B \in SUBSET Worker, NEW R \in SUBSET Worker, NEW Q \in SUBSET R, B \cap R = {},
           NEW t \in Nat, NEW n \in Nat, Fits(t, n, B, R)
    PROVE  Fits(t, n, B, Q)
<1>1. Cardinality(Q) <= Cardinality(R) /\ Cardinality(Q) \in Nat /\ Cardinality(R) \in Nat
      /\ Cardinality(B) \in Nat /\ Cardinality(Worker) \in Nat
  BY Counts, FS_Subset, SegmentsAssumption, Zenon DEF SegmentsAssumption
<1> QED BY <1>1, Bounds DEF Fits

\* A segment is taken.
LEMMA FitsTake ==
    ASSUME NEW B \in SUBSET Worker, NEW R \in SUBSET Worker, NEW w \in R, B \cap R = {},
           NEW t \in Nat, NEW n \in Nat, Fits(t, n, B, R)
    PROVE  Fits(t + 1, n, B, R \ {w})
<1>1. IsFiniteSet(R)
  BY FS_Subset, SegmentsAssumption DEF SegmentsAssumption
<1>2. Cardinality(R \ {w}) = Cardinality(R) - 1
  BY <1>1, FS_RemoveElement, Zenon
<1>3. Cardinality(R) \in Nat /\ Cardinality(B) \in Nat /\ Cardinality(Worker) \in Nat
  BY Counts, Zenon
<1> QED BY <1>2, <1>3, Bounds DEF Fits

\* A worker that is behind stores its number, and any worker may go on.
LEMMA FitsStore ==
    ASSUME NEW B \in SUBSET Worker, NEW R \in SUBSET Worker, B \cap R = {},
           NEW w \in B, NEW Q \in SUBSET Worker, (B \ {w}) \cap Q = {},
           NEW t \in Nat, NEW n \in Nat, Fits(t, n, B, R)
    PROVE  Fits(t, n, B \ {w}, Q)
<1> DEFINE k == Cardinality(Worker)
           h == Cardinality(B)
           b == 2 * (t - n - MAX_UNACKED_LEN)
<1>0. b \in Int
  BY Bounds
<1>1. k \in Nat /\ h \in Nat /\ Cardinality(R) \in Nat
  BY Counts
<1>2. Cardinality(B \ {w}) = h - 1
  BY FS_Subset, FS_RemoveElement, SegmentsAssumption DEF SegmentsAssumption
<1>3. B \ {w} \in SUBSET Worker
  OBVIOUS
<1>4. Cardinality(B \ {w}) + Cardinality(Q) <= k /\ Cardinality(Q) \in Nat
  BY <1>3, Counts, Zenon
<1>5. Cardinality(Q) <= k - h + 1
  BY <1>1, <1>2, <1>4
<1>6. b + 2 * Cardinality(R) + h * (2 * k - h + 1) <= k * (k + 1)
  BY DEF Fits
<1> SUFFICES b + 2 * Cardinality(Q) + (h - 1) * (2 * k - (h - 1) + 1) <= k * (k + 1)
  BY <1>2 DEF Fits
<1> HIDE DEF k, h, b
<1>7. (h - 1) * (2 * k - (h - 1) + 1) = h * (2 * k - h + 1) - 2 * (k - h + 1)
  BY <1>1
<1> QED BY <1>0, <1>1, <1>4, <1>5, <1>6, <1>7

-----------------------------------------------------------------------------
\* The workers.

LEMMA LagInit ==
    ASSUME Init
    PROVE  LagInv
<1> SUFFICES ASSUME NEW n \in 0 .. MAX_SEGMENTS
             PROVE  Fits(0, n, Behind(n), Ready(n))
  BY DEF Init, LagInv
<1>1. Behind(n) \cap Ready(n) = {}
  BY DEF Behind, Ready
<1> QED BY <1>1, FitsEarly, Bounds DEF Behind, Ready

\* A segment more than MAX_UNACKED_LEN beyond the last_ack that was read is told
\* apart, for the difference does not wrap around.
LEMMA FarIsTooFar ==
    ASSUME SegmentsTypeOK, NumbersInv, NEW w \in Worker, reg[w] > noted + MAX_UNACKED_LEN
    PROVE  TooFar(w)
<1>1. reg[w] \in Nat /\ seen[w] \in Nat /\ seen[w] <= noted /\ reg[w] <= MAX_SEGMENTS /\ noted \in Nat
  BY Tasks, Bounds DEF SegmentsTypeOK, NumbersInv
<1>2. reg[w] - seen[w] \in Nat /\ reg[w] - seen[w] > MAX_UNACKED_LEN /\ reg[w] - seen[w] < MODULUS
  BY <1>1, Bounds
<1>3. \A d \in Nat : d < MODULUS => d % MODULUS = d
  BY Bounds
<1>4. (reg[w] - seen[w]) % MODULUS = reg[w] - seen[w]
  BY <1>2, <1>3
<1> QED BY <1>2, <1>4 DEF TooFar

LEMMA LagNext ==
    ASSUME SegmentsTypeOK, NumbersInv, LagInv, [Next]_vars
    PROVE  LagInv'
<1> USE DEF numbers, device
<1> SUFFICES ASSUME NEW n \in noted' .. MAX_SEGMENTS
             PROVE  Fits(taken', n, Behind(n)', Ready(n)')
  BY DEF LagInv
<1>1. noted' \in Nat /\ noted <= noted'
  BY Tasks, SMTT(30) DEF Next, SenderStep, WorkerStep, Drain, Send, LoadAck, StoreLastAck, LoadSeq, FetchAdd,
     Write, WouldBlock, WriteFails, Take, LoadLastAck, StoreAck, TrySend, vars, Greater, SegmentsTypeOK
<1>2. n \in Nat /\ noted <= n /\ noted' <= n /\ n <= MAX_SEGMENTS
  BY <1>1, Bounds DEF SegmentsTypeOK
<1>3. Fits(taken, n, Behind(n), Ready(n))
  BY <1>2, Bounds DEF LagInv, SegmentsTypeOK
<1>4. /\ Behind(n) \in SUBSET Worker /\ Ready(n) \in SUBSET Worker /\ Behind(n) \cap Ready(n) = {}
      /\ Behind(n)' \in SUBSET Worker /\ Ready(n)' \in SUBSET Worker /\ Behind(n)' \cap Ready(n)' = {}
  BY DEF Behind, Ready
<1>5. ASSUME taken' = taken,
             \A v \in Worker : /\ IsBehind(v, n)' <=> IsBehind(v, n)
                               /\ IsAhead(v, n) => IsAhead(v, n)'
      PROVE  Fits(taken', n, Behind(n)', Ready(n)')
  <2>1. Behind(n)' = Behind(n) /\ Ready(n)' \in SUBSET Ready(n)
    BY <1>5 DEF Behind, Ready
  <2> QED BY <1>2, <1>3, <1>4, <1>5, <2>1, FitsFewer DEF SegmentsTypeOK
<1>6. CASE UNCHANGED <<ack, taken>> /\ \A v \in Worker : UNCHANGED <<at[v], reg[v]>>
  BY <1>5, <1>6 DEF IsBehind, IsAhead
<1>7. CASE Drain \/ WouldBlock \/ UNCHANGED vars
  BY <1>6, <1>7 DEF Drain, WouldBlock, vars
<1>8. CASE Send \/ LoadSeq \/ FetchAdd \/ Write \/ WriteFails \/ LoadAck(Sender) \/ StoreLastAck(Sender)
  <2>1. PICK where \in Where, number \in Nat : Goto(Sender, where, number)
    BY <1>8, Tasks DEF Send, LoadSeq, FetchAdd, Write, WriteFails, LoadAck, StoreLastAck, SegmentsTypeOK, Where
  <2>2. \A v \in Worker : UNCHANGED <<at[v], reg[v]>>
    BY <2>1, GotoTyped, Tasks, Zenon
  <2>3. UNCHANGED <<ack, taken>>
    BY <1>8, Zenon DEF Send, LoadSeq, FetchAdd, Write, WriteFails, LoadAck, StoreLastAck
  <2> QED BY <1>6, <2>2, <2>3
<1>9. ASSUME NEW w \in Worker, LoadLastAck(w) \/ LoadAck(w) \/ StoreLastAck(w) \/ TrySend(w)
      PROVE  Fits(taken', n, Behind(n)', Ready(n)')
  <2>1. PICK where \in Where, number \in Nat : Goto(w, where, number)
    BY <1>9, Tasks, Zenon DEF LoadLastAck, LoadAck, StoreLastAck, TrySend, SegmentsTypeOK, Where
  <2>2. \A v \in Worker \ {w} : UNCHANGED <<at[v], reg[v]>>
    BY <2>1, GotoTyped, Tasks
  <2>3. UNCHANGED <<ack, taken>>
    BY <1>9, Zenon DEF LoadLastAck, LoadAck, StoreLastAck, TrySend
  <2>4. \A v \in Worker \ {w} : (IsBehind(v, n)' <=> IsBehind(v, n)) /\ (IsAhead(v, n)' <=> IsAhead(v, n))
    BY <2>2, <2>3 DEF IsBehind, IsAhead
  <2>5. (IsBehind(w, n)' <=> IsBehind(w, n)) /\ (IsAhead(w, n) => IsAhead(w, n)')
    <3>1. CASE LoadLastAck(w)
      <4>1. at[w] = "peek" /\ at'[w] = "store" /\ reg'[w] = reg[w]
        BY <3>1, Tasks, GotoTyped, Zenon DEF LoadLastAck, SegmentsTypeOK, Where
      <4> QED BY <4>1 DEF IsBehind, IsAhead
    <3>2. CASE LoadAck(w)
      <4>1. at[w] = "build" /\ at'[w] = "note" /\ reg'[w] = ack
        BY <3>2, Tasks, GotoTyped, Zenon DEF LoadAck, SegmentsTypeOK, Where
      <4> QED BY <4>1, Zenon DEF IsBehind, IsAhead
    <3>3. CASE StoreLastAck(w)
      <4>1. at[w] = "note" /\ at'[w] = "try"
        BY <3>3, Tasks, GotoTyped, Zenon DEF StoreLastAck, SegmentsTypeOK, Where
      <4>2. reg[w] \in Nat /\ reg[w] <= noted'
        BY <3>3, Tasks DEF StoreLastAck, Greater, SegmentsTypeOK
      <4>3. ~(reg[w] > n)
        BY <1>1, <1>2, <4>2
      <4> QED BY <4>1, <4>3 DEF IsBehind, IsAhead
    <3>4. CASE TrySend(w)
      <4>1. at[w] = "try" /\ at'[w] = "idle"
        BY <3>4, Tasks, GotoTyped, Zenon DEF TrySend, SegmentsTypeOK, Where
      <4> QED BY <4>1 DEF IsBehind, IsAhead
    <3> QED BY <1>9, <3>1, <3>2, <3>3, <3>4
  <2> QED BY <1>5, <2>3, <2>4, <2>5
<1>10. ASSUME NEW w \in Worker, Take(w)
       PROVE  Fits(taken', n, Behind(n)', Ready(n)')
  <2>1. /\ at[w] = "idle" /\ at'[w] = "peek" /\ reg'[w] = taken + 1
        /\ \A v \in Worker \ {w} : UNCHANGED <<at[v], reg[v]>>
    BY <1>10, Tasks, GotoTyped, SMTT(30) DEF Take, SegmentsTypeOK, Where
  <2>2. taken' = taken + 1 /\ ack' = ack /\ taken \in Nat
    BY <1>10, Bounds DEF Take, SegmentsTypeOK
  <2>3. CASE taken + 1 <= n + MAX_UNACKED_LEN
    BY <1>2, <1>4, <2>2, <2>3, FitsEarly
  <2>4. CASE taken + 1 > n + MAX_UNACKED_LEN
    <3>1. \A v \in Worker \ {w} : (IsBehind(v, n)' <=> IsBehind(v, n)) /\ (IsAhead(v, n)' <=> IsAhead(v, n))
      BY <2>1, <2>2 DEF IsBehind, IsAhead
    <3>2. ~IsBehind(w, n) /\ ~IsAhead(w, n)
      BY <2>1 DEF IsBehind, IsAhead
    <3>3. taken + 1 > n
      BY <1>2, <2>2, <2>4, Bounds
    <3>4. ~IsBehind(w, n)' /\ IsAhead(w, n)'
      BY <1>2, <2>1, <2>2, <2>4, <3>3 DEF IsBehind, IsAhead
    <3>5. Behind(n)' = Behind(n) /\ Ready(n)' = Ready(n) \ {w} /\ w \in Ready(n)
      BY <3>1, <3>2, <3>4 DEF Behind, Ready
    <3> QED BY <1>2, <1>3, <1>4, <2>2, <3>5, FitsTake
  <2> QED BY <1>2, <2>2, <2>3, <2>4, Bounds
<1>11. ASSUME NEW w \in Worker, StoreAck(w)
       PROVE  Fits(taken', n, Behind(n)', Ready(n)')
  <2>1. /\ at[w] = "store" /\ at'[w] = (IF TooFar(w) THEN "build" ELSE "idle")
        /\ \A v \in Worker \ {w} : UNCHANGED <<at[v], reg[v]>>
    BY <1>11, Tasks, GotoTyped, Zenon DEF StoreAck, Where
  <2>2. ack' = reg[w] /\ taken' = taken /\ taken \in Nat /\ reg[w] \in Nat
    BY <1>11, Tasks, Bounds DEF StoreAck, SegmentsTypeOK
  <2>3. \A v \in Worker \ {w} : IsBehind(v, n)' <=> IsBehind(v, n)
    BY <2>1 DEF IsBehind
  <2>4. ~IsBehind(w, n)'
    BY <2>1 DEF IsBehind
  <2>5. CASE reg[w] <= n
    <3>1. w \in Behind(n) /\ Behind(n)' = Behind(n) \ {w}
      BY <2>1, <2>3, <2>4, <2>5, Zenon DEF Behind, IsBehind
    <3> QED BY <1>2, <1>3, <1>4, <2>2, <3>1, FitsStore
  <2>6. CASE reg[w] > n
    <3>1. \A v \in Worker \ {w} : IsAhead(v, n) => IsAhead(v, n)'
      BY <2>1, <2>2, <2>6 DEF IsAhead
    <3>2. IsAhead(w, n) => IsAhead(w, n)'
      <4>1. SUFFICES ASSUME IsAhead(w, n) PROVE IsAhead(w, n)'
        OBVIOUS
      <4>2. reg[w] > n + MAX_UNACKED_LEN
        BY <2>1, <4>1 DEF IsAhead
      <4>3. reg[w] > noted + MAX_UNACKED_LEN
        BY <1>2, <2>2, <4>2, Bounds DEF SegmentsTypeOK
      <4> QED BY <2>1, <2>2, <2>6, <4>3, FarIsTooFar DEF IsAhead
    <3>3. ~IsBehind(w, n)
      BY <1>2, <2>2, <2>6 DEF IsBehind
    <3> QED BY <1>5, <2>2, <2>3, <2>4, <3>1, <3>2, <3>3
  <2> QED BY <1>2, <2>2, <2>5, <2>6
<1> QED BY <1>7, <1>8, <1>9, <1>10, <1>11 DEF Next, SenderStep, WorkerStep

\* However the steps of the workers and of the sender fall, the numbers taken run
\* ahead of the newest acknowledgement by no more than MAX_UNACKED_LEN and
\* 1 + 2 + ... + k segments, for any number k of workers.
THEOREM UnackedAlwaysBounded == Spec => []UnackedBounded
<1>1. Init => LagInv
  BY LagInit
<1>2. SegmentsTypeOK /\ NumbersInv /\ LagInv /\ [Next]_vars => LagInv'
  BY LagNext
<1>3. SegmentsTypeOK /\ NumbersInv /\ LagInv => UnackedBounded
  <2> SUFFICES ASSUME SegmentsTypeOK, NumbersInv, LagInv PROVE UnackedBounded
    OBVIOUS
  <2> DEFINE k == Cardinality(Worker)
             h == Cardinality(Behind(noted))
             r == Cardinality(Ready(noted))
  <2>1. noted \in Nat /\ taken \in Nat /\ noted <= MAX_SEGMENTS
    BY Bounds DEF SegmentsTypeOK, NumbersInv
  <2>2. Fits(taken, noted, Behind(noted), Ready(noted))
    BY <2>1, Bounds DEF LagInv
  <2>3. k \in Nat /\ h \in Nat /\ r \in Nat /\ h + r <= k
    <3>1. Behind(noted) \in SUBSET Worker /\ Ready(noted) \in SUBSET Worker /\ Behind(noted) \cap Ready(noted) = {}
      BY DEF Behind, Ready
    <3> QED BY <3>1, Counts
  <2>4. 2 * (taken - noted - MAX_UNACKED_LEN) + 2 * r + h * (2 * k - h + 1) <= k * (k + 1)
    BY <2>2 DEF Fits
  <2> SUFFICES 2 * (taken - noted - MAX_UNACKED_LEN) <= k * (k + 1)
    BY DEF UnackedBounded
  <2> HIDE DEF k, h, r
  <2>5. 2 * k - h + 1 \in Nat
    BY <2>3
  <2>6. h * (2 * k - h + 1) >= 0 /\ h * (2 * k - h + 1) \in Int /\ k * (k + 1) \in Int
    BY <2>3, <2>5
  <2> QED BY <2>1, <2>3, <2>4, <2>6, Bounds
<1> QED BY <1>1, <1>2, <1>3, NumbersHold, PTL DEF Spec

=============================================================================
