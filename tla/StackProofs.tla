---------------------------- MODULE StackProofs ----------------------------
(***************************************************************************)
(* Proofs of the safety properties of Stack, for any sockets, ports, peers *)
(* and capacities.                                                         *)
(*                                                                         *)
(* RefsInv holds for any number of readers and gives NoMisdelivery: every  *)
(* reference to a socket, in the table, in a cache or in a reader's hand,  *)
(* is to a socket of that tuple.  TableInv and StaleIsPurged are about the *)
(* insertions into the table; they need that no two of them race (NoRace). *)
(***************************************************************************)
EXTENDS Stack, TLAPS

Registered == Live \cup {"unwinding"}
AnyState == Registered \cup {"removed", "purged", "closed"}

StackTypeOK ==
    /\ tuples \in [Tuple -> Socket \cup {NoSocket}]
    /\ ready \in Seq(Socket)
    /\ state \in [Socket -> AnyState]
    /\ tupleOf \in [Socket -> Tuple \cup {NoTuple}]
    /\ incoming \in [Socket -> Seq(Tuple)]
    /\ probe \in Port \cup {NoPort}
    /\ cache \in [Reader -> [Tuple -> Sender \cup {NoSocket}]]
    /\ purge \in [Reader -> Seq(Tuple)]
    /\ lagged \in [Reader -> BOOLEAN]
    /\ pc \in [Reader -> {"select", "hit", "miss", "accept", "dead"}]
    /\ dest \in [Reader -> Tuple \cup {NoTuple}]
    /\ target \in [Reader -> Sender \cup {NoSocket}]

\* The channel of accepted sockets holds each socket that waits in it once.
QueueInv ==
    /\ \A k \in 1 .. Len(ready) : state[ready[k]] = "ready"
    /\ \A k, m \in 1 .. Len(ready) : k # m => ready[k] # ready[m]

\* Who refers to a socket refers to one that is not yet destroyed, by its tuple.
RefsInv ==
    /\ \A t \in Tuple, s \in Socket : tuples[t] = s => tupleOf[s] = t /\ state[s] \in Registered
    /\ \A r \in Reader, t \in Tuple, s \in Socket :
          cache[r][t] = s => tupleOf[s] = t /\ state[s] # "closed"
    /\ \A r \in Reader, s \in Socket :
          target[r] = s => tupleOf[s] = dest[r] /\ state[s] # "closed"
    /\ \A s \in Socket : IF state[s] = "closed" THEN incoming[s] = <<>> ELSE tupleOf[s] \in Tuple

\* What a reader has in hand at its awaits.
HandInv ==
    \A r \in Reader :
        /\ pc[r] \in {"hit", "miss"} => target[r] \in Sender /\ dest[r] \in Tuple
        /\ pc[r] = "accept" => dest[r] \in Peer

CoreInv == StackTypeOK /\ QueueInv /\ RefsInv /\ HandInv /\ NoMisdelivery

\* No two insertions can meet: nobody connects to us, as in the client, which
\* never listens; or there is one reader, as main creates, and the port listened
\* on is no ephemeral one (or no peer is the server we connect to).
NoRace == Peer = {} \/ ((\A r, q \in Reader : r = q) /\ Peer \cap Port = {})

\* The lookup of the passive open is still right when it inserts.
TableInv ==
    /\ TableMatchesSockets
    /\ \A s \in Socket : state[s] # "unwinding"
    /\ \A r \in Reader : pc[r] = "accept" => tuples[dest[r]] = NoSocket
    /\ \A r \in Reader, t \in Tuple : pc[r] = "dead" => cache[r][t] = NoSocket

-----------------------------------------------------------------------------
(* Types *)

LEMMA StackTypeInit == Init => StackTypeOK
BY StackAssumption DEF StackAssumption, Init, StackTypeOK, AnyState, Registered, Live, Sender

LEMMA SocketTypes ==
    ASSUME CoreInv, NEW s \in Socket, SocketStep(s)
    PROVE  StackTypeOK'
<1> USE DEF CoreInv, StackTypeOK, AnyState, Registered, Live, readerVars, socketVars, connectVars
<1>1. CASE ProbeFree(s)
  <2>1. probe \in Tuple
    BY <1>1 DEF ProbeFree, Tuple
  <2>2. /\ tuples' \in [Tuple -> Socket \cup {NoSocket}]
        /\ state' \in [Socket -> AnyState]
        /\ tupleOf' \in [Socket -> Tuple \cup {NoTuple}]
        /\ UNCHANGED <<ready, incoming, cache, purge, lagged, pc, dest, target>>
        /\ probe' = NoPort
    BY <1>1, <2>1 DEF ProbeFree, Register, Inserted
  <2> QED BY <2>2
<1>2. CASE Established(s)
  BY <1>2 DEF Established
<1>3. CASE AcceptEstablished(s)
  BY <1>3 DEF AcceptEstablished
<1>4. CASE HandOver(s)
  <2>1. ready' \in Seq(Socket) /\ state' \in [Socket -> AnyState]
    BY <1>4 DEF HandOver
  <2> QED BY <1>4, <2>1 DEF HandOver
<1>5. CASE Recv(s)
  <2>1. incoming' \in [Socket -> Seq(Tuple)]
    BY <1>5 DEF Recv
  <2> QED BY <1>5, <2>1 DEF Recv
<1>6. CASE DropRemove(s)
  BY <1>6, Zenon DEF DropRemove
<1>7. CASE DropPurge(s)
  <2>1. tupleOf[s] \in Tuple
    BY <1>7 DEF DropPurge, RefsInv
  <2>2. \A r \in Reader : Broadcast(r, tupleOf[s]) \in Seq(Tuple)
    BY <2>1, StackAssumption DEF Broadcast, StackAssumption
  <2> QED BY <1>7, <2>2 DEF DropPurge
<1>8. CASE DropFields(s)
  <2>1. cache' \in [Reader -> [Tuple -> Sender \cup {NoSocket}]]
    BY <1>8 DEF DropFields, Sender
  <2>2. target' \in [Reader -> Sender \cup {NoSocket}]
    BY <1>8 DEF DropFields, Sender
  <2>3. incoming' \in [Socket -> Seq(Tuple)]
    BY <1>8 DEF DropFields
  <2> QED BY <1>8, <2>1, <2>2, <2>3 DEF DropFields
<1> QED BY <1>1, <1>2, <1>3, <1>4, <1>5, <1>6, <1>7, <1>8, Zenon DEF SocketStep

LEMMA DieTypes ==
    ASSUME StackTypeOK, NEW r \in Reader, NEW site, Die(r, site)
    PROVE  /\ cache' \in [Reader -> [Tuple -> Sender \cup {NoSocket}]]
           /\ purge' \in [Reader -> Seq(Tuple)]
           /\ lagged' \in [Reader -> BOOLEAN]
           /\ pc' \in [Reader -> {"select", "hit", "miss", "accept", "dead"}]
           /\ dest' \in [Reader -> Tuple \cup {NoTuple}]
           /\ target' \in [Reader -> Sender \cup {NoSocket}]
<1>1. [t \in Tuple |-> NoSocket] \in [Tuple -> Sender \cup {NoSocket}]
  OBVIOUS
<1> QED BY <1>1 DEF StackTypeOK, Die, At

LEMMA ReaderTypes ==
    ASSUME CoreInv, NEW r \in Reader, ReaderStep(r)
    PROVE  StackTypeOK'
<1> USE DEF CoreInv, StackTypeOK, AnyState, socketVars, connectVars
<1>1. ASSUME NEW t \in Tuple, ReadHit(r, t)
      PROVE  StackTypeOK'
  BY <1>1 DEF ReadHit, At, Cached
<1>2. ASSUME NEW t \in Tuple, ReadMiss(r, t)
      PROVE  StackTypeOK'
  <2>1. tuples[t] \in Sender
    BY <1>2 DEF ReadMiss, Sender
  <2>2. cache' \in [Reader -> [Tuple -> Sender \cup {NoSocket}]]
    BY <1>2, <2>1 DEF ReadMiss
  <2> QED BY <1>2, <2>1, <2>2 DEF ReadMiss, At
<1>3. ASSUME NEW t \in Tuple, ReadSyn(r, t)
      PROVE  StackTypeOK'
  BY <1>3 DEF ReadSyn, At
<1>4. ASSUME NEW t \in Tuple, ReadUnknown(r, t)
      PROVE  StackTypeOK'
  <2>1. CASE UNCHANGED vars
    BY <2>1 DEF vars, readerVars
  <2>2. CASE Die(r, "tun_unwrap_583") /\ UNCHANGED <<tuples, listening, ready, socketVars, connectVars>>
    BY <2>2, DieTypes
  <2> QED BY <1>4, <2>1, <2>2, Zenon DEF ReadUnknown
<1>5. ASSUME NEW s \in Socket, Spawn(r, s)
      PROVE  StackTypeOK'
  <2>1. dest[r] \in Tuple
    BY <1>5 DEF Spawn, HandInv, Tuple
  <2>2. CASE tuples[dest[r]] = NoSocket
    <3>1. /\ tuples' \in [Tuple -> Socket \cup {NoSocket}]
          /\ state' \in [Socket -> AnyState]
          /\ tupleOf' \in [Socket -> Tuple \cup {NoTuple}]
          /\ UNCHANGED <<incoming, ready, connectVars, cache, purge, lagged>>
      BY <1>5, <2>1, <2>2, Zenon DEF Spawn, Register, Inserted, Registered, Live
    <3>2. /\ pc' \in [Reader -> {"select", "hit", "miss", "accept", "dead"}]
          /\ dest' \in [Reader -> Tuple \cup {NoTuple}]
          /\ target' \in [Reader -> Sender \cup {NoSocket}]
      BY <1>5, <2>2, ZenonT(30) DEF Spawn, At
    <3> QED BY <3>1, <3>2
  <2>3. CASE tuples[dest[r]] # NoSocket
    <3>1. Die(r, "accept_assert_554") /\ Register(s, dest[r], "unwinding")
          /\ UNCHANGED <<ready, connectVars>>
      BY <1>5, <2>3 DEF Spawn
    <3>2. /\ tuples' \in [Tuple -> Socket \cup {NoSocket}]
          /\ state' \in [Socket -> AnyState]
          /\ tupleOf' \in [Socket -> Tuple \cup {NoTuple}]
          /\ incoming' = incoming
      BY <2>1, <3>1 DEF Register, Inserted, Registered
    <3> QED BY <3>1, <3>2, DieTypes, Zenon
  <2> QED BY <2>2, <2>3, Zenon
<1>6. CASE ReadError(r)
  BY <1>6, DieTypes, Zenon DEF ReadError
<1>7. CASE SendHit(r) \/ SendMiss(r)
  <2>1. dest[r] \in Tuple
    BY <1>7 DEF SendHit, SendMiss, HandInv
  <2>2. incoming' \in [Socket -> Seq(Tuple)]
    <3>1. Append(incoming[target[r]], dest[r]) \in Seq(Tuple) \/ target[r] \notin Socket
      BY <2>1
    <3>2. incoming' = [incoming EXCEPT ![target[r]] = Append(incoming[target[r]], dest[r])]
      BY <1>7 DEF SendHit, SendMiss, Deliver
    <3> QED BY <3>1, <3>2, Zenon
  <2> QED BY <1>7, <2>2, Zenon DEF SendHit, SendMiss, Deliver, At
<1>8. CASE SendHitClosed(r)
  BY <1>8 DEF SendHitClosed, At
<1>9. CASE SendMissClosed(r)
  BY <1>9, DieTypes, Zenon DEF SendMissClosed
<1>10. CASE Purge(r)
  <2>1. Head(purge[r]) \in Tuple /\ Tail(purge[r]) \in Seq(Tuple)
    BY <1>10 DEF Purge
  <2>2. cache' \in [Reader -> [Tuple -> Sender \cup {NoSocket}]]
    BY <1>10, <2>1 DEF Purge, Evict
  <2> QED BY <1>10, <2>1, <2>2 DEF Purge
<1>11. CASE PurgeLagged(r)
  BY <1>11, DieTypes, Zenon DEF PurgeLagged
<1> QED BY <1>1, <1>2, <1>3, <1>4, <1>5, <1>6, <1>7, <1>8, <1>9, <1>10, <1>11, Zenon DEF ReaderStep

-----------------------------------------------------------------------------
(* RefsInv and what it rests on, for any number of readers *)

LEMMA CoreInit == Init => CoreInv
<1> SUFFICES ASSUME Init PROVE CoreInv
  OBVIOUS
<1>1. StackTypeOK
  BY StackTypeInit
<1>2. QueueInv /\ HandInv /\ NoMisdelivery
  BY DEF Init, QueueInv, HandInv, NoMisdelivery
<1>3. RefsInv
  BY StackAssumption DEF StackAssumption, Init, RefsInv
<1> QED BY <1>1, <1>2, <1>3 DEF CoreInv

LEMMA SocketKeepsRefs ==
    ASSUME CoreInv, NEW s \in Socket, SocketStep(s)
    PROVE  RefsInv' /\ NoMisdelivery'
<1> USE StackAssumption
    DEF StackAssumption, CoreInv, StackTypeOK, RefsInv, NoMisdelivery, Registered, Live, AnyState,
        readerVars, socketVars, connectVars
<1>1. CASE ProbeFree(s)
  <2>1. probe \in Tuple
    BY <1>1 DEF ProbeFree, Tuple
  <2> QED BY <1>1, <2>1, SMTT(30) DEF ProbeFree, Register, Inserted
<1>2. CASE Established(s) \/ AcceptEstablished(s) \/ HandOver(s)
  <2>1. /\ UNCHANGED <<tuples, tupleOf, incoming, cache, dest, target>>
        /\ state[s] \in Live
        /\ \E st \in Live : state' = [state EXCEPT ![s] = st]
    BY <1>2, Zenon DEF Established, AcceptEstablished, HandOver
  <2> QED BY <2>1
<1>3. CASE Recv(s)
  BY <1>3 DEF Recv
<1>4. CASE DropRemove(s)
  BY <1>4 DEF DropRemove
<1>5. CASE DropPurge(s)
  BY <1>5, SMTT(30) DEF DropPurge
<1>6. CASE DropFields(s)
  BY <1>6, SMTT(30) DEF DropFields
<1> QED BY <1>1, <1>2, <1>3, <1>4, <1>5, <1>6, Zenon DEF SocketStep

\* A reader that only forgets references changes nothing of this.
LEMMA ForgettingKeepsRefs ==
    ASSUME CoreInv, UNCHANGED <<tuples, socketVars>>,
           \A q \in Reader :
               /\ \A t \in Tuple : cache'[q][t] \in {cache[q][t], NoSocket}
               /\ \/ target'[q] = NoSocket
                  \/ target'[q] = target[q] /\ dest'[q] = dest[q]
    PROVE  RefsInv' /\ NoMisdelivery'
<1>1. \A s \in Socket : s # NoSocket
  BY StackAssumption DEF StackAssumption
<1> QED BY <1>1 DEF CoreInv, RefsInv, NoMisdelivery, socketVars

LEMMA DieForgets ==
    ASSUME StackTypeOK, NEW r \in Reader, NEW site, Die(r, site), NEW q \in Reader
    PROVE  /\ \A t \in Tuple : cache'[q][t] \in {cache[q][t], NoSocket}
           /\ \/ target'[q] = NoSocket
              \/ target'[q] = target[q] /\ dest'[q] = dest[q]
           /\ pc'[q] \in {pc[q], "dead"}
           /\ q # r => pc'[q] = pc[q] /\ target'[q] = target[q] /\ dest'[q] = dest[q]
           /\ q = r => pc'[q] = "dead" /\ \A t \in Tuple : cache'[q][t] = NoSocket
BY DEF StackTypeOK, Die, At

LEMMA ReaderKeepsRefs ==
    ASSUME CoreInv, NEW r \in Reader, ReaderStep(r)
    PROVE  RefsInv' /\ NoMisdelivery'
<1>1. ASSUME NEW t \in Tuple, ReadHit(r, t)
      PROVE  RefsInv' /\ NoMisdelivery'
  BY <1>1 DEF ReadHit, At, Cached, CoreInv, StackTypeOK, RefsInv, NoMisdelivery, socketVars
<1>2. ASSUME NEW t \in Tuple, ReadMiss(r, t)
      PROVE  RefsInv' /\ NoMisdelivery'
  <2>1. /\ \A q \in Reader, u \in Tuple :
              cache'[q][u] = IF q = r /\ u = t THEN tuples[t] ELSE cache[q][u]
        /\ \A q \in Reader : target'[q] = IF q = r THEN tuples[t] ELSE target[q]
        /\ \A q \in Reader : dest'[q] = IF q = r THEN t ELSE dest[q]
        /\ UNCHANGED <<tuples, state, tupleOf, incoming>>
    BY <1>2 DEF ReadMiss, At, CoreInv, StackTypeOK, socketVars
  <2>2. \A s \in Socket : tuples[t] = s => tupleOf[s] = t /\ state[s] # "closed"
    BY Zenon DEF CoreInv, RefsInv, Registered, Live
  <2> QED BY <2>1, <2>2, SMTT(30) DEF CoreInv, RefsInv, NoMisdelivery
<1>3. ASSUME NEW t \in Tuple, ReadSyn(r, t)
      PROVE  RefsInv' /\ NoMisdelivery'
  BY <1>3, ForgettingKeepsRefs, Zenon DEF ReadSyn, At, CoreInv, StackTypeOK
<1>4. ASSUME NEW t \in Tuple, ReadUnknown(r, t)
      PROVE  RefsInv' /\ NoMisdelivery'
  <2>1. CASE UNCHANGED vars
    BY <2>1, ForgettingKeepsRefs DEF vars, readerVars
  <2>2. CASE Die(r, "tun_unwrap_583") /\ UNCHANGED <<tuples, listening, ready, socketVars, connectVars>>
    BY <2>2, DieForgets, ForgettingKeepsRefs DEF CoreInv
  <2> QED BY <1>4, <2>1, <2>2 DEF ReadUnknown
<1>5. ASSUME NEW s \in Socket, Spawn(r, s)
      PROVE  RefsInv' /\ NoMisdelivery'
  <2>1. dest[r] \in Tuple
    BY <1>5, Zenon DEF Spawn, CoreInv, HandInv, Tuple
  <2>2. PICK st \in Registered : Register(s, dest[r], st)
    BY <1>5, Zenon DEF Spawn, Registered, Live
  <2>3. /\ state[s] = "closed"
        /\ \A d \in Socket : state'[d] = IF d = s THEN st ELSE state[d]
        /\ \A d \in Socket : tupleOf'[d] = IF d = s THEN dest[r] ELSE tupleOf[d]
        /\ \A t \in Tuple : tuples'[t] = IF t = dest[r] THEN s ELSE tuples[t]
        /\ incoming' = incoming
    BY <2>1, <2>2 DEF Register, Inserted, CoreInv, StackTypeOK
  <2>4. \A q \in Reader :
            /\ \A t \in Tuple : cache'[q][t] \in {cache[q][t], NoSocket}
            /\ \/ target'[q] = NoSocket
               \/ target'[q] = target[q] /\ dest'[q] = dest[q]
    <3>1. CASE tuples[dest[r]] = NoSocket
      BY <1>5, <3>1 DEF Spawn, At, CoreInv, StackTypeOK
    <3>2. CASE tuples[dest[r]] # NoSocket
      BY <1>5, <3>2, DieForgets, Zenon DEF Spawn, CoreInv
    <3> QED BY <3>1, <3>2
  <2>5. st # "closed" /\ \A d \in Socket : d # NoSocket
    BY StackAssumption DEF StackAssumption, Registered, Live
  <2>6. /\ \A t \in Tuple : tuples[t] # s
        /\ \A q \in Reader : target[q] # s /\ \A t \in Tuple : cache[q][t] # s
        /\ incoming[s] = <<>>
    BY <2>3, SMTT(30) DEF CoreInv, RefsInv, Registered, Live
  <2>7. RefsInv'
    BY <2>1, <2>3, <2>4, <2>5, <2>6 DEF CoreInv, RefsInv
  <2>8. NoMisdelivery'
    BY <2>3, <2>6 DEF CoreInv, NoMisdelivery
  <2> QED BY <2>7, <2>8
<1>6. CASE ReadError(r) \/ PurgeLagged(r) \/ SendMissClosed(r)
  <2>1. UNCHANGED <<tuples, socketVars>> /\ \E site : Die(r, site)
    BY <1>6, Zenon DEF ReadError, PurgeLagged, SendMissClosed
  <2> QED BY <2>1, DieForgets, ForgettingKeepsRefs, Zenon DEF CoreInv
<1>7. CASE SendHit(r) \/ SendMiss(r)
  <2>1. target[r] \in Socket /\ Deliver(r)
    BY <1>7, Zenon DEF SendHit, SendMiss, Deliver, CoreInv, HandInv, Sender
  <2>2. tupleOf[target[r]] = dest[r] /\ state[target[r]] # "closed"
    BY <2>1, Zenon DEF CoreInv, RefsInv
  <2>3. RefsInv'
    BY <2>1, <2>2, StackAssumption, SMTT(30)
       DEF Deliver, At, CoreInv, StackTypeOK, RefsInv, StackAssumption
  <2>4. /\ incoming \in [Socket -> Seq(Tuple)] /\ dest[r] \in Tuple
        /\ incoming' = [incoming EXCEPT ![target[r]] = Append(incoming[target[r]], dest[r])]
        /\ tupleOf' = tupleOf
    BY <1>7, <2>1, Zenon DEF SendHit, SendMiss, Deliver, CoreInv, StackTypeOK, HandInv
  <2>5. ASSUME NEW s \in Socket, NEW i \in 1 .. Len(incoming'[s])
        PROVE  incoming'[s][i] = tupleOf'[s]
    <3>1. CASE s # target[r]
      BY <2>1, <2>4, <2>5, <3>1, Zenon DEF CoreInv, NoMisdelivery
    <3>2. CASE s = target[r]
      <4>1. incoming'[s] = Append(incoming[s], dest[r]) /\ incoming[s] \in Seq(Tuple)
        BY <2>4, <3>2
      <4>2. \A k \in 1 .. Len(incoming[s]) : incoming[s][k] = tupleOf[s]
        BY DEF CoreInv, NoMisdelivery
      <4> QED BY <2>2, <2>4, <2>5, <3>2, <4>1, <4>2, SMTT(30)
    <3> QED BY <3>1, <3>2
  <2>6. NoMisdelivery'
    BY <2>5 DEF NoMisdelivery
  <2> QED BY <2>3, <2>6
<1>8. CASE SendHitClosed(r)
  BY <1>8, ForgettingKeepsRefs, Zenon DEF SendHitClosed, At, CoreInv, StackTypeOK
<1>9. CASE Purge(r)
  <2>1. \A q \in Reader : \A t \in Tuple : cache'[q][t] \in {cache[q][t], NoSocket}
    BY <1>9, Zenon DEF Purge, Evict, CoreInv, StackTypeOK
  <2> QED BY <1>9, <2>1, ForgettingKeepsRefs, Zenon DEF Purge
<1> QED BY <1>1, <1>2, <1>3, <1>4, <1>5, <1>6, <1>7, <1>8, <1>9 DEF ReaderStep

LEMMA HandKeeps ==
    ASSUME CoreInv, NEW r \in Reader, ReaderStep(r)
    PROVE  HandInv'
<1> USE DEF CoreInv, StackTypeOK, HandInv, At
<1>1. ASSUME NEW site, Die(r, site)
      PROVE  HandInv'
  BY <1>1, Zenon DEF Die
<1>2. ASSUME NEW t \in Tuple, ReadHit(r, t)
      PROVE  HandInv'
  BY <1>2 DEF ReadHit, Cached, Sender
<1>3. ASSUME NEW t \in Tuple, ReadMiss(r, t)
      PROVE  HandInv'
  BY <1>3, Zenon DEF ReadMiss, Sender
<1>4. ASSUME NEW t \in Tuple, ReadSyn(r, t)
      PROVE  HandInv'
  BY <1>4, Zenon DEF ReadSyn
<1>5. ASSUME NEW t \in Tuple, ReadUnknown(r, t)
      PROVE  HandInv'
  <2>1. CASE UNCHANGED vars
    BY <2>1, Zenon DEF vars, readerVars
  <2> QED BY <1>1, <1>5, <2>1, Zenon DEF ReadUnknown
<1>6. ASSUME NEW s \in Socket, Spawn(r, s)
      PROVE  HandInv'
  BY <1>1, <1>6, ZenonT(30) DEF Spawn
<1>7. CASE SendHit(r) \/ SendMiss(r) \/ SendHitClosed(r)
  BY <1>7, ZenonT(30) DEF SendHit, SendMiss, SendHitClosed, Deliver
<1>8. CASE Purge(r)
  BY <1>8, Zenon DEF Purge
<1>9. CASE ReadError(r) \/ PurgeLagged(r) \/ SendMissClosed(r)
  BY <1>1, <1>9, Zenon DEF ReadError, PurgeLagged, SendMissClosed
<1> QED BY <1>2, <1>3, <1>4, <1>5, <1>6, <1>7, <1>8, <1>9, Zenon DEF ReaderStep

\* Only HandOver and Accept concern the channel of accepted sockets: every other
\* step leaves alone the sockets that are in it.
LEMMA QueueKeeps ==
    ASSUME CoreInv, ready' = ready, \A s \in Socket : state[s] = "ready" => state'[s] = "ready"
    PROVE  QueueInv'
<1>1. \A k \in 1 .. Len(ready) : ready[k] \in Socket
  BY DEF CoreInv, StackTypeOK
<1> QED BY <1>1 DEF CoreInv, QueueInv

LEMMA CoreMain ==
    ASSUME CoreInv, Listen \/ Connect \/ ProbeUsed \/ Accept
    PROVE  CoreInv'
<1> USE DEF socketVars, connectVars, readerVars
<1>1. CASE Listen \/ Connect \/ ProbeUsed
  <2>1. UNCHANGED <<tuples, ready, socketVars, readerVars>>
    BY <1>1, Zenon DEF Listen, Connect, ProbeUsed
  <2>2. probe' \in Port \cup {NoPort}
    BY <1>1, Zenon DEF Listen, Connect, ProbeUsed, CoreInv, StackTypeOK
  <2>3. StackTypeOK'
    BY <2>1, <2>2, Zenon DEF CoreInv, StackTypeOK
  <2>4. RefsInv' /\ HandInv' /\ NoMisdelivery'
    BY <2>1, SMTT(60) DEF CoreInv, RefsInv, HandInv, NoMisdelivery
  <2> QED BY <2>1, <2>3, <2>4, QueueKeeps DEF CoreInv
<1>2. CASE Accept
  <2> DEFINE s == Head(ready)
  <2>1. /\ ready \in Seq(Socket) /\ ready # <<>>
        /\ ready' = Tail(ready)
        /\ state' = [state EXCEPT ![s] = "open"]
        /\ UNCHANGED <<tuples, tupleOf, incoming, probe, readerVars>>
    BY <1>2, Zenon DEF Accept, CoreInv, StackTypeOK
  <2>2. s \in Socket /\ s = ready[1] /\ state[s] = "ready"
    BY <2>1 DEF CoreInv, QueueInv
  <2>3. StackTypeOK'
    <3>1. ready' \in Seq(Socket)
      BY <2>1
    <3>2. state' \in [Socket -> AnyState]
      BY <2>1 DEF CoreInv, StackTypeOK, AnyState, Registered, Live
    <3> QED BY <2>1, <3>1, <3>2, Zenon DEF CoreInv, StackTypeOK
  <2>4. QueueInv'
    <3>1. /\ Len(Tail(ready)) = Len(ready) - 1
          /\ \A k \in 1 .. Len(Tail(ready)) : Tail(ready)[k] = ready[k + 1]
      BY <2>1
    <3>2. \A k \in 1 .. Len(Tail(ready)) : k + 1 \in 1 .. Len(ready) /\ ready[k + 1] # s
      BY <2>1, <2>2, <3>1 DEF CoreInv, QueueInv
    <3>3. \A k \in 1 .. Len(ready) : ready[k] \in Socket /\ state[ready[k]] = "ready"
      BY <2>1 DEF CoreInv, QueueInv
    <3>4. \A k \in 1 .. Len(Tail(ready)) : state'[Tail(ready)[k]] = "ready"
      BY <2>1, <3>1, <3>2, <3>3 DEF CoreInv, StackTypeOK
    <3>5. \A k, m \in 1 .. Len(Tail(ready)) : k # m => Tail(ready)[k] # Tail(ready)[m]
      BY <2>1, <3>1, <3>2 DEF CoreInv, QueueInv
    <3> QED BY <2>1, <3>4, <3>5, Zenon DEF QueueInv
  <2>5. RefsInv' /\ HandInv' /\ NoMisdelivery'
    <3>1. \A d \in Socket : state'[d] = IF d = s THEN "open" ELSE state[d]
      BY <2>1, <2>2 DEF CoreInv, StackTypeOK
    <3>2. RefsInv'
      BY <2>1, <2>2, <3>1 DEF CoreInv, RefsInv, Registered, Live
    <3> QED BY <2>1, <3>2 DEF CoreInv, HandInv, NoMisdelivery
  <2> QED BY <2>3, <2>4, <2>5 DEF CoreInv
<1> QED BY <1>1, <1>2

LEMMA CoreSocket == ASSUME CoreInv, NEW s \in Socket, SocketStep(s) PROVE CoreInv'
<1>1. StackTypeOK' /\ RefsInv' /\ NoMisdelivery'
  BY SocketTypes, SocketKeepsRefs
<1>2. HandInv'
  <2>1. CASE DropFields(s)
    BY <2>1, Zenon DEF DropFields, CoreInv, StackTypeOK, HandInv, Sender
  <2>2. CASE ~DropFields(s)
    <3>1. UNCHANGED <<pc, dest, target>>
      BY <2>2, Zenon DEF SocketStep, ProbeFree, Established, AcceptEstablished, HandOver, Recv,
                  DropRemove, DropPurge, readerVars
    <3> QED BY <3>1 DEF CoreInv, HandInv
  <2> QED BY <2>1, <2>2
<1>3. QueueInv'
  <2>1. CASE HandOver(s)
    <3>1. /\ ready \in Seq(Socket) /\ ready' = Append(ready, s) /\ state[s] = "handing"
          /\ \A d \in Socket : state'[d] = IF d = s THEN "ready" ELSE state[d]
      BY <2>1 DEF HandOver, CoreInv, StackTypeOK
    <3>2. /\ Len(ready') = Len(ready) + 1 /\ ready'[Len(ready) + 1] = s
          /\ \A k \in 1 .. Len(ready) :
                ready'[k] = ready[k] /\ ready[k] \in Socket /\ state[ready[k]] = "ready"
      BY <3>1, SMTT(30) DEF CoreInv, QueueInv
    <3>3. \A k \in 1 .. Len(ready') : k \in 1 .. Len(ready) \/ k = Len(ready) + 1
      BY <3>1, <3>2
    <3>4. \A k \in 1 .. Len(ready') : state'[ready'[k]] = "ready"
      BY <3>1, <3>2, <3>3
    <3>5. \A k, m \in 1 .. Len(ready') : k # m => ready'[k] # ready'[m]
      BY <3>1, <3>2, <3>3 DEF CoreInv, QueueInv
    <3> QED BY <3>4, <3>5 DEF QueueInv
  <2>2. CASE ~HandOver(s)
    <3>1. ready' = ready /\ \A d \in Socket : state[d] = "ready" => state'[d] = "ready"
      BY <2>2, Zenon DEF SocketStep, ProbeFree, Register, Established, AcceptEstablished, Recv,
                  DropRemove, DropPurge, DropFields, CoreInv, StackTypeOK
    <3> QED BY <3>1, QueueKeeps
  <2> QED BY <2>1, <2>2
<1> QED BY <1>1, <1>2, <1>3 DEF CoreInv

LEMMA CoreReader == ASSUME CoreInv, NEW r \in Reader, ReaderStep(r) PROVE CoreInv'
<1>1. StackTypeOK' /\ RefsInv' /\ NoMisdelivery' /\ HandInv'
  BY ReaderTypes, ReaderKeepsRefs, HandKeeps
<1>2. ready' = ready /\ \A d \in Socket : state[d] = "ready" => state'[d] = "ready"
  BY Zenon DEF ReaderStep, ReadHit, ReadMiss, ReadSyn, ReadUnknown, Spawn, Register, ReadError, SendHit,
         SendHitClosed, SendMiss, SendMissClosed, Deliver, Purge, PurgeLagged, vars, socketVars,
         CoreInv, StackTypeOK
<1> QED BY <1>1, <1>2, QueueKeeps, Zenon DEF CoreInv

LEMMA CoreNext == CoreInv /\ [Next]_vars => CoreInv'
<1> SUFFICES ASSUME CoreInv, [Next]_vars PROVE CoreInv'
  OBVIOUS
<1>1. CASE UNCHANGED vars
  BY <1>1, SMTT(30) DEF vars, socketVars, connectVars, readerVars, CoreInv, StackTypeOK, QueueInv, RefsInv,
              HandInv, NoMisdelivery
<1> QED BY <1>1, CoreMain, CoreSocket, CoreReader DEF Next

LEMMA CoreHolds == Spec => []CoreInv
BY CoreInit, CoreNext, PTL DEF Spec

\* However many readers there are, and however old the sender is that a reader
\* has in its cache or waits to send to, a packet only gets into the channel of
\* a socket of its own tuple (reader_task, Socket::drop).
THEOREM NeverMisdelivered == Spec => []NoMisdelivery
<1>1. CoreInv => NoMisdelivery
  BY DEF CoreInv
<1> QED BY <1>1, CoreHolds, PTL

-----------------------------------------------------------------------------
(* The table, when no two insertions race *)

\* An insertion that finds the tuple free.
LEMMA InsertMatches ==
    ASSUME CoreInv, TableInv, NEW s \in Socket, NEW t \in Tuple, NEW st \in Live,
           Register(s, t, st), tuples[t] = NoSocket
    PROVE  TableMatchesSockets' /\ \A d \in Socket : state'[d] # "unwinding"
<1>1. /\ state[s] = "closed"
      /\ \A d \in Socket : state'[d] = IF d = s THEN st ELSE state[d]
      /\ \A d \in Socket : tupleOf'[d] = IF d = s THEN t ELSE tupleOf[d]
      /\ \A u \in Tuple : tuples'[u] = IF u = t THEN s ELSE tuples[u]
  BY Zenon DEF Register, Inserted, CoreInv, StackTypeOK
<1>2. \A u \in Tuple : tuples[u] \in Socket \cup {NoSocket} /\ tuples[u] # s
  BY <1>1, Zenon DEF CoreInv, StackTypeOK, RefsInv, Registered, Live
<1>3. \A d \in Socket : state[d] \in Live => tuples[tupleOf[d]] = d /\ tupleOf[d] \in Tuple
  BY Zenon DEF TableInv, TableMatchesSockets, CoreInv, RefsInv, Live
<1>4. \A d \in Socket : d # NoSocket
  BY StackAssumption DEF StackAssumption
<1>5. \A d \in Socket : state'[d] \in Live => tuples'[tupleOf'[d]] = d
  BY <1>1, <1>3, <1>4, SMTT(30)
<1>6. \A u \in Tuple : tuples'[u] # NoSocket =>
          state'[tuples'[u]] \in Live /\ tupleOf'[tuples'[u]] = u
  BY <1>1, <1>2, SMTT(60) DEF TableInv, TableMatchesSockets
<1>7. \A d \in Socket : state'[d] # "unwinding"
  BY <1>1, Zenon DEF TableInv, Live
<1> QED BY <1>5, <1>6, <1>7, Zenon DEF TableMatchesSockets

\* Steps that leave the table alone, and each socket where it is in the table.
LEMMA TableKeeps ==
    ASSUME CoreInv, TableInv, UNCHANGED <<tuples, tupleOf>>,
           \A d \in Socket : /\ state'[d] \in Live <=> state[d] \in Live
                            /\ state'[d] # "unwinding",
           \A r \in Reader : /\ pc'[r] = "accept" => tuples[dest'[r]] = NoSocket
                            /\ \A t \in Tuple : pc'[r] = "dead" => cache'[r][t] = NoSocket
    PROVE  TableInv'
<1>1. \A t \in Tuple : tuples[t] \in Socket \cup {NoSocket}
  BY Zenon DEF CoreInv, StackTypeOK
<1> QED BY <1>1, Zenon DEF TableInv, TableMatchesSockets

LEMMA TableSocket ==
    ASSUME NoRace, CoreInv, TableInv, NEW s \in Socket, SocketStep(s)
    PROVE  TableInv'
<1> USE DEF readerVars
<1>1. CASE ProbeFree(s)
  <2>1. probe \in Port /\ probe \in Tuple
    BY <1>1, Zenon DEF ProbeFree, CoreInv, StackTypeOK, Tuple
  <2>2. /\ Register(s, probe, "opening") /\ tuples[probe] = NoSocket
        /\ UNCHANGED <<pc, dest, cache>>
    BY <1>1 DEF ProbeFree, Free
  <2>3. TableMatchesSockets' /\ \A d \in Socket : state'[d] # "unwinding"
    BY <2>1, <2>2, InsertMatches DEF Live
  <2>4. ASSUME NEW r \in Reader, pc[r] = "accept"
        PROVE  tuples'[dest[r]] = NoSocket
    <3>1. dest[r] \in Peer /\ dest[r] # probe
      BY <2>1, <2>4 DEF NoRace, CoreInv, HandInv
    <3> QED BY <2>2, <2>4, <3>1, Zenon DEF Register, Inserted, CoreInv, StackTypeOK, TableInv, Tuple
  <2> QED BY <2>2, <2>3, <2>4, Zenon DEF TableInv
<1>2. CASE Established(s) \/ AcceptEstablished(s) \/ HandOver(s)
  <2>1. /\ UNCHANGED <<tuples, tupleOf, pc, dest, cache>>
        /\ state[s] \in Live
        /\ \E st \in Live : state' = [state EXCEPT ![s] = st]
    BY <1>2, Zenon DEF Established, AcceptEstablished, HandOver, Live
  <2>2. \A d \in Socket : (state'[d] \in Live <=> state[d] \in Live) /\ state'[d] # "unwinding"
    BY <2>1, Zenon DEF CoreInv, StackTypeOK, TableInv, Live
  <2> QED BY <2>1, <2>2, TableKeeps, Zenon DEF TableInv
<1>3. CASE Recv(s)
  BY <1>3, TableKeeps, Zenon DEF Recv, TableInv
<1>4. CASE DropRemove(s)
  <2>1. state[s] \in Live /\ tupleOf[s] \in Tuple /\ tuples[tupleOf[s]] = s
    BY <1>4, Zenon DEF DropRemove, TableInv, TableMatchesSockets, Live, CoreInv, RefsInv
  <2>2. /\ \A d \in Socket : state'[d] = IF d = s THEN "removed" ELSE state[d]
        /\ \A u \in Tuple : tuples'[u] = IF u = tupleOf[s] THEN NoSocket ELSE tuples[u]
        /\ UNCHANGED <<tupleOf, pc, dest, cache>>
    BY <1>4, Zenon DEF DropRemove, CoreInv, StackTypeOK
  <2>3. \A d \in Socket : state'[d] \in Live => tuples'[tupleOf'[d]] = d
    <3>1. \A d \in Socket : state[d] \in Live => tuples[tupleOf[d]] = d /\ tupleOf[d] \in Tuple
      BY Zenon DEF TableInv, TableMatchesSockets, CoreInv, RefsInv, Live
    <3> QED BY <2>1, <2>2, <3>1, Zenon DEF Live
  <2>4. \A u \in Tuple : tuples'[u] # NoSocket =>
            state'[tuples'[u]] \in Live /\ tupleOf'[tuples'[u]] = u
    <3>1. \A u \in Tuple : tuples[u] \in Socket \cup {NoSocket}
      BY DEF CoreInv, StackTypeOK
    <3>2. \A u \in Tuple : tuples[u] # NoSocket =>
              state[tuples[u]] \in Live /\ tupleOf[tuples[u]] = u
      BY Zenon DEF TableInv, TableMatchesSockets
    <3> QED BY <2>1, <2>2, <3>1, <3>2, SMTT(30)
  <2>5. \A r \in Reader : pc'[r] = "accept" => tuples'[dest'[r]] = NoSocket
    BY <2>2, Zenon DEF TableInv, CoreInv, HandInv, Tuple
  <2>6. \A d \in Socket : state'[d] # "unwinding"
    BY <2>2, Zenon DEF TableInv
  <2> QED BY <2>2, <2>3, <2>4, <2>5, <2>6, SMTT(60) DEF TableInv, TableMatchesSockets
<1>5. CASE DropPurge(s)
  <2>1. \A d \in Socket : (state'[d] \in Live <=> state[d] \in Live) /\ state'[d] # "unwinding"
    BY <1>5, Zenon DEF DropPurge, CoreInv, StackTypeOK, TableInv, Live
  <2> QED BY <1>5, <2>1, TableKeeps, Zenon DEF DropPurge, TableInv
<1>6. CASE DropFields(s)
  <2>1. /\ state[s] = "purged"
        /\ \A d \in Socket : state'[d] = IF d = s THEN "closed" ELSE state[d]
        /\ \A d \in Socket : d # s => tupleOf'[d] = tupleOf[d]
        /\ \A r \in Reader, t \in Tuple : cache[r][t] = NoSocket => cache'[r][t] = NoSocket
        /\ UNCHANGED <<tuples, pc, dest>>
    BY <1>6, StackAssumption, Zenon DEF DropFields, CoreInv, StackTypeOK, StackAssumption
  <2>2. \A u \in Tuple : tuples[u] \in Socket \cup {NoSocket} /\ tuples[u] # s
    BY <2>1, Zenon DEF CoreInv, StackTypeOK, RefsInv, Registered, Live
  <2>3. \A d \in Socket : state'[d] \in Live => tuples[tupleOf'[d]] = d
    BY <2>1 DEF TableInv, TableMatchesSockets, Live
  <2>4. \A u \in Tuple : tuples[u] # NoSocket =>
            state'[tuples[u]] \in Live /\ tupleOf'[tuples[u]] = u
    BY <2>1, <2>2, Zenon DEF TableInv, TableMatchesSockets
  <2>5. \A d \in Socket : state'[d] # "unwinding"
    BY <2>1, Zenon DEF TableInv
  <2> QED BY <2>1, <2>3, <2>4, <2>5, SMTT(30) DEF TableInv, TableMatchesSockets
<1> QED BY <1>1, <1>2, <1>3, <1>4, <1>5, <1>6 DEF SocketStep

LEMMA TableReader ==
    ASSUME NoRace, CoreInv, TableInv, NEW r \in Reader, ReaderStep(r)
    PROVE  TableInv'
<1> USE DEF socketVars
<1>1. ASSUME UNCHANGED <<tuples, socketVars>>,
             \A q \in Reader : /\ pc'[q] = "accept" => tuples[dest'[q]] = NoSocket
                              /\ \A t \in Tuple : pc'[q] = "dead" => cache'[q][t] = NoSocket
      PROVE  TableInv'
  BY <1>1, TableKeeps, Zenon DEF TableInv
<1>2. ASSUME NEW t \in Tuple, ReadHit(r, t) \/ ReadMiss(r, t) \/ ReadSyn(r, t)
      PROVE  TableInv'
  <2>1. UNCHANGED <<tuples, socketVars>>
    BY <1>2, Zenon DEF ReadHit, ReadMiss, ReadSyn
  <2>2. ASSUME NEW q \in Reader
        PROVE  /\ pc'[q] = "accept" => tuples[dest'[q]] = NoSocket
               /\ \A u \in Tuple : pc'[q] = "dead" => cache'[q][u] = NoSocket
    BY <1>2, SMTT(30) DEF ReadHit, ReadMiss, ReadSyn, Unknown, At, CoreInv, StackTypeOK, TableInv
  <2> QED BY <1>1, <2>1, <2>2, Zenon
<1>3. ASSUME NEW site, Die(r, site), UNCHANGED <<tuples, socketVars>>
      PROVE  TableInv'
  <2>1. ASSUME NEW q \in Reader
        PROVE  /\ pc'[q] = "accept" => tuples[dest'[q]] = NoSocket
               /\ \A u \in Tuple : pc'[q] = "dead" => cache'[q][u] = NoSocket
    BY <1>3, DieForgets DEF CoreInv, TableInv
  <2> QED BY <1>1, <1>3, <2>1, Zenon
<1>4. ASSUME NEW t \in Tuple, ReadUnknown(r, t)
      PROVE  TableInv'
  <2>1. CASE UNCHANGED vars
    BY <1>1, <2>1, Zenon DEF vars, readerVars, TableInv
  <2> QED BY <1>3, <1>4, <2>1 DEF ReadUnknown
<1>5. ASSUME NEW s \in Socket, Spawn(r, s)
      PROVE  TableInv'
  <2>1. /\ dest[r] \in Peer /\ dest[r] \in Tuple /\ tuples[dest[r]] = NoSocket
        /\ pc[r] = "accept"
    BY <1>5, Zenon DEF Spawn, TableInv, CoreInv, HandInv, Tuple
  <2>2. /\ Register(s, dest[r], "accepting")
        /\ At(r, "select", NoTuple, NoSocket)
        /\ UNCHANGED cache
    BY <1>5, <2>1, Zenon DEF Spawn
  <2>3. TableMatchesSockets' /\ \A d \in Socket : state'[d] # "unwinding"
    BY <2>1, <2>2, InsertMatches, Zenon DEF Live
  <2>4. ASSUME NEW q \in Reader
        PROVE  /\ pc'[q] # "accept"
               /\ \A u \in Tuple : pc'[q] = "dead" => cache'[q][u] = NoSocket
    <3>1. q = r
      BY <2>1, Zenon DEF NoRace
    <3>2. pc'[q] = "select"
      BY <2>2, <3>1, Zenon DEF At, CoreInv, StackTypeOK
    <3> QED BY <3>2, Zenon
  <2> QED BY <2>3, <2>4, Zenon DEF TableInv
<1>6. CASE SendHit(r) \/ SendMiss(r) \/ SendHitClosed(r)
  <2>1. UNCHANGED <<tuples, state, tupleOf, cache>> /\ At(r, "select", NoTuple, NoSocket)
    BY <1>6, Zenon DEF SendHit, SendMiss, SendHitClosed, Deliver
  <2>2. ASSUME NEW q \in Reader
        PROVE  /\ pc'[q] = "accept" => tuples[dest'[q]] = NoSocket
               /\ \A u \in Tuple : pc'[q] = "dead" => cache'[q][u] = NoSocket
    BY <2>1, Zenon DEF At, CoreInv, StackTypeOK, TableInv
  <2> QED BY <2>1, <2>2, TableKeeps, Zenon DEF TableInv
<1>7. CASE Purge(r)
  BY <1>1, <1>7, Zenon DEF Purge, Evict, CoreInv, StackTypeOK, TableInv
<1>8. CASE ReadError(r) \/ PurgeLagged(r) \/ SendMissClosed(r)
  BY <1>3, <1>8, Zenon DEF ReadError, PurgeLagged, SendMissClosed
<1> QED BY <1>2, <1>4, <1>5, <1>6, <1>7, <1>8, Zenon DEF ReaderStep

LEMMA TableMain ==
    ASSUME CoreInv, TableInv, Listen \/ Connect \/ ProbeUsed \/ Accept
    PROVE  TableInv'
<1>1. /\ UNCHANGED <<tuples, tupleOf, pc, dest, cache>>
      /\ state' = state \/ (ready # <<>> /\ state' = [state EXCEPT ![Head(ready)] = "open"])
  BY Zenon DEF Listen, Connect, ProbeUsed, Accept, socketVars, readerVars
<1>2. ready # <<>> => state[Head(ready)] = "ready"
  BY DEF CoreInv, StackTypeOK, QueueInv
<1>3. \A d \in Socket : (state'[d] \in Live <=> state[d] \in Live) /\ state'[d] # "unwinding"
  BY <1>1, <1>2, Zenon DEF CoreInv, StackTypeOK, TableInv, Live
<1> QED BY <1>1, <1>3, TableKeeps, Zenon DEF TableInv

-----------------------------------------------------------------------------
(* The caches *)

\* Steps that register nothing, forget nothing that was to be purged, and cache
\* nothing new.
LEMMA StaleKeeps ==
    ASSUME StaleIsPurged,
           NEW r \in Reader, NEW t \in Tuple,
           cache'[r][t] \in {NoSocket, cache[r][t]}, tuples'[t] = tuples[t],
           PurgePending(r, t) => PurgePending(r, t)',
           Stale(r, t)'
    PROVE  PurgePending(r, t)'
BY Zenon DEF StaleIsPurged, Stale

\* A purge on its way stays on its way while no purge is read or sent.
LEMMA PendingKeeps ==
    ASSUME NEW r \in Reader, NEW t \in Tuple, PurgePending(r, t),
           UNCHANGED <<lagged, purge>>,
           \A s \in Socket : state[s] = "removed" => state'[s] = "removed" /\ tupleOf'[s] = tupleOf[s]
    PROVE  PurgePending(r, t)'
BY Zenon DEF PurgePending

\* Socket::drop sends the purge: to a reader with a full channel at the price of
\* its oldest message, of which it learns.
LEMMA PurgeSent ==
    ASSUME CoreInv, NEW s \in Socket, DropPurge(s), NEW r \in Reader, pc[r] # "dead",
           NEW t \in Tuple, PurgePending(r, t)
    PROVE  PurgePending(r, t)'
<1> DEFINE q == purge[r]
<1>1. /\ q \in Seq(Tuple) /\ tupleOf[s] \in Tuple
      /\ purge'[r] = IF Len(q) < PURGE_LEN THEN Append(q, tupleOf[s]) ELSE Append(Tail(q), tupleOf[s])
      /\ lagged'[r] = (lagged[r] \/ Len(q) >= PURGE_LEN)
      /\ state' = [state EXCEPT ![s] = "purged"] /\ tupleOf' = tupleOf
      /\ PURGE_LEN \in Nat \ {0} /\ state \in [Socket -> AnyState]
  BY StackAssumption, Zenon
     DEF DropPurge, Broadcast, Alive, CoreInv, StackTypeOK, RefsInv, StackAssumption
<1>2. CASE lagged[r] \/ Len(q) >= PURGE_LEN
  BY <1>1, <1>2, Zenon DEF PurgePending
<1>3. CASE Len(q) < PURGE_LEN
  <2>1. /\ purge'[r] = Append(q, tupleOf[s])
        /\ Len(purge'[r]) = Len(q) + 1
        /\ purge'[r][Len(q) + 1] = tupleOf[s]
        /\ \A i \in 1 .. Len(q) : purge'[r][i] = q[i]
    BY <1>1, <1>3, SMTT(30)
  <2>2. CASE \E i \in 1 .. Len(q) : q[i] = t
    <3>1. PICK i \in 1 .. Len(q) : q[i] = t
      BY <2>2
    <3>2. i \in 1 .. Len(purge'[r]) /\ purge'[r][i] = t
      BY <1>1, <2>1, <3>1, SMTT(30)
    <3> QED BY <3>2 DEF PurgePending
  <2>3. CASE tupleOf[s] = t
    <3>1. Len(q) + 1 \in 1 .. Len(purge'[r])
      BY <1>1, <2>1, SMTT(30)
    <3> QED BY <2>1, <2>3, <3>1, Zenon DEF PurgePending
  <2>4. CASE \E d \in Socket : d # s /\ state[d] = "removed" /\ tupleOf[d] = t
    BY <1>1, <2>4, Zenon DEF PurgePending
  <2>5. CASE lagged[r]
    BY <1>1, <2>5, Zenon DEF PurgePending
  <2> QED BY <2>2, <2>3, <2>4, <2>5, Zenon DEF PurgePending
<1>4. Len(q) \in Nat
  BY <1>1
<1> QED BY <1>1, <1>2, <1>3, <1>4, SMTT(30)

\* The purge that a reader reads is the one for the sender that it forgets.
LEMMA PurgeRead ==
    ASSUME CoreInv, NEW r \in Reader, Purge(r), NEW q \in Reader, NEW t \in Tuple,
           PurgePending(q, t), q # r \/ t # Head(purge[r])
    PROVE  PurgePending(q, t)'
<1>1. /\ purge[r] \in Seq(Tuple) /\ purge[r] # <<>>
      /\ purge'[r] = Tail(purge[r]) /\ (q # r => purge'[q] = purge[q])
      /\ UNCHANGED <<lagged, state, tupleOf>>
  BY Zenon DEF Purge, CoreInv, StackTypeOK, socketVars
<1>2. ASSUME NEW i \in 1 .. Len(purge[q]), purge[q][i] = t
      PROVE  \E j \in 1 .. Len(purge'[q]) : purge'[q][j] = t
  <2>1. CASE q # r
    BY <1>1, <1>2, <2>1, Zenon
  <2>2. CASE q = r
    <3>1. i # 1 /\ i - 1 \in 1 .. Len(Tail(purge[r]))
      BY <1>1, <1>2, <2>2
    <3>2. Tail(purge[r])[i - 1] = t
      BY <1>1, <1>2, <2>2, <3>1
    <3> QED BY <1>1, <2>2, <3>1, <3>2, Zenon
  <2> QED BY <2>1, <2>2, Zenon
<1> QED BY <1>1, <1>2, Zenon DEF PurgePending

LEMMA StaleSocket ==
    ASSUME NoRace, CoreInv, TableInv, StaleIsPurged, NEW s \in Socket, SocketStep(s),
           NEW r \in Reader, NEW t \in Tuple, Stale(r, t)'
    PROVE  PurgePending(r, t)'
<1> USE DEF readerVars
<1>1. CASE ProbeFree(s)
  <2>1. /\ probe \in Tuple /\ tuples[probe] = NoSocket
        /\ \A u \in Tuple : tuples'[u] = IF u = probe THEN s ELSE tuples[u]
        /\ UNCHANGED <<cache, lagged, purge>>
        /\ \A d \in Socket : state[d] = "removed" =>
              state'[d] = "removed" /\ tupleOf'[d] = tupleOf[d]
    BY <1>1, Zenon DEF ProbeFree, Free, Register, Inserted, CoreInv, StackTypeOK, Tuple
  <2>2. Stale(r, t)
    BY <2>1, Zenon DEF Stale
  <2> QED BY <2>1, <2>2, PendingKeeps, Zenon DEF StaleIsPurged
<1>2. CASE Established(s) \/ AcceptEstablished(s) \/ HandOver(s) \/ Recv(s)
  <2>1. /\ UNCHANGED <<tuples, cache, lagged, purge>>
        /\ \A d \in Socket : state[d] = "removed" =>
              state'[d] = "removed" /\ tupleOf'[d] = tupleOf[d]
    BY <1>2, Zenon DEF Established, AcceptEstablished, HandOver, Recv, CoreInv, StackTypeOK
  <2> QED BY <2>1, PendingKeeps, StaleKeeps, Zenon
<1>3. CASE DropRemove(s)
  <2>1. /\ \A u \in Tuple : tuples'[u] = IF u = tupleOf[s] THEN NoSocket ELSE tuples[u]
        /\ UNCHANGED <<cache, lagged, purge, tupleOf>>
        /\ state'[s] = "removed"
        /\ \A d \in Socket : state[d] = "removed" => state'[d] = "removed"
    BY <1>3, Zenon DEF DropRemove, CoreInv, StackTypeOK
  <2>2. CASE t = tupleOf[s]
    BY <2>1, <2>2, Zenon DEF PurgePending
  <2>3. CASE t # tupleOf[s]
    BY <2>1, <2>3, PendingKeeps, StaleKeeps, Zenon
  <2> QED BY <2>2, <2>3
<1>4. CASE DropPurge(s)
  <2>1. UNCHANGED <<tuples, cache>>
    BY <1>4, Zenon DEF DropPurge
  <2>2. Stale(r, t) /\ pc[r] # "dead"
    BY <2>1, Zenon DEF Stale, TableInv
  <2> QED BY <1>4, <2>2, PurgeSent DEF StaleIsPurged
<1>5. CASE DropFields(s)
  <2>1. /\ UNCHANGED <<tuples, lagged, purge>>
        /\ cache'[r][t] = IF cache[r][t] = s THEN Disconnected ELSE cache[r][t]
        /\ state[s] = "purged"
        /\ \A d \in Socket : state[d] = "removed" =>
              state'[d] = "removed" /\ tupleOf'[d] = tupleOf[d]
    BY <1>5, Zenon DEF DropFields, CoreInv, StackTypeOK
  <2>2. tuples[t] # s /\ s # NoSocket
    BY <2>1, StackAssumption, Zenon DEF CoreInv, RefsInv, Registered, Live, StackAssumption
  <2>3. Stale(r, t)
    BY <2>1, <2>2, Zenon DEF Stale
  <2> QED BY <2>1, <2>3, PendingKeeps, Zenon DEF StaleIsPurged
<1> QED BY <1>1, <1>2, <1>3, <1>4, <1>5, Zenon DEF SocketStep

LEMMA StaleReader ==
    ASSUME NoRace, CoreInv, TableInv, StaleIsPurged, NEW r \in Reader, ReaderStep(r),
           NEW q \in Reader, NEW t \in Tuple, Stale(q, t)'
    PROVE  PurgePending(q, t)'
<1> USE DEF socketVars
<1>1. ASSUME NEW site, Die(r, site), UNCHANGED socketVars, tuples'[t] = tuples[t] \/ q = r
      PROVE  PurgePending(q, t)'
  <2>1. q # r
    BY <1>1, DieForgets, Zenon DEF CoreInv, Stale
  <2>2. cache'[q] = cache[q] /\ purge'[q] = purge[q] /\ lagged'[q] = lagged[q]
    BY <1>1, <2>1, Zenon DEF Die, CoreInv, StackTypeOK
  <2> QED BY <1>1, <2>1, <2>2, SMTT(60) DEF StaleIsPurged, Stale, PurgePending
<1>2. ASSUME NEW u \in Tuple, ReadHit(r, u) \/ ReadSyn(r, u)
      PROVE  PurgePending(q, t)'
  <2>1. UNCHANGED <<tuples, cache, lagged, purge, state, tupleOf>>
    BY <1>2, Zenon DEF ReadHit, ReadSyn
  <2> QED BY <2>1, PendingKeeps, StaleKeeps, Zenon
<1>3. ASSUME NEW u \in Tuple, ReadMiss(r, u)
      PROVE  PurgePending(q, t)'
  <2>1. /\ UNCHANGED <<tuples, lagged, purge, state, tupleOf>>
        /\ cache'[q][t] = IF q = r /\ t = u THEN tuples[t] ELSE cache[q][t]
    BY <1>3, Zenon DEF ReadMiss, CoreInv, StackTypeOK
  <2>2. Stale(q, t)
    BY <2>1, Zenon DEF Stale
  <2> QED BY <2>1, <2>2, PendingKeeps, Zenon DEF StaleIsPurged
<1>4. ASSUME NEW u \in Tuple, ReadUnknown(r, u)
      PROVE  PurgePending(q, t)'
  <2>1. CASE UNCHANGED vars
    <3>1. UNCHANGED <<tuples, cache, lagged, purge, state, tupleOf>>
      BY <2>1 DEF vars, readerVars
    <3> QED BY <3>1, PendingKeeps, StaleKeeps
  <2> QED BY <1>1, <1>4, <2>1, Zenon DEF ReadUnknown
<1>5. ASSUME NEW s \in Socket, Spawn(r, s)
      PROVE  PurgePending(q, t)'
  <2>1. dest[r] \in Tuple /\ tuples[dest[r]] = NoSocket
    BY <1>5, Zenon DEF Spawn, TableInv, CoreInv, HandInv, Tuple
  <2>2. /\ \A u \in Tuple : tuples'[u] = IF u = dest[r] THEN s ELSE tuples[u]
        /\ UNCHANGED <<cache, lagged, purge>>
        /\ \A d \in Socket : state[d] = "removed" =>
              state'[d] = "removed" /\ tupleOf'[d] = tupleOf[d]
    BY <1>5, <2>1, Zenon DEF Spawn, Register, Inserted, CoreInv, StackTypeOK
  <2>3. Stale(q, t)
    BY <2>1, <2>2, Zenon DEF Stale
  <2> QED BY <2>2, <2>3, PendingKeeps, Zenon DEF StaleIsPurged
<1>6. CASE SendHit(r) \/ SendMiss(r) \/ SendHitClosed(r)
  <2>1. UNCHANGED <<tuples, cache, lagged, purge, state, tupleOf>>
    BY <1>6, Zenon DEF SendHit, SendMiss, SendHitClosed, Deliver
  <2> QED BY <2>1, PendingKeeps, StaleKeeps, Zenon
<1>7. CASE Purge(r)
  <2>1. /\ Head(purge[r]) \in Tuple
        /\ cache'[q][t] = IF q = r /\ t = Head(purge[r]) THEN NoSocket ELSE cache[q][t]
        /\ tuples' = tuples
    BY <1>7, SMTT(30) DEF Purge, Evict, CoreInv, StackTypeOK
  <2>2. (q # r \/ t # Head(purge[r])) /\ Stale(q, t)
    BY <2>1, Zenon DEF Stale
  <2> QED BY <1>7, <2>2, PurgeRead DEF StaleIsPurged
<1>8. CASE ReadError(r) \/ PurgeLagged(r) \/ SendMissClosed(r)
  BY <1>1, <1>8, Zenon DEF ReadError, PurgeLagged, SendMissClosed
<1> QED BY <1>2, <1>3, <1>4, <1>5, <1>6, <1>7, <1>8, Zenon DEF ReaderStep

-----------------------------------------------------------------------------

StackInv == CoreInv /\ TableInv /\ StaleIsPurged

LEMMA StackInit == Init => StackInv
<1> SUFFICES ASSUME Init PROVE StackInv
  OBVIOUS
<1>1. CoreInv
  BY CoreInit
<1>2. TableInv
  BY Zenon DEF Init, TableInv, TableMatchesSockets, Live
<1>3. StaleIsPurged
  BY Zenon DEF Init, StaleIsPurged, Stale
<1> QED BY <1>1, <1>2, <1>3 DEF StackInv

LEMMA StackNext == ASSUME NoRace PROVE StackInv /\ [Next]_vars => StackInv'
<1> SUFFICES ASSUME StackInv, [Next]_vars PROVE StackInv'
  OBVIOUS
<1>1. CoreInv'
  BY CoreNext DEF StackInv
<1>2. TableInv'
  <2>1. CASE UNCHANGED vars
    BY <2>1, Zenon DEF vars, socketVars, readerVars, StackInv, TableInv, TableMatchesSockets
  <2> QED BY <2>1, TableMain, TableSocket, TableReader DEF StackInv, Next
<1>3. ASSUME NEW r \in Reader, NEW t \in Tuple, Stale(r, t)'
      PROVE  PurgePending(r, t)'
  <2>1. CASE UNCHANGED vars
    BY <1>3, <2>1, Zenon DEF vars, socketVars, readerVars, StackInv, StaleIsPurged, Stale, PurgePending
  <2>2. CASE Listen \/ Connect \/ ProbeUsed \/ Accept
    <3>1. /\ UNCHANGED <<tuples, tupleOf, cache, lagged, purge>>
          /\ state' = state \/ (ready # <<>> /\ state' = [state EXCEPT ![Head(ready)] = "open"])
      BY <2>2, Zenon DEF Listen, Connect, ProbeUsed, Accept, socketVars, readerVars
    <3>2. ready # <<>> => state[Head(ready)] = "ready"
      BY DEF StackInv, CoreInv, StackTypeOK, QueueInv
    <3>3. \A d \in Socket : state[d] = "removed" => state'[d] = "removed"
      BY <3>1, <3>2, Zenon DEF StackInv, CoreInv, StackTypeOK
    <3> QED BY <1>3, <3>1, <3>3, PendingKeeps, StaleKeeps, Zenon DEF StackInv
  <2> QED BY <1>3, <2>1, <2>2, StaleSocket, StaleReader DEF StackInv, Next
<1> QED BY <1>1, <1>2, <1>3 DEF StackInv, StaleIsPurged

LEMMA StackHolds == ASSUME NoRace PROVE Spec => []StackInv
BY StackInit, StackNext, PTL DEF Spec

\* The table and the sockets agree at all times, which is what the assert! of
\* Socket::drop relies on, unless two readers can accept the same peer at once.
THEOREM TableAlwaysMatches == ASSUME NoRace PROVE Spec => []TableMatchesSockets
<1>1. StackInv => TableMatchesSockets
  BY DEF StackInv, TableInv
<1> QED BY <1>1, StackHolds, PTL

\* No schedule of drops, new connections and lookups leaves a reader with a stale
\* sender and no purge for it on the way (Socket::drop, reader_task).
THEOREM StaleAlwaysPurged == ASSUME NoRace PROVE Spec => []StaleIsPurged
<1>1. StackInv => StaleIsPurged
  BY DEF StackInv
<1> QED BY <1>1, StackHolds, PTL

\* Neither Stack::connect nor the passive open ever replaces an entry of the
\* table: the assert!s at their insertions hold.
THEOREM EntriesNeverReplaced == ASSUME NoRace PROVE Spec => EntryNeverReplaced
<1>1. StackInv /\ [Next]_vars =>
          [\A t \in Tuple : tuples[t] # NoSocket => tuples'[t] \in {tuples[t], NoSocket}]_vars
  <2> SUFFICES ASSUME StackInv, Next
               PROVE  \A t \in Tuple : tuples[t] # NoSocket => tuples'[t] \in {tuples[t], NoSocket}
    BY Zenon
  <2> USE DEF socketVars
  <2>1. CASE Listen \/ Connect \/ ProbeUsed \/ Accept
    BY <2>1, Zenon DEF Listen, Connect, ProbeUsed, Accept
  <2>2. ASSUME NEW s \in Socket, NEW u \in Tuple, NEW st, Register(s, u, st), tuples[u] = NoSocket
        PROVE  \A t \in Tuple : tuples[t] # NoSocket => tuples'[t] \in {tuples[t], NoSocket}
    BY <2>2, Zenon DEF Register, Inserted, StackInv, CoreInv, StackTypeOK
  <2>3. ASSUME NEW s \in Socket, SocketStep(s)
        PROVE  \A t \in Tuple : tuples[t] # NoSocket => tuples'[t] \in {tuples[t], NoSocket}
    <3>1. CASE ProbeFree(s)
      <4>1. probe \in Tuple
        BY <3>1, Zenon DEF ProbeFree, StackInv, CoreInv, StackTypeOK, Tuple
      <4> QED BY <2>2, <3>1, <4>1, Zenon DEF ProbeFree, Free
    <3>2. CASE ~ProbeFree(s)
      BY <2>3, <3>2, Zenon DEF SocketStep, Established, AcceptEstablished, HandOver, Recv, DropRemove,
                        DropPurge, DropFields, StackInv, CoreInv, StackTypeOK
    <3> QED BY <3>1, <3>2, Zenon
  <2>4. ASSUME NEW r \in Reader, ReaderStep(r)
        PROVE  \A t \in Tuple : tuples[t] # NoSocket => tuples'[t] \in {tuples[t], NoSocket}
    <3>1. ASSUME NEW s \in Socket, Spawn(r, s)
          PROVE  \A t \in Tuple : tuples[t] # NoSocket => tuples'[t] \in {tuples[t], NoSocket}
      <4>1. dest[r] \in Tuple /\ tuples[dest[r]] = NoSocket
        BY <3>1, Zenon DEF Spawn, StackInv, TableInv, CoreInv, HandInv, Tuple
      <4> QED BY <2>2, <3>1, <4>1, Zenon DEF Spawn
    <3>2. CASE \A s \in Socket : ~Spawn(r, s)
      BY <2>4, <3>2, Zenon DEF ReaderStep, ReadHit, ReadMiss, ReadSyn, ReadUnknown, ReadError, SendHit,
                        SendHitClosed, SendMiss, SendMissClosed, Deliver, Purge, PurgeLagged, vars
    <3> QED BY <3>1, <3>2, Zenon
  <2> QED BY <2>1, <2>3, <2>4, Zenon DEF Next
<1> QED BY <1>1, StackHolds, PTL DEF Spec, EntryNeverReplaced

\* The assert! of Socket::drop (line 366) and the one of the passive open (line
\* 554) never fail.
THEOREM AssertsHold ==
    ASSUME NoRace
    PROVE  Spec => [](panics \cap {"drop_assert_366", "accept_assert_554"} = {})
<1> DEFINE Silent == panics \cap {"drop_assert_366", "accept_assert_554"} = {}
<1>1. Init => Silent
  BY DEF Init
<1>2. StackInv /\ Silent /\ [Next]_vars => Silent'
  <2> SUFFICES ASSUME StackInv, Silent, [Next]_vars
               PROVE  Silent'
    OBVIOUS
  <2>1. CASE UNCHANGED vars
    BY <2>1 DEF vars
  <2>2. CASE Listen \/ Connect \/ ProbeUsed \/ Accept
    BY <2>2, Zenon DEF Listen, Connect, ProbeUsed, Accept
  <2>3. ASSUME NEW s \in Socket, SocketStep(s)
        PROVE  Silent'
    <3>1. CASE DropRemove(s)
      <4>1. tuples[tupleOf[s]] = s /\ s # NoSocket
        BY <3>1, StackAssumption, Zenon
           DEF DropRemove, StackInv, TableInv, TableMatchesSockets, Live, StackAssumption
      <4> QED BY <3>1, <4>1, Zenon DEF DropRemove
    <3>2. CASE ~DropRemove(s)
      BY <2>3, <3>2, Zenon DEF SocketStep, ProbeFree, Established, AcceptEstablished, HandOver, Recv,
                        DropPurge, DropFields
    <3> QED BY <3>1, <3>2
  <2>4. ASSUME NEW r \in Reader, ReaderStep(r)
        PROVE  Silent'
    <3>1. ASSUME NEW s \in Socket, Spawn(r, s)
          PROVE  Silent'
      <4>1. tuples[dest[r]] = NoSocket
        BY <3>1, Zenon DEF Spawn, StackInv, TableInv
      <4> QED BY <3>1, <4>1, Zenon DEF Spawn
    <3>2. CASE \A s \in Socket : ~Spawn(r, s)
      BY <2>4, <3>2, Zenon DEF ReaderStep, ReadHit, ReadMiss, ReadSyn, ReadUnknown, ReadError, SendHit,
                        SendHitClosed, SendMiss, SendMissClosed, Deliver, Purge, PurgeLagged, Die, vars
    <3> QED BY <3>1, <3>2
  <2> QED BY <2>1, <2>2, <2>3, <2>4 DEF Next
<1> QED BY <1>1, <1>2, StackHolds, PTL DEF Spec

=============================================================================
