-------------------------- MODULE ForwarderProofs --------------------------
(***************************************************************************)
(* Proofs of the safety properties of Forwarder, for any clients, any      *)
(* number of connections and workers, and any UDP_TTL.                     *)
(*                                                                         *)
(* The properties are not inductive alone.  Why the loop's lookup is still *)
(* right when it inserts (LoopInv), why a cancelled timeout task belongs   *)
(* to a cancelled connection (TimerInv), and where a connection can be     *)
(* that nobody has cancelled (UnquitInv) complete them.                    *)
(***************************************************************************)
EXTENDS Forwarder, TLAPS

LoopInv ==
    /\ pc \in {"lookup", "send", "connect", "first", "insert"} => addr \in Client
    /\ pc \in {"connect", "first", "insert"} => connections[addr] = NoConnection
    /\ pc \in {"first", "insert"} =>
          /\ held \in Connection
          /\ owner[held] = addr
          /\ timer[held] = "off"
          /\ \A w \in Worker : worker[held][w] = "off"
    /\ pc \notin {"send", "first", "insert"} => held = NoConnection
    /\ pc = "stopped" => \A a \in Client : connections[a] = NoConnection
    /\ pc # "panicked"

TimerInv ==
    \A c \in Connection : timer[c] # "off" =>
        /\ owner[c] \in Client
        /\ timer[c] = "cancelled" => quit[c]
        /\ \A d \in Connection \ {c} : timer[d] # "off" => owner[d] # owner[c]

UnquitInv ==
    \A c \in Connection : InUse(c) /\ ~quit[c] =>
        \/ owner[c] \in Client /\ connections[owner[c]] = c
        \/ held = c /\ pc \in {"first", "insert"}
        \/ pc = "unwound" /\ timer[c] # "off"

IInv == TypeOK /\ EntryIffTimer /\ LoopInv /\ TimerInv /\ UnquitInv

-----------------------------------------------------------------------------
(* Types *)

LEMMA TypeInit == Init => TypeOK
<1> SUFFICES ASSUME Init PROVE TypeOK
  OBVIOUS
<1> USE ForwarderAssumption DEF ForwarderAssumption, Init
<1>1. inbox \in [Connection -> Seq(Packet)]
  OBVIOUS
<1>2. \A c \in Connection : Len(inbox[c]) <= MPMC_BUFFER_LEN
  OBVIOUS
<1>3. worker \in [Connection -> [Worker -> {"select", "forward", "off"}]]
  OBVIOUS
<1>4. age \in [Connection -> 0 .. UDP_TTL]
  OBVIOUS
<1> QED BY <1>1, <1>2, <1>3, <1>4, Zenon DEF TypeOK

LEMMA TypeSurroundings ==
    ASSUME TypeOK,
           \/ ReaderDies \/ CancelShutdown \/ Tick
           \/ \E c \in Connection, k \in Packet : Arrive(c, k)
    PROVE  TypeOK'
<1> USE ForwarderAssumption DEF ForwarderAssumption, TypeOK, mainVars, taskVars
<1>1. CASE ReaderDies
  BY <1>1, Zenon DEF ReaderDies
<1>2. CASE CancelShutdown
  BY <1>2 DEF CancelShutdown
<1>3. CASE Tick
  <2>1. age' \in [Connection -> 0 .. UDP_TTL]
    BY <1>3 DEF Tick
  <2> QED BY <1>3, <2>1, Zenon DEF Tick
<1>4. ASSUME NEW c \in Connection, NEW k \in Packet, Arrive(c, k)
      PROVE  TypeOK'
  <2>1. inbox' \in [Connection -> Seq(Packet)]
    BY <1>4 DEF Arrive
  <2>2. \A d \in Connection : Len(inbox'[d]) <= MPMC_BUFFER_LEN
    BY <1>4 DEF Arrive, Room
  <2> QED BY <1>4, <2>1, <2>2, Zenon DEF Arrive
<1> QED BY <1>1, <1>2, <1>3, <1>4, Zenon

LEMMA TypeMain == ASSUME TypeOK, LoopInv, MainStep PROVE TypeOK'
<1> USE ForwarderAssumption DEF ForwarderAssumption, TypeOK, mainVars, taskVars, At, LoopInv
<1>1. CASE DatagramError
  BY <1>1 DEF DatagramError
<1>2. CASE Lookup
  BY <1>2 DEF Lookup, Existing
<1>3. CASE SendExisting
  BY <1>3 DEF SendExisting, AfterDrop
<1>4. CASE ConnectFails
  BY <1>4 DEF ConnectFails, AfterDrop
<1>5. CASE SendFirst
  BY <1>5 DEF SendFirst, AfterDrop
<1>6. CASE Insert
  <2>1. CASE connections[addr] = NoConnection
    <3> HIDE DEF LoopInv, TypeOK
    <3>1. held \in Connection /\ addr \in Client
      BY <1>6 DEF Insert, LoopInv
    <3>2. [w \in Worker |-> "select"] \in [Worker -> {"select", "forward", "off"}]
      OBVIOUS
    <3>3. worker' \in [Connection -> [Worker -> {"select", "forward", "off"}]]
      BY <1>6, <2>1, <3>2, Zenon DEF Insert, TypeOK
    <3>a. 0 \in 0 .. UDP_TTL
      OBVIOUS
    <3>4. age' \in [Connection -> 0 .. UDP_TTL]
      BY <1>6, <2>1, <3>a, Zenon DEF Insert, TypeOK
    <3>5. connections' \in [Client -> Connection \cup {NoConnection}]
      BY <1>6, <3>1 DEF Insert, TypeOK
    <3>6. timer' \in [Connection -> {"armed", "expired", "cancelled", "off"}]
      BY <1>6, <2>1, Zenon DEF Insert, TypeOK
    <3>7. pc' = "select" /\ addr' = NoClient /\ held' = NoConnection
      BY <1>6, <2>1 DEF Insert
    <3>8. UNCHANGED <<reader, shutdown, owner, quit, permit, inbox>>
      BY <1>6 DEF Insert
    <3> QED BY <3>3, <3>4, <3>5, <3>6, <3>7, <3>8 DEF TypeOK
  <2>2. CASE connections[addr] # NoConnection
    BY <1>6, <2>2 DEF Insert
  <2> QED BY <2>1, <2>2
<1>7. CASE Stop
  BY <1>7 DEF Stop, CancelAll
<1>8. ASSUME NEW a \in Client, Datagram(a)
      PROVE  TypeOK'
  BY <1>8 DEF Datagram
<1>9. ASSUME NEW c \in Connection, Connect(c)
      PROVE  TypeOK'
  BY <1>9 DEF Connect
<1>10. CASE StopUnwinds
  BY <1>10 DEF StopUnwinds
<1> QED BY <1>1, <1>2, <1>3, <1>4, <1>5, <1>6, <1>7, <1>8, <1>9, <1>10, Zenon DEF MainStep

LEMMA TypeTask ==
    ASSUME TypeOK, TimerInv, NEW c \in Connection, TaskStep(c)
    PROVE  TypeOK'
<1> USE ForwarderAssumption DEF ForwarderAssumption, TypeOK, mainVars, taskVars, TimerInv
<1>1. ASSUME NEW w \in Worker, WorkerRecv(c, w)
      PROVE  TypeOK'
  <2>1. /\ inbox' \in [Connection -> Seq(Packet)]
        /\ \A d \in Connection : Len(inbox'[d]) <= MPMC_BUFFER_LEN
        /\ Head(inbox[c]) \in Packet
    BY <1>1 DEF WorkerRecv
  <2>2. worker' \in [Connection -> [Worker -> {"select", "forward", "off"}]]
    BY <1>1, <2>1 DEF WorkerRecv, Packet
  <2> QED BY <1>1, <2>1, <2>2, Zenon DEF WorkerRecv
<1>2. ASSUME NEW w \in Worker, WorkerForward(c, w)
      PROVE  TypeOK'
  BY <1>2 DEF WorkerForward
<1>3. ASSUME NEW w \in Worker, WorkerForwardFails(c, w)
      PROVE  TypeOK'
  BY <1>3, Zenon DEF WorkerForwardFails
<1>4. ASSUME NEW w \in Worker, WorkerQuit(c, w)
      PROVE  TypeOK'
  BY <1>4 DEF WorkerQuit
<1>5. CASE TimerExpire(c)
  BY <1>5 DEF TimerExpire
<1>6. CASE TimerCancel(c)
  BY <1>6 DEF TimerCancel
<1>7. CASE TimerRearm(c)
  BY <1>7 DEF TimerRearm
<1>8. CASE TimerRemove(c)
  BY <1>8 DEF TimerRemove, Without, CancelRemoved
<1> QED BY <1>1, <1>2, <1>3, <1>4, <1>5, <1>6, <1>7, <1>8, Zenon DEF TaskStep

-----------------------------------------------------------------------------
(* The inductive invariant *)

LEMMA InvInit == Init => IInv
<1> SUFFICES ASSUME Init PROVE IInv
  OBVIOUS
<1>1. TypeOK
  BY TypeInit
<1>2. EntryIffTimer /\ LoopInv /\ TimerInv
  BY ForwarderAssumption DEF ForwarderAssumption, Init, EntryIffTimer, LoopInv, TimerInv
<1>3. \A c \in Connection : ~InUse(c)
  BY ForwarderAssumption DEF ForwarderAssumption, Init, InUse
<1> QED BY <1>1, <1>2, <1>3 DEF IInv, UnquitInv

\* The device, the server, the clock and the shutdown token touch nothing that
\* the invariant relates.
LEMMA InvSurroundings ==
    ASSUME IInv,
           \/ ReaderDies \/ CancelShutdown \/ Tick
           \/ \E c \in Connection, k \in Packet : Arrive(c, k)
    PROVE  IInv'
<1>1. TypeOK'
  BY TypeSurroundings DEF IInv
<1>2. UNCHANGED <<pc, addr, held, connections, owner, quit, worker, timer>>
  BY DEF ReaderDies, CancelShutdown, Tick, Arrive, mainVars, taskVars
<1>3. EntryIffTimer' /\ LoopInv' /\ TimerInv'
  BY <1>2 DEF IInv, EntryIffTimer, LoopInv, TimerInv
<1>4. UnquitInv'
  BY <1>2 DEF IInv, UnquitInv, InUse
<1> QED BY <1>1, <1>3, <1>4 DEF IInv

\* Steps of the loop that only move it, with nothing in hand afterwards or with
\* a connection that is in the table.
LEMMA InvMoves ==
    ASSUME IInv,
           \/ DatagramError \/ Lookup \/ SendExisting \/ ConnectFails \/ SendFirst
           \/ \E a \in Client : Datagram(a)
    PROVE  IInv'
<1> USE ForwarderAssumption DEF ForwarderAssumption, IInv
<1>1. TypeOK'
  BY TypeMain DEF MainStep
<1>2. UNCHANGED <<connections, owner, quit, worker, timer>>
  BY DEF DatagramError, Lookup, SendExisting, ConnectFails, SendFirst, Datagram, taskVars
<1>3. pc \notin {"stopped", "unwound"} /\ pc' # "stopped"
  BY DEF DatagramError, Lookup, SendExisting, ConnectFails, SendFirst, Datagram, At, AfterDrop
<1>4. EntryIffTimer' /\ TimerInv'
  BY <1>2, <1>3 DEF EntryIffTimer, TimerInv
<1>5. LoopInv'
  BY <1>2, Zenon DEF LoopInv, TypeOK, DatagramError, Lookup, SendExisting, ConnectFails, SendFirst,
             Datagram, At, Existing, AfterDrop
<1>6. UnquitInv'
  <2> SUFFICES ASSUME NEW c \in Connection, InUse(c)', ~quit'[c]
               PROVE  \/ owner'[c] \in Client /\ connections'[owner'[c]] = c
                      \/ held' = c /\ pc' \in {"first", "insert"}
    BY DEF UnquitInv
  <2>1. CASE held' = c
    <3>1. (Lookup /\ connections[addr] = c) \/ SendFirst
      BY <2>1, Zenon DEF DatagramError, Lookup, SendExisting, ConnectFails, SendFirst,
                 Datagram, At, Existing
    <3> QED BY <2>1, <3>1, <1>2, Zenon DEF LoopInv, EntryIffTimer, SendFirst, Lookup, At, Existing
  <2>2. CASE held' # c
    <3>1. InUse(c)
      BY <2>2, <1>2 DEF InUse
    <3>2. CASE held = c /\ pc \in {"first", "insert"}
      <4>1. SendFirst
        BY <3>2 DEF DatagramError, Lookup, SendExisting, ConnectFails, SendFirst, Datagram
      <4>2. ~\E w \in Worker : worker[c][w] # "off"
        BY <3>2, Zenon DEF LoopInv
      <4>3. \A a \in Client : connections[a] # c
        BY <3>2, Zenon DEF LoopInv, EntryIffTimer
      <4> QED BY <2>2, <1>2, <4>2, <4>3 DEF InUse
    <3> QED BY <3>1, <3>2, <1>2, <1>3, Zenon DEF UnquitInv
  <2> QED BY <2>1, <2>2, Zenon
<1> QED BY <1>1, <1>4, <1>5, <1>6

\* A new connection is in nobody's hands but the loop's.
LEMMA InvConnect == ASSUME IInv, NEW c \in Connection, Connect(c) PROVE IInv'
<1> USE ForwarderAssumption DEF ForwarderAssumption, IInv
<1>1. TypeOK'
  BY TypeMain DEF MainStep
<1>2. /\ pc = "connect" /\ pc' = "first" /\ addr' = addr /\ held' = c
      /\ addr \in Client /\ connections[addr] = NoConnection
      /\ held = NoConnection
      /\ UNCHANGED <<connections, worker, timer>>
  BY Zenon DEF Connect, At, LoopInv
<1>3. /\ timer[c] = "off"
      /\ \A a \in Client : connections[a] # c
      /\ \A w \in Worker : worker[c][w] = "off"
  BY Zenon DEF Connect, Free, InUse
<1>4. /\ owner'[c] = addr /\ ~quit'[c]
      /\ \A d \in Connection \ {c} : owner'[d] = owner[d] /\ quit'[d] = quit[d]
  BY DEF Connect, TypeOK
<1>5. EntryIffTimer'
  BY <1>2, <1>3, <1>4 DEF EntryIffTimer
<1>6. LoopInv'
  BY <1>2, <1>3, <1>4 DEF LoopInv
<1>7. TimerInv'
  BY <1>2, <1>3, <1>4 DEF TimerInv
<1>8. UnquitInv'
  <2> SUFFICES ASSUME NEW d \in Connection, d # c, InUse(d)', ~quit'[d]
               PROVE  owner'[d] \in Client /\ connections'[owner'[d]] = d
    BY <1>2 DEF UnquitInv
  <2>1. InUse(d)
    BY <1>2 DEF InUse
  <2> QED BY <1>2, <1>4, <2>1, Zenon DEF UnquitInv
<1> QED BY <1>1, <1>5, <1>6, <1>7, <1>8

\* The connection moves from the loop's hands to the table and gets its tasks.
LEMMA InvInsert == ASSUME IInv, Insert PROVE IInv'
<1> USE ForwarderAssumption DEF ForwarderAssumption, IInv
<1>1. TypeOK'
  BY TypeMain DEF MainStep
<1>2. /\ pc = "insert" /\ addr \in Client /\ held \in Connection
      /\ connections[addr] = NoConnection
      /\ owner[held] = addr /\ timer[held] = "off"
  BY DEF Insert, LoopInv
<1>3. /\ pc' = "select" /\ held' = NoConnection
      /\ connections' = [connections EXCEPT ![addr] = held]
      /\ worker' = [worker EXCEPT ![held] = [w \in Worker |-> "select"]]
      /\ timer' = [timer EXCEPT ![held] = "armed"]
      /\ UNCHANGED <<owner, quit>>
  BY <1>2 DEF Insert, At
<1>4. /\ connections'[addr] = held /\ timer'[held] = "armed"
      /\ \A a \in Client \ {addr} : connections'[a] = connections[a]
      /\ \A c \in Connection \ {held} : timer'[c] = timer[c] /\ worker'[c] = worker[c]
  BY <1>2, <1>3 DEF TypeOK
<1>5. EntryIffTimer'
  BY <1>2, <1>3, <1>4 DEF EntryIffTimer
<1>6. LoopInv'
  BY <1>3 DEF LoopInv
<1>7. TimerInv'
  <2>1. \A c \in Connection \ {held} : timer[c] # "off" => owner[c] # addr
    BY <1>2 DEF EntryIffTimer
  <2> QED BY <1>2, <1>3, <1>4, <2>1 DEF TimerInv
<1>8. UnquitInv'
  <2> SUFFICES ASSUME NEW c \in Connection, c # held, InUse(c)', ~quit'[c]
               PROVE  owner'[c] \in Client /\ connections'[owner'[c]] = c
    BY <1>2, <1>3, <1>4, Zenon DEF UnquitInv
  <2>1. InUse(c)
    BY <1>2, <1>3, <1>4 DEF InUse
  <2>2. owner[c] \in Client /\ connections[owner[c]] = c
    BY <1>2, <1>3, <2>1, Zenon DEF UnquitInv
  <2> QED BY <1>2, <1>3, <1>4, <2>2
<1> QED BY <1>1, <1>5, <1>6, <1>7, <1>8

\* After cancel_all_connections every connection in use is cancelled.
LEMMA InvStop == ASSUME IInv, Stop PROVE IInv'
<1> USE ForwarderAssumption DEF ForwarderAssumption, IInv
<1>1. TypeOK'
  BY TypeMain DEF MainStep
<1>2. /\ pc = "select" /\ pc' = "stopped" /\ held = NoConnection /\ held' = NoConnection
      /\ \A a \in Client : connections'[a] = NoConnection
      /\ UNCHANGED <<owner, worker, timer>>
  BY Zenon DEF Stop, At, LoopInv, taskVars
<1>3. \A c \in Connection : quit'[c] = (quit[c] \/ \E a \in Client : connections[a] = c)
  BY DEF Stop, CancelAll
<1>4. EntryIffTimer' /\ LoopInv'
  BY <1>2 DEF EntryIffTimer, LoopInv
<1>5. TimerInv'
  BY <1>2, <1>3, Zenon DEF TimerInv
<1>6. UnquitInv'
  <2> SUFFICES ASSUME NEW c \in Connection, InUse(c)'
               PROVE  quit'[c]
    BY DEF UnquitInv
  <2>1. InUse(c)
    BY <1>2 DEF InUse
  <2> QED BY <1>2, <1>3, <2>1, Zenon DEF UnquitInv
<1> QED BY <1>1, <1>4, <1>5, <1>6

\* When its drops panic, what is left has its timeout task.
LEMMA InvStopUnwinds == ASSUME IInv, StopUnwinds PROVE IInv'
<1> USE ForwarderAssumption DEF ForwarderAssumption, IInv
<1>1. TypeOK'
  BY TypeMain DEF MainStep
<1>2. /\ pc = "select" /\ pc' = "unwound" /\ held = NoConnection /\ held' = NoConnection
      /\ \A a \in Client : connections'[a] = NoConnection
      /\ UNCHANGED <<owner, worker, timer>>
  BY Zenon DEF StopUnwinds, At, LoopInv, taskVars
<1>3. \A c \in Connection : quit[c] => quit'[c]
  BY Zenon DEF StopUnwinds
<1>4. EntryIffTimer' /\ LoopInv'
  BY <1>2 DEF EntryIffTimer, LoopInv
<1>5. TimerInv'
  BY <1>2, <1>3 DEF TimerInv
<1>6. UnquitInv'
  <2> SUFFICES ASSUME NEW c \in Connection, InUse(c)', ~quit'[c]
               PROVE  timer'[c] # "off"
    BY <1>2 DEF UnquitInv
  <2>1. InUse(c) /\ ~quit[c]
    BY <1>2, <1>3 DEF InUse
  <2>2. owner[c] \in Client /\ connections[owner[c]] = c
    BY <1>2, <2>1 DEF UnquitInv
  <2> QED BY <1>2, <2>2 DEF EntryIffTimer
<1> QED BY <1>1, <1>4, <1>5, <1>6

\* A worker lets go of its connection or cancels it, never the opposite.
LEMMA InvWorker ==
    ASSUME IInv, NEW c \in Connection, NEW w \in Worker,
           \/ WorkerRecv(c, w) \/ WorkerForward(c, w)
           \/ WorkerForwardFails(c, w) \/ WorkerQuit(c, w)
    PROVE  IInv'
<1> USE DEF IInv
<1>1. TypeOK'
  BY TypeTask DEF TaskStep
<1>2. /\ worker[c][w] # "off"
      /\ UNCHANGED <<pc, addr, held, connections, owner, timer>>
  BY DEF WorkerRecv, WorkerForward, WorkerForwardFails, WorkerQuit, mainVars
<1>3. \A d \in Connection : quit[d] => quit'[d]
  BY Zenon DEF WorkerRecv, WorkerForward, WorkerForwardFails, WorkerQuit, TypeOK
<1>4. \A d \in Connection, v \in Worker : worker[d][v] = "off" => worker'[d][v] = "off"
  <2>1. PICK x : worker' = [worker EXCEPT ![c][w] = x]
    BY DEF WorkerRecv, WorkerForward, WorkerForwardFails, WorkerQuit
  <2> QED BY <1>2, <2>1 DEF TypeOK
<1>5. EntryIffTimer' /\ TimerInv'
  BY <1>2, <1>3, Zenon DEF EntryIffTimer, TimerInv
<1>6. LoopInv'
  BY <1>2, <1>4, Zenon DEF LoopInv
<1>7. UnquitInv'
  <2> SUFFICES ASSUME NEW d \in Connection, InUse(d)', ~quit'[d]
               PROVE  InUse(d) /\ ~quit[d]
    BY <1>2, Zenon DEF UnquitInv
  <2> QED BY <1>2, <1>3, <1>4, Zenon DEF InUse
<1> QED BY <1>1, <1>5, <1>6, <1>7

\* The timeout task fires or sleeps again.
LEMMA InvTimer ==
    ASSUME IInv, NEW c \in Connection, TimerExpire(c) \/ TimerCancel(c) \/ TimerRearm(c)
    PROVE  IInv'
<1> USE DEF IInv
<1>1. TypeOK'
  BY TypeTask DEF TaskStep
<1>2. /\ timer[c] = "armed"
      /\ UNCHANGED <<pc, addr, held, connections, owner, quit, worker>>
  BY Zenon DEF TimerExpire, TimerCancel, TimerRearm, mainVars
<1>3. /\ timer'[c] # "off" /\ (timer'[c] = "cancelled" => quit[c])
      /\ \A d \in Connection \ {c} : timer'[d] = timer[d]
  BY DEF TimerExpire, TimerCancel, TimerRearm, TypeOK
<1>4. EntryIffTimer' /\ TimerInv'
  BY <1>2, <1>3 DEF EntryIffTimer, TimerInv
<1>5. LoopInv'
  BY <1>2, <1>3, Zenon DEF LoopInv
<1>6. UnquitInv'
  BY <1>2, <1>3, Zenon DEF UnquitInv, InUse
<1> QED BY <1>1, <1>4, <1>5, <1>6

\* The timeout task removes the entry by address: unless the loop has stopped
\* the entry is the one of its own connection.
LEMMA InvRemove == ASSUME IInv, NEW c \in Connection, TimerRemove(c) PROVE IInv'
<1> USE ForwarderAssumption DEF ForwarderAssumption, IInv
<1>1. TypeOK'
  BY TypeTask DEF TaskStep
<1>2. /\ timer[c] \in {"expired", "cancelled"} /\ owner[c] \in Client
      /\ UNCHANGED <<pc, addr, held, owner, worker>>
  BY Zenon DEF TimerRemove, TimerInv, mainVars
<1>3. /\ timer'[c] = "off" /\ connections'[owner[c]] = NoConnection
      /\ \A d \in Connection \ {c} : timer'[d] = timer[d]
      /\ \A a \in Client \ {owner[c]} : connections'[a] = connections[a]
  BY <1>2 DEF TimerRemove, Without, TypeOK
<1>4. /\ \A d \in Connection : quit[d] => quit'[d]
      /\ connections[owner[c]] \in {c, NoConnection} => quit'[c]
  BY <1>2, Zenon DEF TimerRemove, CancelRemoved, TimerInv, TypeOK
<1>5. EntryIffTimer'
  BY <1>2, <1>3 DEF EntryIffTimer
<1>6. LoopInv'
  BY <1>2, <1>3, Zenon DEF LoopInv
<1>7. TimerInv'
  BY <1>2, <1>3, <1>4 DEF TimerInv
<1>8. UnquitInv'
  <2> SUFFICES ASSUME NEW d \in Connection, InUse(d)', ~quit'[d]
               PROVE  \/ owner'[d] \in Client /\ connections'[owner'[d]] = d
                      \/ held' = d /\ pc' \in {"first", "insert"}
                      \/ pc' = "unwound" /\ timer'[d] # "off"
    BY Zenon DEF UnquitInv
  <2>1. InUse(d) /\ ~quit[d]
    BY <1>2, <1>3, <1>4 DEF InUse
  <2>2. CASE held = d /\ pc \in {"first", "insert"}
    BY <1>2, <2>2, Zenon
  <2>3. CASE owner[d] \in Client /\ connections[owner[d]] = d
    BY <1>2, <1>3, <1>4, <2>3 DEF EntryIffTimer, LoopInv
  <2>4. CASE pc = "unwound" /\ timer[d] # "off"
    <3>1. connections[owner[c]] \in {c, NoConnection}
      BY <1>2 DEF EntryIffTimer, TimerInv, TypeOK
    <3> QED BY <1>2, <1>3, <1>4, <2>4, <3>1, Zenon
  <2> QED BY <2>1, <2>2, <2>3, <2>4, Zenon DEF UnquitInv
<1> QED BY <1>1, <1>5, <1>6, <1>7, <1>8

LEMMA InvNext == IInv /\ [Next]_vars => IInv'
<1> SUFFICES ASSUME IInv, [Next]_vars PROVE IInv'
  OBVIOUS
<1>1. CASE \/ ReaderDies \/ CancelShutdown \/ Tick
           \/ \E c \in Connection, k \in Packet : Arrive(c, k)
  BY <1>1, InvSurroundings
<1>2. CASE MainStep
  BY <1>2, InvMoves, InvConnect, InvInsert, InvStop, InvStopUnwinds
     DEF MainStep
<1>3. ASSUME NEW c \in Connection, TaskStep(c) PROVE IInv'
  BY <1>3, InvWorker, InvTimer, InvRemove DEF TaskStep
<1>4. CASE UNCHANGED vars
  <2>1. /\ UNCHANGED <<reader, shutdown, pc, addr, held, connections, owner, quit>>
        /\ UNCHANGED <<permit, inbox, worker, timer, age>>
    BY <1>4 DEF vars, mainVars, taskVars
  <2>2. TypeOK'
    BY <2>1, Zenon DEF IInv, TypeOK
  <2>3. EntryIffTimer' /\ LoopInv' /\ TimerInv'
    BY <2>1 DEF IInv, EntryIffTimer, LoopInv, TimerInv
  <2>4. UnquitInv'
    BY <2>1, Zenon DEF IInv, UnquitInv, InUse
  <2> QED BY <2>2, <2>3, <2>4 DEF IInv
<1> QED BY <1>1, <1>2, <1>3, <1>4 DEF Next, Done

LEMMA InvHolds == Spec => []IInv
<1> QED BY InvInit, InvNext, PTL DEF Spec

-----------------------------------------------------------------------------
(* What the code relies on *)

\* Every variable keeps its type, and no channel ever exceeds its capacity.
THEOREM TypeCorrect == Spec => []TypeOK
<1>1. IInv => TypeOK
  BY DEF IInv
<1> QED BY <1>1, InvHolds, PTL

\* The removal by address of spawn_connection_timeout never hits the entry of
\* another connection, and no entry is left without its timeout task.
THEOREM EntryIffTimerHolds == Spec => []EntryIffTimer
<1>1. IInv => EntryIffTimer
  BY DEF IInv
<1> QED BY <1>1, InvHolds, PTL

\* The assert! of run_forwarder on the insertion never fails.
THEOREM InsertAssertNeverFails == Spec => []InsertAssertHolds
<1>1. IInv => InsertAssertHolds
  BY DEF IInv, LoopInv, InsertAssertHolds
<1> QED BY <1>1, InvHolds, PTL

\* No worker runs on without a token that is cancelled or a task to cancel it.
THEOREM NoWorkerOrphaned == Spec => []NoOrphanWorker
<1>1. ASSUME IInv, NEW c \in Connection, NEW w \in Worker, worker[c][w] # "off", ~quit[c]
      PROVE  timer[c] # "off"
  <2>1. InUse(c)
    BY <1>1 DEF InUse
  <2>2. ~(held = c /\ pc \in {"first", "insert"})
    BY <1>1 DEF IInv, LoopInv
  <2>3. (owner[c] \in Client /\ connections[owner[c]] = c) \/ timer[c] # "off"
    BY <1>1, <2>1, <2>2, Zenon DEF IInv, UnquitInv
  <2> QED BY <1>1, <2>3 DEF IInv, EntryIffTimer
<1>2. IInv => NoOrphanWorker
  BY <1>1, Zenon DEF NoOrphanWorker
<1> QED BY <1>2, InvHolds, PTL

\* Of two sockets in use for one client at least one is being closed.
THEOREM ClientHasOneLiveConnection == Spec => []OneLiveConnection
<1>1. ASSUME IInv, NEW c \in Connection, NEW d \in Connection, c # d,
             InUse(c), InUse(d), owner[c] = owner[d], ~quit[c], ~quit[d]
      PROVE  FALSE
  <2>1. \/ owner[c] \in Client /\ connections[owner[c]] = c
        \/ held = c /\ pc \in {"first", "insert"}
        \/ pc = "unwound" /\ timer[c] # "off"
    BY <1>1 DEF IInv, UnquitInv
  <2>2. \/ owner[d] \in Client /\ connections[owner[d]] = d
        \/ held = d /\ pc \in {"first", "insert"}
        \/ pc = "unwound" /\ timer[d] # "off"
    BY <1>1 DEF IInv, UnquitInv
  <2>3. pc \in {"first", "insert"} => connections[owner[held]] = NoConnection
    BY <1>1 DEF IInv, LoopInv
  <2>4. connections[owner[c]] = c => timer[c] # "off"
    BY <1>1, <2>1 DEF IInv, EntryIffTimer, TimerInv, LoopInv
  <2>5. connections[owner[d]] = d => timer[d] # "off"
    BY <1>1, <2>2 DEF IInv, EntryIffTimer, TimerInv, LoopInv
  <2>6. ~(timer[c] # "off" /\ timer[d] # "off")
    BY <1>1, Zenon DEF IInv, TimerInv
  <2> QED BY <1>1, <2>1, <2>2, <2>3, <2>4, <2>5, <2>6, ForwarderAssumption
         DEF ForwarderAssumption
<1>2. IInv => OneLiveConnection
  BY <1>1 DEF OneLiveConnection
<1> QED BY <1>2, InvHolds, PTL

-----------------------------------------------------------------------------
(* Forwarder implements Session *)

\* The client of a connection in Session.
Who(c) == IF Free(c) THEN NoClient ELSE owner[c]

Serving(c) == \E a \in Client : connections[a] = c
Dialing(c) == held = c /\ pc \in {"first", "insert"}

\* The four phases exclude each other: what is dialled for is not in the table
\* yet, and what is in the table or dialled for is not free.
LEMMA PhaseIs ==
    ASSUME IInv, NEW c \in Connection
    PROVE  /\ Phase(c) = "free" <=> Free(c)
           /\ Phase(c) = "dialing" <=> Dialing(c)
           /\ Phase(c) = "serving" <=> Serving(c)
           /\ Phase(c) \in {"free", "dialing", "serving", "closing"}
<1>1. Dialing(c) => ~Free(c) /\ timer[c] = "off"
  BY DEF Dialing, Free, InUse, IInv, LoopInv
<1>2. Serving(c) => ~Free(c) /\ timer[c] # "off"
  BY DEF Serving, Free, InUse, IInv, EntryIffTimer
<1> QED BY <1>1, <1>2 DEF Phase, Dialing, Serving

\* Every other connection is as it was.
Same(d) == Phase(d)' = Phase(d) /\ Who(d)' = Who(d)

LEMMA LifeStutters ==
    ASSUME \A d \in Connection : Same(d)
    PROVE  UNCHANGED Life!vars
BY DEF Life!vars, Same, Who

LEMMA LifeReleases ==
    ASSUME NEW c \in Connection, Phase(c) \in {"serving", "closing"}, Phase(c)' = "free", Free(c)',
           \A d \in Connection \ {c} : Same(d)
    PROVE  Life!Next
<1>1. Life!Release(c)
  BY Zenon DEF Life!Release, Same, Who
<1> QED BY <1>1 DEF Life!Next

LEMMA LifeAbandons ==
    ASSUME NEW c \in Connection, Phase(c) = "dialing", Phase(c)' = "free", Free(c)',
           \A d \in Connection \ {c} : Same(d)
    PROVE  Life!Next
<1>1. Life!Abandon(c)
  BY Zenon DEF Life!Abandon, Same, Who
<1> QED BY <1>1 DEF Life!Next

LEMMA LifeCloses ==
    ASSUME NEW c \in Connection, Phase(c) = "serving", Phase(c)' = "closing", Who(c)' = Who(c),
           \A d \in Connection \ {c} : Same(d)
    PROVE  Life!Next
<1>1. Life!Close({c})
  BY DEF Life!Close, Life!In, Same, Who
<1> QED BY <1>1 DEF Life!Next

LEMMA LifeDials ==
    ASSUME IInv, NEW c \in Connection, NEW a \in Client, connections[a] = NoConnection,
           \A d \in Connection : ~Dialing(d), Free(c),
           Phase(c)' = "dialing", Who(c)' = a,
           \A d \in Connection \ {c} : Same(d)
    PROVE  Life!Next
<1>1. Phase(c) = "free" /\ \A d \in Connection : Phase(d) # "dialing"
  BY PhaseIs
<1>2. \A d \in Connection : Phase(d) = "serving" => Who(d) # a
  <2> SUFFICES ASSUME NEW d \in Connection, Phase(d) = "serving" PROVE Who(d) # a
    OBVIOUS
  <2>1. PICK b \in Client : connections[b] = d
    BY PhaseIs DEF Serving
  <2>2. owner[d] = b /\ ~Free(d) /\ b # a
    BY <2>1, ForwarderAssumption, Zenon DEF IInv, EntryIffTimer, Free, InUse, ForwarderAssumption
  <2> QED BY <2>2 DEF Who
<1>3. Life!In("dialing") = {} /\ a \notin Life!Served
  BY <1>1, <1>2, Zenon DEF Life!In, Life!Served, Who
<1>4. Life!Dial(c, a)
  BY <1>1, <1>3, Zenon DEF Life!Dial, Same, Who
<1> QED BY <1>4 DEF Life!Next

LEMMA LifeServes ==
    ASSUME IInv, NEW c \in Connection, Dialing(c), connections[owner[c]] = NoConnection,
           owner[c] \in Client, Phase(c)' = "serving", Who(c)' = Who(c),
           \A d \in Connection \ {c} : Same(d)
    PROVE  Life!Next
<1>1. Phase(c) = "dialing" /\ Who(c) = owner[c]
  BY PhaseIs, Zenon DEF Who
<1>2. \A d \in Connection : Phase(d) = "serving" => Who(d) # owner[c]
  <2> SUFFICES ASSUME NEW d \in Connection, Phase(d) = "serving" PROVE Who(d) # owner[c]
    OBVIOUS
  <2>1. PICK b \in Client : connections[b] = d
    BY PhaseIs, Zenon DEF Serving
  <2>2. owner[d] = b /\ ~Free(d) /\ b # owner[c]
    BY <2>1, ForwarderAssumption, Zenon DEF IInv, EntryIffTimer, Free, InUse, ForwarderAssumption
  <2> QED BY <2>2, Zenon DEF Who
<1>3. Who(c) \notin Life!Served
  BY <1>1, <1>2, Zenon DEF Life!In, Life!Served, Who
<1>4. Life!Serve(c)
  BY <1>1, <1>3, Zenon DEF Life!Serve, Same, Who
<1> QED BY <1>4, Zenon DEF Life!Next

LEMMA LifeClosesAll ==
    ASSUME \A d \in Connection :
               /\ Phase(d)' = IF Phase(d) = "serving" THEN "closing" ELSE Phase(d)
               /\ Who(d)' = Who(d)
    PROVE  Life!Next \/ UNCHANGED Life!vars
<1>1. CASE \A d \in Connection : Phase(d) # "serving"
  BY <1>1, LifeStutters DEF Same
<1>2. CASE \E d \in Connection : Phase(d) = "serving"
  <2>1. Life!Close(Life!In("serving"))
    BY <1>2, Zenon DEF Life!Close, Life!In, Who
  <2> QED BY <2>1 DEF Life!Next
<1> QED BY <1>1, <1>2

\* A connection that nobody gets or loses a reference to.
LEMMA SameIf ==
    ASSUME NEW d \in Connection, Free(d)' <=> Free(d), Dialing(d)' <=> Dialing(d),
           Serving(d)' <=> Serving(d), owner'[d] = owner[d]
    PROVE  Same(d)
BY DEF Same, Phase, Who, Dialing, Serving

LEMMA LifeMain ==
    ASSUME IInv, MainStep
    PROVE  Life!Next \/ UNCHANGED Life!vars
<1> USE ForwarderAssumption DEF ForwarderAssumption, mainVars, taskVars, At
<1>1. CASE DatagramError \/ ConnectFails \/ \E a \in Client : Datagram(a)
  <2>1. /\ held = NoConnection /\ held' = NoConnection
        /\ pc \notin {"first", "insert"} /\ pc' \notin {"first", "insert"}
        /\ UNCHANGED <<connections, owner, worker, timer>>
    BY <1>1, Zenon DEF DatagramError, ConnectFails, Datagram, AfterDrop, IInv, LoopInv
  <2>2. \A d \in Connection : Same(d)
    BY <2>1, SameIf, Zenon DEF Free, InUse, Dialing, Serving
  <2> QED BY <2>2, LifeStutters
<1>2. CASE Lookup
  <2>1. /\ held = NoConnection /\ addr \in Client
        /\ held' # NoConnection => connections[addr] = held'
        /\ pc \notin {"first", "insert"} /\ pc' \notin {"first", "insert"}
        /\ UNCHANGED <<connections, owner, worker, timer>>
    BY <1>2, Zenon DEF Lookup, Existing, IInv, LoopInv
  <2>2. \A d \in Connection : Same(d)
    BY <2>1, SameIf, Zenon DEF Free, InUse, Dialing, Serving
  <2> QED BY <2>2, LifeStutters
<1>3. CASE SendExisting
  <2>1. /\ held' = NoConnection
        /\ pc = "send" /\ pc' \notin {"first", "insert"}
        /\ UNCHANGED <<connections, owner, worker, timer>>
    BY <1>3 DEF SendExisting, AfterDrop
  <2>2. ASSUME NEW d \in Connection, d # held
        PROVE  Same(d)
    BY <2>1, <2>2, SameIf DEF Free, InUse, Dialing, Serving
  <2>3. CASE held = NoConnection
    <3>1. \A d \in Connection : Same(d)
      BY <2>2, <2>3
    <3> QED BY <3>1, LifeStutters
  <2>4. ASSUME NEW c \in Connection, c = held
        PROVE  Life!Next \/ UNCHANGED Life!vars
    <3>1. ~Free(c) /\ ~Dialing(c) /\ ~Dialing(c)'
      BY <2>1, <2>4 DEF Free, InUse, Dialing
    <3>2. CASE InUse(c)'
      <4>1. Same(c)
        BY <2>1, <3>1, <3>2, SameIf, Zenon DEF Free, Serving
      <4>2. \A d \in Connection : Same(d)
        BY <2>2, <2>4, <4>1
      <4> QED BY <4>2, LifeStutters
    <3>3. CASE ~InUse(c)'
      <4>1. ~Serving(c)
        BY <2>1, <3>3 DEF Serving, InUse
      <4>2. timer[c] = "off"
        BY <2>1, <4>1 DEF Serving, IInv, EntryIffTimer, TimerInv
      <4>3. Free(c)'
        BY <2>1, <3>3, <4>2 DEF Free
      <4>4. Phase(c) = "closing" /\ Phase(c)' = "free"
        BY <3>1, <4>1, <4>3 DEF Phase, Serving, Dialing, Free, InUse
      <4> QED BY <2>2, <2>4, <4>3, <4>4, LifeReleases
    <3> QED BY <3>2, <3>3
  <2> QED BY <2>3, <2>4 DEF IInv, TypeOK
<1>4. CASE SendFirst
  <2>1. /\ held \in Connection /\ pc = "first"
        /\ timer[held] = "off" /\ \A w \in Worker : worker[held][w] = "off"
        /\ UNCHANGED <<connections, owner, worker, timer>>
    BY <1>4, Zenon DEF SendFirst, IInv, LoopInv
  <2>2. CASE pc' = "insert" /\ held' = held
    <3>1. \A d \in Connection : Same(d)
      BY <2>1, <2>2, SameIf, Zenon DEF Free, InUse, Dialing, Serving
    <3> QED BY <3>1, LifeStutters
  <2>3. CASE pc' \notin {"first", "insert"} /\ held' = NoConnection
    <3>1. PICK c \in Connection : c = held
      BY <2>1
    <3>2. \A d \in Connection \ {c} : Same(d)
      BY <2>1, <2>3, <3>1, SameIf, Zenon DEF Free, InUse, Dialing, Serving
    <3>3. \A a \in Client : connections[a] # c
      BY <2>1, <3>1 DEF IInv, EntryIffTimer
    <3>4. ~InUse(c)'
      BY <2>1, <2>3, <3>1, <3>3 DEF InUse
    <3>5. Free(c)'
      BY <2>1, <3>1, <3>4 DEF Free
    <3>6. Phase(c) = "dialing" /\ Phase(c)' = "free"
      BY <2>1, <3>1, <3>3, <3>5 DEF Phase, Dialing, Free, InUse
    <3> QED BY <3>2, <3>5, <3>6, LifeAbandons
  <2> QED BY <1>4, <2>2, <2>3 DEF SendFirst, AfterDrop
<1>5. CASE Insert
  <2>1. PICK c \in Connection : c = held
    BY <1>5 DEF Insert, IInv, LoopInv
  <2>2. /\ addr \in Client /\ connections[addr] = NoConnection /\ owner[c] = addr
        /\ pc = "insert" /\ timer[c] = "off"
    BY <1>5, <2>1, Zenon DEF Insert, IInv, LoopInv
  <2>3. /\ connections' = [connections EXCEPT ![addr] = c]
        /\ worker' = [worker EXCEPT ![c] = [w \in Worker |-> "select"]]
        /\ timer' = [timer EXCEPT ![c] = "armed"]
        /\ pc' = "select" /\ held' = NoConnection /\ owner' = owner
    BY <1>5, <2>1, <2>2, Zenon DEF Insert
  <2>4. ASSUME NEW d \in Connection \ {c}
        PROVE  Same(d)
    <3>1. Serving(d)' <=> Serving(d)
      BY <2>2, <2>3 DEF Serving, IInv, TypeOK
    <3>2. worker'[d] = worker[d] /\ timer'[d] = timer[d] /\ held' # d /\ held # d
      BY <2>1, <2>3 DEF IInv, TypeOK
    <3>3. InUse(d)' <=> InUse(d)
      BY <3>1, <3>2 DEF InUse, Serving
    <3> QED BY <2>3, <3>1, <3>2, <3>3, SameIf DEF Free, Dialing
  <2>5. Dialing(c) /\ ~Dialing(c)' /\ Serving(c)'
    BY <2>1, <2>2, <2>3, Zenon DEF Dialing, Serving, IInv, TypeOK
  <2>6. ~Free(c)' /\ ~Free(c)
    BY <2>5 DEF Free, InUse, Serving, Dialing
  <2>7. Phase(c)' = "serving" /\ Who(c)' = Who(c)
    BY <2>3, <2>5, <2>6 DEF Phase, Who, Dialing, Serving
  <2> QED BY <2>2, <2>4, <2>5, <2>7, LifeServes, Zenon
<1>6. CASE Stop \/ StopUnwinds
  <2>1. /\ pc = "select" /\ held = NoConnection /\ held' = NoConnection
        /\ pc' \notin {"first", "insert"}
        /\ \A a \in Client : connections'[a] = NoConnection
        /\ UNCHANGED <<owner, worker, timer>>
    BY <1>6, Zenon DEF Stop, StopUnwinds, IInv, LoopInv
  <2>2. ASSUME NEW d \in Connection
        PROVE  /\ Phase(d)' = IF Phase(d) = "serving" THEN "closing" ELSE Phase(d)
               /\ Who(d)' = Who(d)
    <3>1. ~Dialing(d) /\ ~Dialing(d)' /\ ~Serving(d)'
      BY <2>1 DEF Dialing, Serving
    <3>2. Serving(d) => timer[d] # "off"
      BY DEF Serving, IInv, EntryIffTimer
    <3>3. Free(d)' <=> Free(d)
      BY <2>1, <3>2 DEF Free, InUse, Serving
    <3> QED BY <2>1, <3>1, <3>2, <3>3 DEF Phase, Who, Dialing, Serving, Free
  <2> QED BY <2>2, LifeClosesAll
<1>7. ASSUME NEW c \in Connection, Connect(c)
      PROVE  Life!Next
  <2>1. /\ pc = "connect" /\ held = NoConnection /\ addr \in Client
        /\ connections[addr] = NoConnection /\ Free(c)
        /\ pc' = "first" /\ held' = c
        /\ owner' = [owner EXCEPT ![c] = addr]
        /\ UNCHANGED <<connections, worker, timer>>
    BY <1>7, Zenon DEF Connect, IInv, LoopInv
  <2>2. ASSUME NEW d \in Connection \ {c}
        PROVE  Same(d)
    BY <2>1, SameIf, Zenon DEF Free, InUse, Dialing, Serving, IInv, TypeOK
  <2>3. ~Free(c)' /\ Dialing(c)' /\ ~Serving(c)' /\ owner'[c] = addr
    BY <2>1, Zenon DEF Free, InUse, Dialing, Serving, IInv, TypeOK
  <2>4. Phase(c)' = "dialing" /\ Who(c)' = addr
    BY <2>3 DEF Phase, Who, Dialing, Serving
  <2>5. \A d \in Connection : ~Dialing(d)
    BY <2>1 DEF Dialing
  <2> QED BY <2>1, <2>2, <2>4, <2>5, LifeDials
<1> QED BY <1>1, <1>2, <1>3, <1>4, <1>5, <1>6, <1>7 DEF MainStep

LEMMA LifeTask ==
    ASSUME IInv, NEW c \in Connection, TaskStep(c)
    PROVE  Life!Next \/ UNCHANGED Life!vars
<1> USE ForwarderAssumption DEF ForwarderAssumption, mainVars, taskVars
<1>1. ASSUME NEW w \in Worker,
             WorkerRecv(c, w) \/ WorkerForward(c, w) \/ WorkerForwardFails(c, w) \/ WorkerQuit(c, w)
      PROVE  Life!Next \/ UNCHANGED Life!vars
  <2>1. /\ UNCHANGED <<pc, held, connections, owner, timer>>
        /\ worker[c][w] # "off"
        /\ \A d \in Connection \ {c} : worker'[d] = worker[d]
    BY <1>1, Zenon DEF WorkerRecv, WorkerForward, WorkerForwardFails, WorkerQuit, IInv, TypeOK
  <2>2. \A d \in Connection \ {c} : Same(d)
    BY <2>1, SameIf, Zenon DEF Free, InUse, Dialing, Serving
  <2>3. ~Free(c) /\ ~Dialing(c)
    BY <2>1, Zenon DEF Free, InUse, Dialing, IInv, LoopInv
  <2>4. CASE ~Free(c)'
    <3>1. Same(c)
      BY <2>1, <2>3, <2>4, SameIf, Zenon DEF Dialing, Serving
    <3>2. \A d \in Connection : Same(d)
      BY <2>2, <3>1
    <3> QED BY <3>2, LifeStutters
  <2>5. CASE Free(c)'
    <3>1. timer[c] = "off" /\ ~Serving(c)
      BY <2>1, <2>5, Zenon DEF Free, InUse, Serving
    <3>2. Phase(c) = "closing" /\ Phase(c)' = "free"
      BY <2>3, <2>5, <3>1 DEF Phase, Dialing, Serving, Free, InUse
    <3> QED BY <2>2, <2>5, <3>2, LifeReleases
  <2> QED BY <2>4, <2>5
<1>2. CASE TimerExpire(c) \/ TimerCancel(c) \/ TimerRearm(c)
  <2>1. /\ UNCHANGED <<pc, held, connections, owner, worker>>
        /\ \A d \in Connection : timer'[d] = "off" <=> timer[d] = "off"
    BY <1>2 DEF TimerExpire, TimerCancel, TimerRearm, IInv, TypeOK
  <2>2. \A d \in Connection : Same(d)
    BY <2>1, SameIf, Zenon DEF Free, InUse, Dialing, Serving
  <2> QED BY <2>2, LifeStutters
<1>3. CASE TimerRemove(c)
  <2>1. /\ timer[c] # "off" /\ owner[c] \in Client
        /\ timer' = [timer EXCEPT ![c] = "off"]
        /\ connections' = [connections EXCEPT ![owner[c]] = NoConnection]
        /\ UNCHANGED <<pc, held, owner, worker>>
    BY <1>3, Zenon DEF TimerRemove, Without, IInv, TimerInv
  <2>2. connections[owner[c]] \in {c, NoConnection}
    <3> SUFFICES ASSUME NEW d \in Connection \ {c}, connections[owner[c]] = d PROVE FALSE
      BY <2>1, Zenon DEF IInv, TypeOK
    <3>1. owner[d] = owner[c] /\ timer[d] # "off"
      BY <2>1 DEF IInv, EntryIffTimer
    <3> QED BY <2>1, <3>1, Zenon DEF IInv, TimerInv
  <2>3. ASSUME NEW d \in Connection \ {c}
        PROVE  Same(d)
    <3>1. Serving(d)' <=> Serving(d)
      BY <2>1, <2>2, Zenon DEF Serving, IInv, TypeOK
    <3>2. timer'[d] = timer[d]
      BY <2>1, Zenon DEF IInv, TypeOK
    <3>3. InUse(d)' <=> InUse(d)
      BY <2>1, <3>1, Zenon DEF InUse, Serving
    <3> QED BY <2>1, <3>1, <3>2, <3>3, SameIf, Zenon DEF Free, Dialing
  <2>4. ~Free(c) /\ ~Dialing(c) /\ ~Dialing(c)'
    BY <2>1, Zenon DEF Free, Dialing, IInv, LoopInv
  <2>5. ~Serving(c)' /\ timer'[c] = "off"
    <3>1. \A a \in Client : connections[a] = c => a = owner[c]
      BY DEF IInv, EntryIffTimer
    <3> QED BY <2>1, <3>1, Zenon DEF Serving, IInv, TypeOK
  <2>6. Phase(c) = IF Serving(c) THEN "serving" ELSE "closing"
    BY <2>4 DEF Phase, Dialing, Serving
  <2>7. CASE Free(c)'
    <3>1. Phase(c)' = "free"
      BY <2>7 DEF Phase, Free, InUse
    <3> QED BY <2>3, <2>6, <2>7, <3>1, LifeReleases
  <2>8. CASE ~Free(c)'
    <3>1. Phase(c)' = "closing" /\ Who(c)' = Who(c)
      BY <2>1, <2>4, <2>5, <2>8 DEF Phase, Who, Dialing, Serving
    <3>2. CASE Serving(c)
      BY <2>3, <2>6, <3>1, <3>2, LifeCloses
    <3>3. CASE ~Serving(c)
      <4>1. \A d \in Connection : Same(d)
        BY <2>3, <2>6, <3>1, <3>3 DEF Same
      <4> QED BY <4>1, LifeStutters
    <3> QED BY <3>2, <3>3
  <2> QED BY <2>7, <2>8
<1> QED BY <1>1, <1>2, <1>3 DEF TaskStep

\* The loop, its workers and its timeout tasks implement Session: a client is
\* dialled for only while nobody serves it, is served by one connection, and a
\* connection that has left the table is never served from again.
THEOREM ForwarderImplementsSession == Spec => ImplementsSession
<1>1. Init => Life!Init
  <2> SUFFICES ASSUME Init PROVE Life!Init
    OBVIOUS
  <2>1. \A c \in Connection : Free(c)
    BY ForwarderAssumption DEF ForwarderAssumption, Init, Free, InUse
  <2> QED BY <2>1 DEF Life!Init, Phase, Free, InUse
<1>2. IInv /\ [Next]_vars => [Life!Next]_(Life!vars)
  <2> SUFFICES ASSUME IInv, [Next]_vars PROVE Life!Next \/ UNCHANGED Life!vars
    OBVIOUS
  <2>1. CASE \/ Done \/ UNCHANGED vars \/ ReaderDies \/ CancelShutdown \/ Tick
             \/ \E c \in Connection, k \in Packet : Arrive(c, k)
    <3>1. UNCHANGED <<pc, held, connections, owner, worker, timer>>
      BY <2>1, Zenon DEF Done, vars, ReaderDies, CancelShutdown, Tick, Arrive, mainVars, taskVars
    <3>2. \A d \in Connection : Same(d)
      BY <3>1, SameIf, Zenon DEF Free, InUse, Dialing, Serving
    <3> QED BY <3>2, LifeStutters
  <2> QED BY <2>1, LifeMain, LifeTask DEF Next
<1> QED BY <1>1, <1>2, InvHolds, PTL DEF Spec, ImplementsSession, Life!Spec

=============================================================================
