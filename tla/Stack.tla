------------------------------- MODULE Stack -------------------------------
(***************************************************************************)
(* The dispatch core of the fake-tcp crate (src/fake-tcp/src/lib.rs): the  *)
(* table Shared::tuples from connection tuples to sockets, the creation of *)
(* sockets by Stack::connect and by the passive open of reader_task, their *)
(* destruction by Socket::drop, and the reader tasks with their private    *)
(* cache of the table and the broadcast channel that purges it.            *)
(*                                                                         *)
(* What is abstracted.  An AddrTuple is a member of Tuple: a local port    *)
(* for connections opened by this end (its other three parts are fixed),   *)
(* the remote address for connections opened towards the listening port.   *)
(* A packet is the tuple it is addressed to.  The handshake a socket goes  *)
(* through ends here after any number of received packets, well or badly.  *)
(*                                                                         *)
(* unwrap() and assert! are modelled as panics: the site is recorded in    *)
(* panics and the task that runs it ends.                                  *)
(***************************************************************************)
EXTENDS Integers, Sequences

CONSTANTS
    Socket,             \* names of Socket objects, reused once they are dropped
    NoSocket,
    Disconnected,       \* a sender whose channel has lost its receiver
    Reader,             \* one reader_task for each TUN device
    FirstPort,          \* the ephemeral ports, 32768..60999 in the code
    LastPort,
    Peer,               \* remote addresses that may open a connection to us
    NoTuple,
    MPMC_BUFFER_LEN,    \* capacity of a socket's packet channel
    MPSC_BUFFER_LEN,    \* capacity of the channel of accepted sockets
    PURGE_LEN           \* capacity of the purge broadcast channel

ASSUME StackAssumption ==
    /\ NoSocket \notin Socket /\ Disconnected \notin Socket \cup {NoSocket}
    /\ {FirstPort, LastPort} \subseteq Nat \ {0}
    /\ NoTuple \notin (FirstPort .. LastPort) \cup Peer
    /\ {MPMC_BUFFER_LEN, MPSC_BUFFER_LEN, PURGE_LEN} \subseteq Nat \ {0}

Port == FirstPort .. LastPort
Tuple == Port \cup Peer
Sender == Socket \cup {Disconnected}

NoPort == 0

\* A socket is used from its creation until its receiver is dropped:
\*   opening    Stack::connect is in the handshake
\*   accepting  the task of Socket::accept is in the handshake
\*   handing    accepted, Socket::accept waits to send it to `ready`
\*   ready      in the channel Stack::accept reads
\*   open       owned by the application
\*   unwinding  the assert of the passive open has failed
\*   removed    Socket::drop has taken the tuple out of Shared::tuples
\*   purged     Socket::drop has sent the purge
\*   closed     the fields are dropped, the channel with them; or never created
Live == {"opening", "accepting", "handing", "ready", "open"}

VARIABLES
    tuples,      \* Shared::tuples: the socket registered for each tuple
    listening,   \* Shared::listening holds the port the peers connect to
    ready,       \* the channel of accepted sockets
    state,       \* where each socket is in its life
    tupleOf,     \* local_addr and remote_addr of each socket
    incoming,    \* each socket's channel of received packets
    probe,       \* Stack::connect: the port it tries next
    connecting,  \* Stack::connect: the socket it is opening or dropping
    cache,       \* reader_task: its local table `tuples`
    purge,       \* reader_task: unread messages of its purge receiver
    lagged,      \* reader_task: it has missed a purge message
    pc,          \* reader_task: which await it is at
    dest,        \* reader_task: the tuple of the packet in hand
    target,      \* reader_task: the channel it is sending to
    panics       \* asserts and unwraps that have failed, by line of lib.rs

socketVars == <<state, tupleOf, incoming>>
connectVars == <<probe, connecting>>
readerVars == <<cache, purge, lagged, pc, dest, target>>
vars == <<tuples, listening, ready, socketVars, connectVars, readerVars, panics>>

Init ==
    /\ tuples = [t \in Tuple |-> NoSocket]
    /\ listening = FALSE
    /\ ready = <<>>
    /\ state = [s \in Socket |-> "closed"]
    /\ tupleOf = [s \in Socket |-> NoTuple]
    /\ incoming = [s \in Socket |-> <<>>]
    /\ probe = NoPort
    /\ connecting = NoSocket
    /\ cache = [r \in Reader |-> [t \in Tuple |-> NoSocket]]
    /\ purge = [r \in Reader |-> <<>>]
    /\ lagged = [r \in Reader |-> FALSE]
    /\ pc = [r \in Reader |-> "select"]
    /\ dest = [r \in Reader |-> NoTuple]
    /\ target = [r \in Reader |-> NoSocket]
    /\ panics = {}

-----------------------------------------------------------------------------
(* Opening a connection *)

\* Stack::connect takes &mut self, as does Stack::accept: one call at a time.
StackIdle == probe = NoPort /\ connecting = NoSocket

Inserted(t, s) == [tuples EXCEPT ![t] = s]

\* Socket::new followed by the insertion into Shared::tuples.
Register(s, t, st) ==
    /\ state[s] = "closed"
    /\ state' = [state EXCEPT ![s] = st]
    /\ tupleOf' = [tupleOf EXCEPT ![s] = t]
    /\ tuples' = Inserted(t, s)
    /\ UNCHANGED incoming

Listen ==
    /\ StackIdle
    /\ ~listening
    /\ listening' = TRUE
    /\ UNCHANGED <<tuples, ready, socketVars, connectVars, readerVars, panics>>

\* Stack::connect starts at a random port.
Connect ==
    /\ StackIdle
    /\ probe' \in Port
    /\ UNCHANGED <<tuples, listening, ready, socketVars, connecting, readerVars, panics>>

\* A wrong Free, for mutation.
FreeUnseen(p) == TRUE

Free(p) == tuples[p] = NoSocket

\* The port is in use: try the next one, and give up after the last.
ProbeUsed ==
    /\ probe # NoPort
    /\ ~Free(probe)
    /\ probe' = IF probe + 1 \in Port THEN probe + 1 ELSE NoPort
    /\ UNCHANGED <<tuples, listening, ready, socketVars, connecting, readerVars, panics>>

\* The port is free: the lookup and the insertion are under one write lock.
ProbeFree(s) ==
    /\ probe # NoPort
    /\ Free(probe)
    /\ Register(s, probe, "opening")
    /\ probe' = NoPort
    /\ connecting' = s
    /\ UNCHANGED <<listening, ready, readerVars, panics>>

\* Socket::connect succeeds and Stack::connect returns the socket.
Established(s) ==
    /\ state[s] = "opening"
    /\ state' = [state EXCEPT ![s] = "open"]
    /\ connecting' = NoSocket
    /\ UNCHANGED <<tuples, listening, ready, tupleOf, incoming, probe, readerVars, panics>>

\* The handshake of Socket::accept succeeds.
AcceptEstablished(s) ==
    /\ state[s] = "accepting"
    /\ state' = [state EXCEPT ![s] = "handing"]
    /\ UNCHANGED <<tuples, listening, ready, tupleOf, incoming, connectVars, readerVars, panics>>

\* ready.send() waits while the channel is full.
HandOver(s) ==
    /\ state[s] = "handing"
    /\ Len(ready) < MPSC_BUFFER_LEN
    /\ ready' = Append(ready, s)
    /\ state' = [state EXCEPT ![s] = "ready"]
    /\ UNCHANGED <<tuples, listening, tupleOf, incoming, connectVars, readerVars, panics>>

Accept ==
    /\ StackIdle
    /\ ready # <<>>
    /\ ready' = Tail(ready)
    /\ state' = [state EXCEPT ![Head(ready)] = "open"]
    /\ UNCHANGED <<tuples, listening, tupleOf, incoming, connectVars, readerVars, panics>>

\* A wrong Read, for mutation.
ReadLate == {"open"}

Read == {"opening", "accepting", "open"}

\* Socket::recv, or a recv_async of the handshake, takes one packet.
Recv(s) ==
    /\ state[s] \in Read
    /\ incoming[s] # <<>>
    /\ incoming' = [incoming EXCEPT ![s] = Tail(@)]
    /\ UNCHANGED <<tuples, listening, ready, state, tupleOf, connectVars, readerVars, panics>>

-----------------------------------------------------------------------------
(* Socket::drop, which runs on whatever thread drops the last reference *)

Alive == {r \in Reader : pc[r] # "dead"}

DropRemove(s) ==
    /\ state[s] \in {"opening", "accepting", "open", "unwinding"}
    /\ state' = [state EXCEPT ![s] = "removed"]
    /\ tuples' = [tuples EXCEPT ![tupleOf[s]] = NoSocket]
    /\ panics' = IF tuples[tupleOf[s]] = NoSocket
                 THEN panics \cup {"drop_assert_366"} ELSE panics
    /\ UNCHANGED <<listening, ready, tupleOf, incoming, connectVars, readerVars>>

\* A wrong Broadcast, for mutation.
BroadcastNothing(r, t) == purge[r]

\* A receiver with PURGE_LEN unread messages loses the oldest one.
Broadcast(r, t) ==
    IF r \notin Alive THEN purge[r]
    ELSE IF Len(purge[r]) < PURGE_LEN THEN Append(purge[r], t)
    ELSE Append(Tail(purge[r]), t)

\* The send fails when there is no receiver left; the unwrap skips the RST.
DropPurge(s) ==
    /\ state[s] = "removed"
    /\ state' = [state EXCEPT ![s] = "purged"]
    /\ purge' = [r \in Reader |-> Broadcast(r, tupleOf[s])]
    /\ lagged' = [r \in Reader |-> \/ lagged[r]
                                   \/ r \in Alive /\ Len(purge[r]) >= PURGE_LEN]
    /\ panics' = IF Alive = {} THEN panics \cup {"purge_unwrap_368"} ELSE panics
    /\ UNCHANGED <<tuples, listening, ready, tupleOf, incoming, connectVars,
                   cache, pc, dest, target>>

\* The RST is sent (a failure is only logged) and the fields are dropped: every
\* sender of the channel that a reader still has is now disconnected.
DropFields(s) ==
    /\ state[s] = "purged"
    /\ state' = [state EXCEPT ![s] = "closed"]
    /\ tupleOf' = [tupleOf EXCEPT ![s] = NoTuple]
    /\ incoming' = [incoming EXCEPT ![s] = <<>>]
    /\ connecting' = IF connecting = s THEN NoSocket ELSE connecting
    /\ cache' = [r \in Reader |-> [t \in Tuple |->
                   IF cache[r][t] = s THEN Disconnected ELSE cache[r][t]]]
    /\ target' = [r \in Reader |-> IF target[r] = s THEN Disconnected ELSE target[r]]
    /\ UNCHANGED <<tuples, listening, ready, probe, purge, lagged, pc, dest, panics>>

-----------------------------------------------------------------------------
(* reader_task *)

\* The reader is at the await `where`, holding a packet for t and sending to s.
At(r, where, t, s) ==
    /\ pc' = [pc EXCEPT ![r] = where]
    /\ dest' = [dest EXCEPT ![r] = t]
    /\ target' = [target EXCEPT ![r] = s]

\* A panic ends the task: its cache and its purge receiver are dropped.
Die(r, site) ==
    /\ At(r, "dead", NoTuple, NoSocket)
    /\ cache' = [cache EXCEPT ![r] = [t \in Tuple |-> NoSocket]]
    /\ purge' = [purge EXCEPT ![r] = <<>>]
    /\ lagged' = [lagged EXCEPT ![r] = FALSE]
    /\ panics' = panics \cup {site}

\* A wrong Cached, for mutation.
CachedAny(r, t) ==
    IF cache[r] = [u \in Tuple |-> NoSocket] THEN NoSocket
    ELSE cache[r][CHOOSE u \in Tuple : cache[r][u] # NoSocket]

Cached(r, t) == cache[r][t]

\* tun.recv() returned a packet whose tuple is cached.
ReadHit(r, t) ==
    /\ pc[r] = "select"
    /\ Cached(r, t) # NoSocket
    /\ At(r, "hit", t, Cached(r, t))
    /\ UNCHANGED <<tuples, listening, ready, socketVars, connectVars, cache, purge,
                   lagged, panics>>

\* It is not cached but registered: the read lock is released before the send.
ReadMiss(r, t) ==
    /\ pc[r] = "select"
    /\ Cached(r, t) = NoSocket
    /\ tuples[t] # NoSocket
    /\ cache' = [cache EXCEPT ![r][t] = tuples[t]]
    /\ At(r, "miss", t, tuples[t])
    /\ UNCHANGED <<tuples, listening, ready, socketVars, connectVars, purge, lagged,
                   panics>>

Unknown(r, t) ==
    /\ pc[r] = "select"
    /\ Cached(r, t) = NoSocket
    /\ tuples[t] = NoSocket

\* A SYN with sequence number 0 for the listening port.
ReadSyn(r, t) ==
    /\ Unknown(r, t)
    /\ t \in Peer
    /\ listening
    /\ At(r, "accept", t, NoSocket)
    /\ UNCHANGED <<tuples, listening, ready, socketVars, connectVars, cache, purge,
                   lagged, panics>>

\* Any other packet of no connection is answered by an RST unless it is one;
\* the unwrap of try_send ends the reader when the device refuses the RST.
ReadUnknown(r, t) ==
    /\ Unknown(r, t)
    /\ \/ UNCHANGED vars
       \/ /\ Die(r, "tun_unwrap_583")
          /\ UNCHANGED <<tuples, listening, ready, socketVars, connectVars>>

\* tun.recv() returned an error.
ReadError(r) ==
    /\ pc[r] = "select"
    /\ Die(r, "recv_unwrap_502")
    /\ UNCHANGED <<tuples, listening, ready, socketVars, connectVars>>

Room(s) == Len(incoming[s]) < MPMC_BUFFER_LEN

\* c.send_async(buf).await has room; the receiver is alive until DropFields.
Deliver(r) ==
    /\ target[r] # Disconnected
    /\ Room(target[r])
    /\ incoming' = [incoming EXCEPT ![target[r]] = Append(@, dest[r])]
    /\ At(r, "select", NoTuple, NoSocket)
    /\ UNCHANGED <<tuples, listening, ready, state, tupleOf, connectVars, cache,
                   purge, lagged, panics>>

SendHit(r) == pc[r] = "hit" /\ Deliver(r)

\* The cached channel is closed: the packet is dropped.
SendHitClosed(r) ==
    /\ pc[r] = "hit"
    /\ target[r] = Disconnected
    /\ At(r, "select", NoTuple, NoSocket)
    /\ UNCHANGED <<tuples, listening, ready, socketVars, connectVars, cache, purge,
                   lagged, panics>>

SendMiss(r) == pc[r] = "miss" /\ Deliver(r)

\* The socket was dropped since the lookup: send_async(..).unwrap() panics.
SendMissClosed(r) ==
    /\ pc[r] = "miss"
    /\ target[r] = Disconnected
    /\ Die(r, "send_unwrap_532")
    /\ UNCHANGED <<tuples, listening, ready, socketVars, connectVars>>

\* The passive open inserts without looking again.  If the assert fails the entry
\* is already replaced, and the unwinding drops the new socket.
Spawn(r, s) ==
    /\ pc[r] = "accept"
    /\ IF tuples[dest[r]] = NoSocket
       THEN /\ Register(s, dest[r], "accepting")
            /\ At(r, "select", NoTuple, NoSocket)
            /\ UNCHANGED <<cache, purge, lagged, panics>>
       ELSE /\ Register(s, dest[r], "unwinding")
            /\ Die(r, "accept_assert_554")
    /\ UNCHANGED <<listening, ready, connectVars>>

\* A wrong Evict, for mutation.
EvictNot(r, t) == cache

Evict(r, t) == [cache EXCEPT ![r][t] = NoSocket]

\* tuples_purge.recv() returned a tuple.
Purge(r) ==
    /\ pc[r] = "select"
    /\ ~lagged[r]
    /\ purge[r] # <<>>
    /\ cache' = Evict(r, Head(purge[r]))
    /\ purge' = [purge EXCEPT ![r] = Tail(@)]
    /\ UNCHANGED <<tuples, listening, ready, socketVars, connectVars, lagged, pc,
                   dest, target, panics>>

\* tuples_purge.recv() returned RecvError::Lagged.
PurgeLagged(r) ==
    /\ pc[r] = "select"
    /\ lagged[r]
    /\ Die(r, "lag_unwrap_592")
    /\ UNCHANGED <<tuples, listening, ready, socketVars, connectVars>>

-----------------------------------------------------------------------------

SocketStep(s) ==
    \/ ProbeFree(s) \/ Established(s) \/ AcceptEstablished(s) \/ HandOver(s)
    \/ Recv(s) \/ DropRemove(s) \/ DropPurge(s) \/ DropFields(s)

ReaderStep(r) ==
    \/ \E t \in Tuple : ReadHit(r, t) \/ ReadMiss(r, t) \/ ReadSyn(r, t) \/ ReadUnknown(r, t)
    \/ \E s \in Socket : Spawn(r, s)
    \/ ReadError(r) \/ SendHit(r) \/ SendHitClosed(r) \/ SendMiss(r)
    \/ SendMissClosed(r) \/ Purge(r) \/ PurgeLagged(r)

Next ==
    \/ Listen \/ Connect \/ ProbeUsed \/ Accept
    \/ \E s \in Socket : SocketStep(s)
    \/ \E r \in Reader : ReaderStep(r)

Spec == Init /\ [][Next]_vars

\* Socket::drop runs to its end once begun; a send that can proceed does; the
\* sockets are read by the handshake or by the application; and select! polls
\* its branches in random order, so packets cannot keep the purge out forever.
Fairness ==
    /\ \A s \in Socket :
          /\ WF_vars(DropPurge(s)) /\ WF_vars(DropFields(s))
          /\ WF_vars(Recv(s))
    /\ \A r \in Reader :
          /\ WF_vars(SendHit(r) \/ SendHitClosed(r) \/ SendMiss(r) \/ SendMissClosed(r))
          /\ SF_vars(Purge(r) \/ PurgeLagged(r))

FairSpec == Spec /\ Fairness

-----------------------------------------------------------------------------
(* Safety *)

\* The table and the sockets agree: an entry of Shared::tuples belongs to a live
\* socket with that tuple, and every live socket has its entry until its own
\* drop takes it out.  This is what the assert! of Socket::drop (line 366) and
\* the demultiplexing of replies rely on.
TableMatchesSockets ==
    /\ \A t \in Tuple : tuples[t] # NoSocket =>
          state[tuples[t]] \in Live /\ tupleOf[tuples[t]] = t
    /\ \A s \in Socket : state[s] \in Live => tuples[tupleOf[s]] = s

\* A sender in a reader's cache that is not the registered one.
Stale(r, t) == cache[r][t] \notin {NoSocket, tuples[t]}

\* A purge of t that reader r has not seen yet, or that is about to be sent.
PurgePending(r, t) ==
    \/ lagged[r]
    \/ \E i \in 1 .. Len(purge[r]) : purge[r][i] = t
    \/ \E s \in Socket : state[s] = "removed" /\ tupleOf[s] = t

\* A reader never keeps a stale sender without a purge for it on the way: the
\* order of Socket::drop (out of the table, then the purge) and the order of
\* reader_task (lookup and caching between two selects) leave no schedule in
\* which a later connection on the same tuple stays masked by the old sender.
StaleIsPurged == \A r \in Reader, t \in Tuple : Stale(r, t) => PurgePending(r, t)

\* Every packet in a socket's channel is addressed to that socket, although the
\* reader may have taken the sender from its cache many steps, and one or more
\* incarnations of the tuple, before.
NoMisdelivery ==
    \A s \in Socket : \A i \in 1 .. Len(incoming[s]) : incoming[s][i] = tupleOf[s]

\* An entry of Shared::tuples is never handed from one socket to another: the
\* insertions of Stack::connect and of the passive open (the assert!s of lines
\* 477 and 554) find the tuple free although reader_task looked it up earlier.
EntryNeverReplaced ==
    [][\A t \in Tuple : tuples[t] # NoSocket => tuples'[t] \in {tuples[t], NoSocket}]_vars

-----------------------------------------------------------------------------
(* Liveness *)

\* A stale sender does not stay in the cache of a running reader.
StaleHeals == \A r \in Reader, t \in Tuple : Stale(r, t) ~> ~Stale(r, t)

\* A reader that waits for room in one socket's channel gets on: the socket is
\* read or dropped.  Until then no other connection receives anything.
ReaderGetsOn ==
    \A r \in Reader : pc[r] \in {"hit", "miss"} ~> pc[r] \in {"select", "dead"}

-----------------------------------------------------------------------------
(* What an unwrap of lib.rs says *)

\* Line 532: the channel just looked up in Shared::tuples takes the packet.
SendUnwrapHolds == "send_unwrap_532" \notin panics

=============================================================================
