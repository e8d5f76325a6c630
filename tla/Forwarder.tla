----------------------------- MODULE Forwarder -----------------------------
(***************************************************************************)
(* The forwarding loop of the client and the tasks it spawns               *)
(* (src/phantun-client-mac/src/forwarder.rs): run_forwarder, which maps    *)
(* each UDP client to one fake-TCP connection, the workers that carry      *)
(* replies back to the client, and the timeout task that ends a            *)
(* connection.  Every task is a process of its own; a step is what a task  *)
(* does between two awaits that others can notice.                         *)
(*                                                                         *)
(* What is abstracted.  A datagram is the client it comes from.  A packet  *)
(* of the server is what Socket::recv makes of it: data, an empty packet,  *)
(* or an RST.  Stack::connect is one step that yields a socket or nothing. *)
(* Whether the packet device takes a packet is a choice.                   *)
(* A connection name is the Arc<Socket> with its token, its Notify and its *)
(* tasks; it is reused when all of these are gone.                         *)
(***************************************************************************)
EXTENDS Integers, Sequences

CONSTANTS
    Client,             \* addresses of UDP clients
    NoClient,
    Connection,
    NoConnection,
    Worker,             \* worker_count workers for each connection
    UDP_TTL,            \* ticks without a reply after which the timeout fires
    MPMC_BUFFER_LEN     \* capacity of a socket's packet channel

ASSUME ForwarderAssumption ==
    /\ NoClient \notin Client
    /\ NoConnection \notin Connection
    /\ Worker # {}
    /\ {UDP_TTL, MPMC_BUFFER_LEN} \subseteq Nat \ {0}

Packet == {"data", "empty", "rst"}

VARIABLES
    reader,       \* the reader_task of the stack runs
    shutdown,     \* the token given to run_forwarder is cancelled
    pc,           \* run_forwarder: which await it is at
    addr,         \* run_forwarder: udp_remote_addr of the datagram in hand
    held,         \* run_forwarder: the Arc<Socket> in hand
    connections,  \* the connection table, shared by all tasks
    owner,        \* the udp_remote_addr a connection was made for
    quit,         \* each connection's cancellation token
    permit,       \* the permit stored in each connection's Notify
    inbox,        \* packets waiting in each socket's channel
    worker,       \* where each worker is
    timer,        \* where each timeout task is
    age           \* ticks since the timeout task called sleep

mainVars == <<pc, addr, held>>
taskVars == <<permit, inbox, worker, timer, age>>
vars == <<reader, shutdown, mainVars, connections, owner, quit, taskVars>>

TypeOK ==
    /\ reader \in BOOLEAN
    /\ shutdown \in BOOLEAN
    /\ pc \in {"select", "lookup", "send", "connect", "first", "insert",
               "stopped", "failed", "panicked", "unwound"}
    /\ addr \in Client \cup {NoClient}
    /\ held \in Connection \cup {NoConnection}
    /\ connections \in [Client -> Connection \cup {NoConnection}]
    /\ owner \in [Connection -> Client \cup {NoClient}]
    /\ quit \in [Connection -> BOOLEAN]
    /\ permit \in [Connection -> BOOLEAN]
    /\ inbox \in [Connection -> Seq(Packet)]
    /\ \A c \in Connection : Len(inbox[c]) <= MPMC_BUFFER_LEN
    /\ worker \in [Connection -> [Worker -> {"select", "forward", "off"}]]
    /\ timer \in [Connection -> {"armed", "expired", "cancelled", "off"}]
    /\ age \in [Connection -> 0 .. UDP_TTL]

Init ==
    /\ reader = TRUE
    /\ shutdown = FALSE
    /\ pc = "select"
    /\ addr = NoClient
    /\ held = NoConnection
    /\ connections = [a \in Client |-> NoConnection]
    /\ owner = [c \in Connection |-> NoClient]
    /\ quit = [c \in Connection |-> FALSE]
    /\ permit = [c \in Connection |-> FALSE]
    /\ inbox = [c \in Connection |-> <<>>]
    /\ worker = [c \in Connection |-> [w \in Worker |-> "off"]]
    /\ timer = [c \in Connection |-> "off"]
    /\ age = [c \in Connection |-> 0]

\* The socket is alive while someone holds its Arc; when the last one lets go,
\* Socket::drop takes it out of the stack and sends the RST.
InUse(c) ==
    \/ held = c
    \/ \E a \in Client : connections[a] = c
    \/ \E w \in Worker : worker[c][w] # "off"

Free(c) == ~InUse(c) /\ timer[c] = "off"

-----------------------------------------------------------------------------
(* The surroundings *)

\* A panic ends the only reader of the stack (the unwraps of lib.rs 502, 532, 583
\* and 592): no packet reaches a socket any more.
ReaderDies ==
    /\ reader
    /\ reader' = FALSE
    /\ UNCHANGED <<shutdown, mainVars, connections, owner, quit, taskVars>>

\* A wrong Room, for mutation.
RoomOver(c) == Len(inbox[c]) <= MPMC_BUFFER_LEN

Room(c) == Len(inbox[c]) < MPMC_BUFFER_LEN

\* The stack's reader puts a packet of the server into the socket's channel.
Arrive(c, k) ==
    /\ reader
    /\ InUse(c)
    /\ Room(c)
    /\ inbox' = [inbox EXCEPT ![c] = Append(@, k)]
    /\ UNCHANGED <<reader, shutdown, mainVars, connections, owner, quit, permit,
                   worker, timer, age>>

CancelShutdown ==
    /\ ~shutdown
    /\ shutdown' = TRUE
    /\ UNCHANGED <<reader, mainVars, connections, owner, quit, taskVars>>

\* Time passes for every sleeping timeout task.
Tick ==
    /\ \E c \in Connection : timer[c] = "armed" /\ age[c] < UDP_TTL
    /\ age' = [c \in Connection |-> IF timer[c] = "armed" /\ age[c] < UDP_TTL
                                     THEN age[c] + 1 ELSE age[c]]
    /\ UNCHANGED <<reader, shutdown, mainVars, connections, owner, quit, permit,
                   inbox, worker, timer>>

-----------------------------------------------------------------------------
(* run_forwarder *)

\* The loop is at the await `where`, with a datagram of a and the Arc of c.
At(where, a, c) == pc' = where /\ addr' = a /\ held' = c

\* udp_recv_pktinfo returned a datagram of client a.
Datagram(a) ==
    /\ pc = "select"
    /\ At("lookup", a, NoConnection)
    /\ UNCHANGED <<reader, shutdown, connections, owner, quit, taskVars>>

\* It returned an error: run_forwarder returns it and cancels nothing.
DatagramError ==
    /\ pc = "select"
    /\ At("failed", NoClient, NoConnection)
    /\ UNCHANGED <<reader, shutdown, connections, owner, quit, taskVars>>

\* A wrong Existing, for mutation.
ExistingArmed(a) ==
    IF connections[a] # NoConnection /\ timer[connections[a]] # "armed" THEN NoConnection
    ELSE connections[a]

\* A wrong Existing, for mutation.
ExistingUsable(a) ==
    IF connections[a] # NoConnection /\ quit[connections[a]] THEN NoConnection
    ELSE connections[a]

Existing(a) == connections[a]

Lookup ==
    /\ pc = "lookup"
    /\ IF Existing(addr) # NoConnection
       THEN At("send", addr, Existing(addr))
       ELSE At("connect", addr, NoConnection)
    /\ UNCHANGED <<reader, shutdown, connections, owner, quit, taskVars>>

Entries == {connections[a] : a \in Client} \ {NoConnection}

Working(c) == \E w \in Worker : worker[c][w] # "off"

\* Socket::drop sends a purge; without a reader the unwrap of lib.rs 368 panics,
\* here in the loop, which main awaits.
AfterDrop == IF reader THEN "select" ELSE "unwound"

\* The result of Socket::send is ignored; the loop's Arc may be the last one.
SendExisting ==
    /\ pc = "send"
    /\ At(IF held \in Entries \/ Working(held) THEN "select" ELSE AfterDrop, NoClient, NoConnection)
    /\ UNCHANGED <<reader, shutdown, connections, owner, quit, taskVars>>

\* Stack::connect yields a socket; its SYN and ACK went through the device.
Connect(c) ==
    /\ pc = "connect"
    /\ reader
    /\ Free(c)
    /\ At("first", addr, c)
    /\ owner' = [owner EXCEPT ![c] = addr]
    /\ quit' = [quit EXCEPT ![c] = FALSE]
    /\ permit' = [permit EXCEPT ![c] = FALSE]
    /\ inbox' = [inbox EXCEPT ![c] = <<>>]
    /\ UNCHANGED <<reader, shutdown, connections, worker, timer, age>>

\* Stack::connect yields nothing, for want of a port or after it has dropped the
\* socket: the datagram is lost.
ConnectFails ==
    /\ pc = "connect"
    /\ \E where \in {"select", AfterDrop} : At(where, NoClient, NoConnection)
    /\ UNCHANGED <<reader, shutdown, connections, owner, quit, taskVars>>

\* The datagram that made the connection is sent; a failure drops the socket.
SendFirst ==
    /\ pc = "first"
    /\ At("insert", addr, held) \/ At(AfterDrop, NoClient, NoConnection)
    /\ UNCHANGED <<reader, shutdown, connections, owner, quit, taskVars>>

\* The connection enters the table, which must have no entry for the client,
\* and its workers and its timeout task are spawned.
Insert ==
    /\ pc = "insert"
    /\ connections' = [connections EXCEPT ![addr] = held]
    /\ IF connections[addr] = NoConnection
       THEN /\ At("select", NoClient, NoConnection)
            /\ worker' = [worker EXCEPT ![held] = [w \in Worker |-> "select"]]
            /\ timer' = [timer EXCEPT ![held] = "armed"]
            /\ age' = [age EXCEPT ![held] = 0]
       ELSE At("panicked", NoClient, NoConnection) /\ UNCHANGED <<worker, timer, age>>
    /\ UNCHANGED <<reader, shutdown, owner, quit, permit, inbox>>

\* A wrong CancelAll, for mutation.
CancelNone == quit

CancelAll == [c \in Connection |-> quit[c] \/ \E a \in Client : connections[a] = c]

\* Connections that only the table holds: cancel_all_connections drops them.
Last == {c \in Entries : ~Working(c)}

\* cancel_all_connections: the table is emptied, every token cancelled.
Stop ==
    /\ pc = "select"
    /\ shutdown
    /\ connections' = [a \in Client |-> NoConnection]
    /\ reader \/ Last = {}
    /\ quit' = CancelAll
    /\ At("stopped", NoClient, NoConnection)
    /\ UNCHANGED <<reader, shutdown, owner, taskVars>>

\* Without a reader the first of its drops panics; the tokens after it are not
\* cancelled.
StopUnwinds ==
    /\ pc = "select"
    /\ shutdown
    /\ connections' = [a \in Client |-> NoConnection]
    /\ ~reader
    /\ \E first \in Last, done \in SUBSET (Entries \ Last) :
          quit' = [c \in Connection |-> quit[c] \/ c \in done \cup {first}]
    /\ At("unwound", NoClient, NoConnection)
    /\ UNCHANGED <<reader, shutdown, owner, taskVars>>

-----------------------------------------------------------------------------
(* A worker of spawn_connection_workers *)

\* Socket::recv returned: data goes to the client next, an empty packet only
\* wakes the timeout task, an RST ends the connection.
WorkerRecv(c, w) ==
    /\ worker[c][w] = "select"
    /\ inbox[c] # <<>>
    /\ inbox' = [inbox EXCEPT ![c] = Tail(@)]
    /\ LET k == Head(inbox[c]) IN
         /\ worker' = [worker EXCEPT ![c][w] =
                        CASE k = "data" -> "forward"
                          [] k = "empty" -> "select"
                          [] k = "rst" -> "off"]
         /\ permit' = [permit EXCEPT ![c] = @ \/ k = "empty"]
         /\ quit' = [quit EXCEPT ![c] = @ \/ k = "rst"]
    /\ UNCHANGED <<reader, shutdown, mainVars, connections, owner, timer, age>>

\* udp_socket.send_to succeeded.
WorkerForward(c, w) ==
    /\ worker[c][w] = "forward"
    /\ worker' = [worker EXCEPT ![c][w] = "select"]
    /\ permit' = [permit EXCEPT ![c] = TRUE]
    /\ UNCHANGED <<reader, shutdown, mainVars, connections, owner, quit, inbox, timer, age>>

\* udp_socket.send_to failed.
WorkerForwardFails(c, w) ==
    /\ worker[c][w] = "forward"
    /\ worker' = [worker EXCEPT ![c][w] = "off"]
    /\ quit' = [quit EXCEPT ![c] = TRUE]
    /\ UNCHANGED <<reader, shutdown, mainVars, connections, owner, permit, inbox, timer, age>>

WorkerQuit(c, w) ==
    /\ worker[c][w] = "select"
    /\ quit[c]
    /\ worker' = [worker EXCEPT ![c][w] = "off"]
    /\ UNCHANGED <<reader, shutdown, mainVars, connections, owner, quit, permit, inbox, timer, age>>

-----------------------------------------------------------------------------
(* The task of spawn_connection_timeout.  Each branch of its select! first    *)
(* waits for the write lock of the table.                                     *)

\* A wrong Due, for mutation.
DueLate(c) == age[c] > UDP_TTL

Due(c) == age[c] >= UDP_TTL

TimerExpire(c) ==
    /\ timer[c] = "armed"
    /\ Due(c)
    /\ timer' = [timer EXCEPT ![c] = "expired"]
    /\ UNCHANGED <<reader, shutdown, mainVars, connections, owner, quit, permit, inbox, worker, age>>

TimerCancel(c) ==
    /\ timer[c] = "armed"
    /\ quit[c]
    /\ timer' = [timer EXCEPT ![c] = "cancelled"]
    /\ UNCHANGED <<reader, shutdown, mainVars, connections, owner, quit, permit, inbox, worker, age>>

\* packet_received.notified(): the loop starts a new sleep.
TimerRearm(c) ==
    /\ timer[c] = "armed"
    /\ permit[c]
    /\ permit' = [permit EXCEPT ![c] = FALSE]
    /\ age' = [age EXCEPT ![c] = 0]
    /\ UNCHANGED <<reader, shutdown, mainVars, connections, owner, quit, inbox, worker, timer>>

\* A wrong Without, for mutation.
WithoutNothing(a) == connections

Without(a) == [connections EXCEPT ![a] = NoConnection]

\* A wrong CancelRemoved, for mutation.
CancelNothing(c) == quit

\* After a timeout the token cancelled is the one of the entry, if any.
CancelRemoved(c) ==
    LET removed == connections[owner[c]] IN
    [quit EXCEPT ![IF removed # NoConnection THEN removed ELSE c] = TRUE]

\* Both branches remove whatever entry the client has and end the task.
TimerRemove(c) ==
    /\ timer[c] \in {"expired", "cancelled"}
    /\ timer' = [timer EXCEPT ![c] = "off"]
    /\ age' = [age EXCEPT ![c] = 0]
    /\ connections' = Without(owner[c])
    /\ quit' = IF timer[c] = "expired" THEN CancelRemoved(c) ELSE quit
    /\ UNCHANGED <<reader, shutdown, mainVars, owner, permit, inbox, worker>>

-----------------------------------------------------------------------------

MainStep ==
    \/ DatagramError \/ Lookup \/ SendExisting \/ ConnectFails \/ SendFirst \/ Insert
    \/ Stop \/ StopUnwinds
    \/ \E a \in Client : Datagram(a)
    \/ \E c \in Connection : Connect(c)

TaskStep(c) ==
    \/ \E w \in Worker : \/ WorkerRecv(c, w) \/ WorkerForward(c, w)
                         \/ WorkerForwardFails(c, w) \/ WorkerQuit(c, w)
    \/ TimerExpire(c) \/ TimerCancel(c) \/ TimerRearm(c) \/ TimerRemove(c)

\* The loop has returned and every task is gone: nothing is left to do.
Done ==
    /\ pc \in {"stopped", "failed", "unwound"}
    /\ \A c \in Connection : Free(c)
    /\ UNCHANGED vars

Next ==
    \/ Done
    \/ ReaderDies \/ CancelShutdown \/ Tick
    \/ \E c \in Connection, k \in Packet : Arrive(c, k)
    \/ MainStep
    \/ \E c \in Connection : TaskStep(c)

Spec == Init /\ [][Next]_vars

\* The awaits of the loop on the table, on Socket::send and on Stack::connect
\* (bounded by its retries) return, as do the workers' UDP sends and the locks;
\* time passes; and the random order in which select! polls its branches keeps
\* no branch that is ready again and again from being taken.
Fairness ==
    /\ WF_vars(Lookup \/ SendExisting \/ ConnectFails \/ SendFirst \/ Insert)
    /\ SF_vars(Stop \/ StopUnwinds)
    /\ WF_vars(Tick)
    /\ \A c \in Connection :
          /\ \A w \in Worker :
                /\ WF_vars(WorkerRecv(c, w))
                /\ WF_vars(WorkerForward(c, w) \/ WorkerForwardFails(c, w))
                /\ SF_vars(WorkerQuit(c, w))
          /\ WF_vars(TimerExpire(c))
          /\ SF_vars(TimerCancel(c))
          /\ WF_vars(TimerRemove(c))

FairSpec == Spec /\ Fairness

-----------------------------------------------------------------------------
(* Safety *)

\* While the loop runs, a connection's timeout task and its table entry exist
\* together.  The task removes an entry by address, an arbitrary time after its
\* select! fired: it never removes the entry of a later connection of the same
\* client, and no entry is left without a task that will remove it.
EntryIffTimer ==
    \A c \in Connection, a \in Client :
        /\ connections[a] = c => owner[c] = a /\ timer[c] # "off"
        /\ owner[c] = a /\ timer[c] # "off" /\ pc \notin {"stopped", "unwound"} => connections[a] = c

\* The assert! of run_forwarder (lines 81 to 93): between the lookup of a client
\* and the insertion of its connection, which are separated by the whole
\* handshake, no entry appears for the client.
InsertAssertHolds == pc # "panicked"

\* Workers are not left behind: as long as one runs, either its token is
\* cancelled or a timeout task that can cancel it still runs.
NoOrphanWorker ==
    \A c \in Connection : (\E w \in Worker : worker[c][w] # "off") => quit[c] \/ timer[c] # "off"

\* A client is served by one connection: of two sockets alive for the same
\* client, at least one is being closed.
OneLiveConnection ==
    \A c, d \in Connection :
        c # d /\ InUse(c) /\ InUse(d) /\ owner[c] = owner[d] => quit[c] \/ quit[d]

-----------------------------------------------------------------------------
(* The life of a connection, as Session describes it *)

Phase(c) ==
    CASE Free(c) -> "free"
      [] held = c /\ pc \in {"first", "insert"} -> "dialing"
      [] \E a \in Client : connections[a] = c -> "serving"
      [] OTHER -> "closing"

Life == INSTANCE Session WITH
    phase <- [c \in Connection |-> Phase(c)],
    client <- [c \in Connection |-> IF Free(c) THEN NoClient ELSE owner[c]]

\* Every step of the loop, the workers and the timeout tasks is a step in the life
\* of one connection, or of none: no client is dialled for while it is served, and
\* a connection that was taken out of the table is never served from again.
ImplementsSession == Life!Spec

-----------------------------------------------------------------------------
(* Liveness *)

\* A connection whose token is cancelled (RST of the server, failed UDP send,
\* timeout, shutdown) loses all its references, so that Socket::drop runs.
QuitCloses == \A c \in Connection : quit[c] ~> ~InUse(c)

\* A timeout task ends the connection unless a packet of the server is seen.
IdleCloses == \A c \in Connection : timer[c] = "armed" ~> permit[c] \/ timer[c] = "off"

\* When a panic has ended the reader, every connection is still closed: by its
\* timeout, or by the loop's own panic.
ReaderDeathCloses == ~reader ~> \A c \in Connection : ~InUse(c)

\* Cancelling the token of run_forwarder closes every connection, unless the
\* loop has already returned with an error.
ShutdownCloses == shutdown ~> pc = "failed" \/ \A c \in Connection : ~InUse(c)

=============================================================================
