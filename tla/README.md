# Verification of phantun-client-mac

TLA+ models of the macOS client of Phantun and of the `fake-tcp` crate it is
built on, checked with TLC on small instances. The safety properties and the
refinements that the passing runs check are also proved with TLAPS, for all values
of the constants, four of them under a hypothesis that section 4 explains. Line numbers refer to the sources under `src/`.

## 1. The system

The client listens on a UDP socket and carries every UDP client's datagrams to
one server over a connection that looks like TCP to the network. There is no
retransmission and no ordering: one datagram is one segment.

| part | source | state | operations |
|---|---|---|---|
| Stack | `fake-tcp/src/lib.rs` | `Shared::tuples`, `listening`, channel `ready`, broadcast channel of purges; per reader a cache of `tuples` | `Stack::new`, `listen`, `accept`, `connect`; `reader_task` (one per device) |
| Socket | `fake-tcp/src/lib.rs` | `state`, `seq`, `ack`, `last_ack`, channel `incoming` | `connect`, `accept` (handshakes), `send`, `recv`, `drop` |
| Forwarder | `phantun-client-mac/src/forwarder.rs` | table `connections`; per connection a cancellation token, a `Notify` and tasks | `run_forwarder`, `cancel_all_connections`, workers, timeout task |
| FirewallGuard and watchdog | `phantun-client-mac/src/macos_packet.rs` | a PF reference (token), a rule in an anchor, the watchdog process | `install`, `drop`, `run_cleanup_helper_if_requested` |
| BpfCapture | `macos_packet.rs` | `pending` queue, buffer | `read_packet` and its blocking read |
| record and frame decoding | `macos_packet.rs` | none | `decode_records`, `packet_from_link_frame`, `normalize_ip_packet` |
| RawPacketSender | `macos_packet.rs` | a raw socket, its readiness | `new`, `send` (waits for room), `try_send` (does not) |
| routes, addresses, opening of devices | `macos_packet.rs`, `main.rs` | which `/dev/bpf` devices are open | `route_interface`, `open_bpf_device`, `configure_bpf`, `discover_local_ipv4`, `..6` |
| packets | `fake-tcp/src/packet.rs` | none | `build_tcp_packet`, `parse_ip_packet` |
| devices | `fake-tcp/src/tun.rs` | none of their own | trait `TunDevice` and adapters |
| configuration | `config.rs` | files, command line | `load_config`, `from_loaded_config`, `select_remote_address` |
| main, UDP listener | `main.rs`, `udp.rs` | what a run has opened so far | start-up, `new_udp_reuseport`, the ends of a run |

How they interact. `main` makes the packet device (capture, raw sender, then
the firewall guard), a `Stack` with this one device, and runs `run_forwarder`. A datagram of a new UDP
client makes the loop call `Stack::connect`, which registers a socket in
`tuples` and runs the handshake. The reader task takes packets from the device
and puts them into the channels of the sockets; workers of the forwarder take
them out and send them to the UDP client. A connection ends by an RST, a failed
UDP send, an idle timeout or a shutdown; when the last reference to the socket
is gone `Socket::drop` removes it from `tuples`, tells the readers to forget
it, and sends an RST.

What is hard in it, and where (`PROJECT.json` has the list with lines):

* the reader's cache outlives the sockets in it, and the purge reaches it later
  than the removal from the table;
* senders and table lookups are used after a lock is released, across awaits;
* bounded channels block the only reader; the broadcast channel loses messages;
* `connect` and `accept` share one iteration budget between sends and waits, on
  a network that loses, repeats and reorders, with equal initial numbers in
  every connection;
* the timeout task removes a table entry by address, after waiting for a lock;
* sender and workers share the atomics `seq`, `ack` and `last_ack` without a lock,
  and a send buffer of which only the sender waits for room;
* padding, tags, odd lengths and byte orders between the network and the stack;
* the client can be killed between any two `pfctl` calls, and process numbers
  are reused; a start can fail at any of its steps, the last of them with the
  packet-filter rule in place.

## 2. Modules

| module | models | extends or uses |
|---|---|---|
| `Stack` | table, sockets' lives, reader tasks, cache and purge | |
| `StackProofs` | theorems about `Stack` | `Stack`, TLAPS |
| `Handshake` | both ends of one connection and the network between them | |
| `HandshakeProofs` | theorems about `Handshake` | `Handshake`, TLAPS |
| `Segments` | an established socket at the level of its atomics, and the raw sender | |
| `SegmentsProofs` | theorems about `Segments` | `Segments`, TLAPS |
| `Session` | abstract: the life of a connection | |
| `Forwarder` | loop, workers, timeout tasks, connection table | implements `Session` |
| `ForwarderProofs` | theorems about `Forwarder` and the refinement of `Session` | `Forwarder`, TLAPS |
| `Subsequences` | the elements of a sequence that a copying loop keeps (`Only`) | |
| `SubsequenceProofs` | lemmas about `Only` and about increasing sequences | `Subsequences`, TLAPS |
| `TunDevice` | abstract: what the stack takes a packet device for | `Subsequences` |
| `Capture` | packet queue, blocking reads, and the `select!` that cancels them | `Subsequences`; implements `TunDevice` |
| `CaptureProofs` | theorems about `Capture` and the refinement of `TunDevice` | `Capture`, `SubsequenceProofs` |
| `Wire` | building, parsing, sending and decoding of packets | `Subsequences` |
| `WireProofs` | theorems about `Wire` | `Wire`, `SubsequenceProofs` |
| `Firewall` | guard, watchdog, `pfctl`, process numbers | |
| `Program` | main: configuration, addresses, devices, listener, ends | extends `Firewall` |
| `ProgramProofs` | theorems about `Firewall`, about `Program`, and that `Program` keeps to `Firewall` | `Program`, TLAPS |
| `MCStack`, `MCHandshake`, `MCForwarder`, `MCProgram` | symmetry sets and constants for TLC | the module of that name |

Operators described as "wrong, for mutation" are variants of the operator that
follows them, with a plausible mistake. Nothing refers to them; put in place of
the right one they make TLC report the property that `PROJECT.json` names, which
shows that the property depends on that piece of code.

### Stack

`tuples` is `Shared::tuples`; `cache[r]`, `purge[r]` and `pc[r]` are the local
table, the unread purge messages and the current await of reader `r`. A step of
a reader is what it does between two awaits. A socket name is reused after its
drop. `DropFields` turns every sender of its channel that a reader still has
into `Disconnected`, as flume does when the receiver is dropped.

| actions | code |
|---|---|
| `Connect`, `ProbeUsed`, `ProbeFree`, `Established` | `Stack::connect` 440-486; lookup and insertion are under one lock |
| `Listen`, `Accept`, `AcceptEstablished`, `HandOver` | `Stack::listen`, `accept`, the end of `Socket::accept` |
| `DropRemove`, `DropPurge`, `DropFields` | `Socket::drop` 361-383, three steps others can come between |
| `ReadHit`, `SendHit`, `SendHitClosed` | a packet whose tuple is cached, 511-519 |
| `ReadMiss`, `SendMiss`, `SendMissClosed` | a packet whose tuple is registered, 522-532 |
| `ReadSyn`, `Spawn` | passive open, 537-560 |
| `ReadUnknown`, `ReadError` | RST for a packet of no connection, failing device |
| `Purge`, `PurgeLagged` | the purge branch of `select!`, 591-594 |

Every `unwrap()` and `assert!` is a step that records its line in `panics` and
ends its task. The temporaries of an `assert!` condition are dropped before the
panic, so no lock is poisoned by it.

Abstracted: a packet is the tuple it is addressed to; whether a handshake
succeeds is a free choice here (`Handshake` has the protocol). The unwinding of
a failed passive open drops the new socket.

### Handshake

`net` is the set of all packets ever sent; a packet may be received any number
of times, in any order, or never. `left[e]` counts the iterations that the loop
of `connect` or `accept` has left: sending (`SendHello`), waiting in vain
(`Timeout`) and receiving (`Answer`) each use up one. `Recv` contains the
acknowledgement that `Socket::recv` sends when the distance between `ack` and
`last_ack` is too great; the distance wraps, as in the code. The server may be
opened again by a late SYN (`PassiveOpen`); a closed end answers with an RST
(`Refuse`). With `DeviceMayFail` the device may refuse any packet but the RST of
`Refuse`, where the refusal ends the reader (`Stack`'s `ReadUnknown`).

Abstracted: a datagram is one byte long; RSTs carry no numbers, since no handler
looks at them; `send` and `recv` are one step each.

### Forwarder

`pc`, `addr` and `held` are the await, the datagram's sender and the
`Arc<Socket>` of `run_forwarder`. Every connection has its token (`quit`), the
permit of its `Notify`, its packet channel, its workers and its timeout task. A
branch of the timeout task's `select!` first waits for the write lock of the
table, which is why `TimerExpire` and `TimerCancel` are separate from
`TimerRemove`. `InUse(c)` says that someone still holds the socket: when it
becomes false, `Socket::drop` runs. Time is counted in ticks; `UDP_TTL` of them
make the timeout due.

`reader` says that the stack's reader task runs. `ReaderDies` is any of the
panics that end it; from then on nothing arrives, no handshake succeeds, and
every `Socket::drop` panics at `lib.rs:368`. In a worker or a timeout task that
panic ends only the task, which was ending anyway; in the loop it unwinds
`run_forwarder` (`AfterDrop`, `StopUnwinds`), which main awaits.

Abstracted: a packet of the server is what `Socket::recv` makes of it (data,
empty, RST); `Stack::connect` is one step, with or without a socket.

### Session

A connection is free, is dialled for one client, serves that client, is closed
and becomes free. One dialling goes on at a time; no client is served by two
connections. `Forwarder` implements it by `Phase`: a connection in the loop's
hand before its insertion is being dialled, one in the table serves, one that is
neither but still has a holder or a timeout task is closing.

### Segments

`Socket::send`, `recv` and `build_tcp_packet` of an established socket, with one
step for every load and store of `seq`, `ack` and `last_ack`; `at[t]` is the next
one of task `t` and `reg[t]` the number it has in hand. `wait_writable` is
`Write`, `WouldBlock` and `WriteFails`: `writable` is the readiness that
`AsyncFd` remembers, which `try_io` clears when the write would block. Workers
use `try_send`, which does not look at it.

Abstracted: datagrams have one unit of payload, and segments of the server arrive
in order. With late or repeated segments `ack` moves backwards and the bound of
`UnackedBounded` does not hold; the comment on `MAX_UNACKED_LEN` promises none.

### Wire

A packet is the header fields the code reads or converts and a number of bytes;
lengths are the real ones. `build_tcp_packet` and `parse_ip_packet` are those of
`packet.rs`; the raw sender's byte order conversions are done on 16-bit numbers,
and `Ipv4Output` is the kernel's inverse that the comment at
`macos_packet.rs:708` describes. On the other side `Captured` writes records as
the BPF driver does (`HeaderLen`, word alignment), `Read` returns the buffer with
or without padding at its end, or cut off by a fault, `Iterate` is one iteration
of `decode_records` and `CopyPending` one of `copy_pending_packet`. A slice or an
`unwrap` out of bounds is the status `panic`.

Abstracted: payload bytes, checksums, sequence numbers. A lying length field that
is hidden in Ethernet padding cannot be told from an honest one and is left out.

### Program

One run of `main` per member of `Client`; all are started with the same command
line in the same directory, so that they compete for a UDP port, and they compete
for `/dev/bpf` devices, some of which other programs hold. An option's value is
the name of its source (built-in, default file, given file, command line) and
whether its text parses; a name lookup answers with any sequence of families.

| actions | code |
|---|---|
| `LoadConfig` | `main.rs` 51-58 with `load_config` and `from_loaded_config` |
| `Resolve` | the parsing of addresses, `lookup_host`, `select_remote_address`, 60-100 |
| `Discover` | `discover_local_ipv4`, `discover_local_ipv6`, 105-121 |
| `RouteInterface`, `TryDevice`, `ConfigureBpf`, `InstallFilter`, `OpenSender` | `MacPacketDevice::new` up to the guard; `TryDevice` is one iteration of `open_bpf_device` |
| `Install`, `CleanUp` | the steps of `Firewall` |
| `Bind` | `new_udp_reuseport` and the `expect` on it, the first failure under the guard |
| `ForwarderEnds` | `run_forwarder` returns an error or panics |
| `Surroundings` | the watchdog, kills, process numbers of `Firewall` |

Every error return and every `expect` before the guard ends the process with
nothing to clean up (`Fail`); afterwards it drops the packet device and with it
the guard (`Unwind`). Cargo's profiles do not set `panic = "abort"`.

Not in it: the moment between the drop of the capture and the end of the process
at which the `/dev/bpf` device becomes free; a device is held until the end.

### Firewall

`main[i]` walks through `FirewallGuard::install` and `drop`, `helper[i]` through
`run_cleanup_helper_if_requested`. Each `pfctl` call is a step and can fail.
`Kill` and `Interrupt` end the client at any point; `Interrupt` (Ctrl-C) also
ends a watchdog that has not left the terminal. `pidTaken[i]` is what
`kill(parent_pid, 0)` finds: a zombie or another process with the same number
counts as alive. Anchors and tokens are unique to a client (process number and
time in the anchor's name), so clients share nothing but the process numbers.

Not in it: a watchdog killed by someone else with SIGKILL.

### Capture

`pc` is where the reader task is in its loop: entering the `select!`, awaiting a
read inside `read_packet`, or handling what the `select!` returned. `Iterate` is
an iteration of `read_packet`'s loop from one await to the next: a packet from
`pending`, or else a read on the blocking pool. `PurgeCancels` is the other
branch of the `select!` being taken first: `read_packet` is dropped, the
blocking read goes on, and its result is thrown away when it ends (`Finish`).

Abstracted: a record is a number and a kind, what `decode_records` and
`copy_pending_packet` make of it; `Wire` has them in full.

### TunDevice

A queue that may lose packets but neither reorders, repeats nor invents one,
until a `recv` fails. `Capture` implements it: the queue is what is in `pending`,
in the reads and in the kernel, as far as it can still be received.

## 3. What TLC checks

### Runs that pass

**stack** (`MCStack.cfg`, 417,357 states). Three sockets, one local port, one
peer, one reader, channels of one packet, a purge channel of two. Two tuples are
enough for a packet to go to a wrong socket, three sockets for a tuple to be
opened again twice while its first owner is still being dropped, and two purges
for an order between them and for a loss.

* `TableMatchesSockets`: an entry belongs to a live socket with that tuple, and
  a live socket has its entry until its own drop.
* `StaleIsPurged`: a stale sender in a cache always has a purge on its way.
* `NoMisdelivery`: packets only reach the socket they are addressed to.
* `EntryNeverReplaced`: no insertion overwrites an entry. With it and
  `TableMatchesSockets` the `assert!`s of lines 366 and 554 hold, with one reader.

**stack_live** (`MCStackLive.cfg`, 101,530 states). Two sockets on two local
ports, a purge channel of one. `StaleHeals`: a stale sender does not stay.
`ReaderGetsOn`: a reader that waits for room gets on. Fairness: a drop that has
begun ends (it is one synchronous function); a send with room or with a closed
channel completes; sockets are read, by the handshake or by the workers of the
forwarder; `select!` polls its branches in random order, so a purge that is
ready again and again is taken (strong fairness). Passive opens are left out:
an accepted socket is not read until the application accepts it, and nothing
obliges an application to do so.

**handshake** (`MCHandshake.cfg`, 1,120,462 states). Three iterations, at most
two numbers used by each end, numbers modulo 16, a failing device, and one late
packet of an earlier connection. A shift of the loop by an unexpected packet
needs two iterations; the third makes a repetition possible. `MAX_SEQ = 2`
allows a datagram after the handshake, whose repetition and reordering move
`ack` backwards.

* `Agreement`: the server is not established before the client has answered a
  SYN+ACK.
* `HelloBudget`: unexpected packets never make an end send more SYNs or SYN+ACKs
  than every other iteration.

**handshake_live** (`MCHandshakeLive.cfg`, 67,400 states). The device does not
fail. `LoopEnds`: every `connect` and `accept` ends. `HalfOpenHeals`: an end
established alone sees the other one become established or is closed.
Fairness: the loops run, since each wait is bounded by `TIMEOUT`; and an RST that
can be received again and again is received. The second is an assumption on the
network (not every RST is lost) and on the application (the workers of the
forwarder are always in `recv`). Deadlock is not an error in these two runs: a
connection that is over, with nothing left to say, stops.

**forwarder** (`MCForwarder.cfg`, 303,016 states). Two clients, two
connections with a worker each: a client's old connection can be closing while
its new one, or the other client's, is being made. Workers of one connection only
meet at its token and its channel; a second one is in `forwarder_live`.

* `EntryIffTimer`: while the loop runs, table entry and timeout task exist
  together, so the removal by address hits the right connection.
* `InsertAssertHolds`: the `assert!` at line 81 holds.
* `NoOrphanWorker`: a running worker has a cancelled token or a timeout task.
* `OneLiveConnection`: of two sockets of one client, one is being closed.
* `ImplementsSession`: every step is one of `Session` or leaves it alone.

Deadlock is checked: when nothing can happen any more the loop has returned and
every connection is free (`Done`).

**forwarder_live** (`MCForwarderLive.cfg`, 7,356 states). One client, one connection at a time,
two workers. `QuitCloses`, `IdleCloses`, `ShutdownCloses`; `ReaderDeathCloses`:
after the death of the reader, connections still end, by their timeouts or by the
panic of the loop. Deadlock is left to the run before: the loop may stop, and that
nothing is left over then is what these properties say.
Fairness: awaits on locks, on `Socket::send` (see `SendReturns`) and on
`Stack::connect` (bounded by its retries, see `LoopEnds`) return; time passes;
`select!` does not ignore a branch that is ready again and again. Nothing is
assumed about datagrams or packets coming. The model may always take a failing
UDP receive, after which the loop has returned without cancelling anything:
`ShutdownCloses` excludes that case explicitly.

**program** (`MCProgram.cfg`, 185,495 states). Two runs; two devices; lookups of up to two addresses; four starts:
the distributed file, a file with an address that does not parse, the same with
`--ipv4-only` and `--local` while another program holds a device, and `--config` with a malformed file beside a good default file.

* `GuardedWhileRunning`, `ReleasedAtMostOnce`, `ExitIsClean`, `WatchdogCleansUp`:
  the properties of the guard, with all of main around it.
* `KeepsGuard`: main uses the guard only as `Firewall`'s own specification has it;
  `firewall_killed` and further work on `Firewall` therefore speak of main, too.
* `FamilyAgrees`: whatever the lookup says, the remote is of a family that was
  asked for, and local address and remote agree when a connection is made.
* `Precedence`: every option comes from the source that `config.md` names; a file
  that cannot be parsed counts as one that says nothing.
* `DeviceFound`: with enough devices, no run finds all of them busy.
* `SettlesCleanly`: a start comes to forwarding or to an end, and a run that has
  ended leaves nothing, unless it was killed or `pfctl` did not do its work.

Fairness: main's own steps go on, the system answers it; cleanup that has begun
goes on unless it is killed; the watchdog goes on; a dead process is reaped; and a
poll meets a moment at which the number is free if there is one again and again.

**capture** (`MCCapture.cfg`, 22,317 states). Two threads, so that an orphaned
read runs next to the one awaited; three records, so that the orphan takes one
and the next read several; a kernel buffer of two.

* `LossNeedsCancel`: a packet that fits is lost only with an orphaned read or
  with the reader.
* `CapturedMovesOn`: records do not stay in the kernel or in the queue while the
  reader runs.
* `ImplementsTunDevice`: all of this is a lossy queue to the stack; in particular
  packets reach it in the order of capture, none twice.

Fairness: a poll times out, not every read fails, and `select!` does not prefer
purges for ever. Deadlock is not an error here: a reader that has died stops.

**wire** (`MCWire.cfg`, 147,915 states). Payloads of 0, 1, 2, 6, 7 bytes (around
the Ethernet minimum and the word), 1440, 1441, 1460, 1461 (around 1500 bytes for
both families) and 1500; up to two VLAN tags; buffers of two records, the second
of which shows whether the first one moved the decoder to the right place.

* `DeliveredExactly`: the stack gets the server's packets that fit its buffer,
  with exactly the bytes sent, in order, and nothing else.
* `OnlyCutBuffersFail`: only a buffer that the device cut off is refused, and such
  a buffer always is.
* `StaysOnRecords`: no padding is taken for a header, and no slice and no `unwrap`
  of decoder and parser fails. `DeliveredExactly` speaks of buffers decoded to the
  end; this is what brings the decoder there.
* `SentAsBuilt`: what the stack builds leaves the machine as it was built.

A packet with more than 1460 bytes of payload (1440 for IPv6) is sent, and a
receiver of the same kind drops it. Deadlock is not an error: a behaviour ends
with its buffer.

**segments** (`MCSegments.cfg`, 819,280 states). One sender, two workers, a send
buffer of one packet, six segments and two datagrams, `MAX_UNACKED_LEN` 1.

* `UnackedBounded`: the distance between what was taken and what was noted for
  acknowledgement (put into a packet) is at most `MAX_UNACKED_LEN` and 1 + 2 + ... + k
  segments for k workers. Each of the k workers can take one segment too many before
  it acknowledges; and a delayed worker that stores an older number over `ack` makes
  the acknowledgements of the others too old, so that these may each take one more.
  With two workers TLC finds behaviours that reach the bound.
* `DataInOrder`: numbers of data packets increase, with one sender. Two senders
  would share numbers, although the comment at `lib.rs:168` allows them; the
  client has one.
* `SendReturns`: no wake-up of the sender is lost. Fairness: tasks go on, the
  kernel drains its buffer, and idle ACKs do not win the room in it every time
  (strong fairness of `Write`). Deadlock is not an error: the bounded traffic ends.

Type invariants: `TypeOK` of `Forwarder`, and `ProgramTypeOK`, which contains
`Firewall`'s; both are also proved. The type invariants of the other modules are in
their proof modules, as parts of the inductive invariants.

### Runs that show a disagreement between the code and its text

| run | what the text says | what the code does |
|---|---|---|
| `stack_send_unwrap` | `lib.rs:532`: the `unwrap` of the send holds | a socket dropped between lookup and send ends the reader task |
| `firewall_killed` | `macos_packet.rs:867`, `README.zh.md:30`: cleaned up after an abnormal end | a client killed before its watchdog runs, or after `drop` has stopped it, leaves rule or reference behind |

Met while modelling, without a run of their own: more drops than the purge channel
holds (16) while the reader waits for room make the `unwrap` of `lib.rs:592` end
the reader (`PurgeLagged`); the timeout's message "No traffic seen" at
`forwarder.rs:193` is also printed when the client sends all the time, since only
packets of the server count; a packet that hits a closed
channel in the cache is dropped (`SendHitClosed`), although the comment at
`lib.rs:520` says that it falls through to the slow path; the port search of
`Stack::connect` does not wrap around, so it reports exhausted ports with lower
ones free; with two devices (`Reader = {r1, r2}`) the `assert!` of the passive
open fails; an unexpected packet can shift the loop of `connect` so that its
last iteration sends a SYN nobody waits for; a repeated packet moves `ack`
backwards and triggers the idling ACK at once; the forwarder goes on using a
socket whose `send` has failed, although `send`'s documentation says that it
must be closed.

## 4. What is proved

All theorems are about the specifications that TLC runs, with the constants left
open: any sets of clients, connections, sockets, readers, workers and threads, any
sizes of channels and buffers, any numbers of retries, devices, records and tags.
The assumptions are the `ASSUME`s of the modules, which TLC evaluates in the runs:

| assumption | content |
|---|---|
| `StackAssumption`, `ForwarderAssumption`, `CaptureAssumption` | null values are not members of the sets they stand beside; capacities are positive; there is a worker |
| `HandshakeAssumption` | positive bounds, `MAX_SEQ < MODULUS`, what is left over in the network are packets |
| `SegmentsAssumption` | the sender is no worker, finitely many workers, and `MAX_SEGMENTS` less than the modulus minus `MAX_UNACKED_LEN`: an established socket does not wrap around within the bound |
| `StartsAssumption` | the starts are well formed, finitely many runs |
| `WireAssumption` | payloads are at most `MAX_PACKET_LEN` bytes, which is what the forwarder reads from UDP; tags are natural numbers |

Two groups of theorems have a hypothesis of their own:

* `NoRace` (`StackProofs`): nobody connects to us, as in the client, which never
  listens; or there is one reader, as `main` creates, and the tuples of accepted
  peers are not among those we connect from. Without it the theorems are false: two readers
  can both find a tuple free and both insert it, which is the `assert!` of
  `lib.rs:554`. The constants of both passing runs of `Stack` satisfy it.
* `NoStaleAck` (`HandshakeProofs`): what an earlier connection of the same tuple left
  in the network is not a client's ACK of number 1. Such an ACK completes `accept`
  before `connect`, since every connection begins with the same numbers. The late
  packet of the run `handshake` satisfies it.

### Theorems

| module | theorem | property | hypothesis |
|---|---|---|---|
| `ForwarderProofs` | `TypeCorrect` | `TypeOK` | |
| | `EntryIffTimerHolds` | `EntryIffTimer` | |
| | `InsertAssertNeverFails` | `InsertAssertHolds` | |
| | `NoWorkerOrphaned` | `NoOrphanWorker` | |
| | `ClientHasOneLiveConnection` | `OneLiveConnection` | |
| | `ForwarderImplementsSession` | `ImplementsSession` | |
| `StackProofs` | `NeverMisdelivered` | `NoMisdelivery` | |
| | `TableAlwaysMatches` | `TableMatchesSockets` | `NoRace` |
| | `StaleAlwaysPurged` | `StaleIsPurged` | `NoRace` |
| | `EntriesNeverReplaced` | `EntryNeverReplaced` | `NoRace` |
| | `AssertsHold` | the `assert!`s of `lib.rs` 366 and 554 never fail | `NoRace` |
| `HandshakeProofs` | `HandshakeTypeCorrect` | types; numbers stay in range through every wrap | |
| | `HelloBudgetHolds` | `HelloBudget` | |
| | `AgreementHolds` | `Agreement` | `NoStaleAck` |
| `SegmentsProofs` | `DataAlwaysInOrder` | `DataInOrder` | |
| | `OnlyTakenIsAcked` | no number is acknowledged before its segment is taken | |
| | `UnackedAlwaysBounded` | `UnackedBounded` | |
| `ProgramProofs` | `GuardTypeCorrect`, `AlwaysGuarded`, `NeverReleasedTwice`, `ExitsCleanly` | `TypeOK`, `GuardedWhileRunning`, `ReleasedAtMostOnce`, `ExitIsClean` of `Firewall` | |
| | `ProgramKeepsGuard` | `KeepsGuard` | |
| | `ProgramGuardSafe` | the guard's three invariants, of `Program` | |
| | `ProgramTypeCorrect`, `FamiliesAlwaysAgree` | `ProgramTypeOK`, `FamilyAgrees` | |
| | `PrecedenceHolds`, `DeviceAlwaysFound` | `Precedence`, `DeviceFound` | |
| `CaptureProofs` | `CaptureSafe` | the inductive invariant | |
| | `OnlyCancelLoses` | `LossNeedsCancel` | |
| | `DeliveredInOrder` | order of capture, none twice, none made up | |
| | `CaptureIsTunDevice` | `ImplementsTunDevice` | |
| `WireProofs` | `AlwaysSentAsBuilt` | `SentAsBuilt` | |
| | `OnlyCutBuffersAreRefused` | `OnlyCutBuffersFail` | |
| | `AlwaysOnRecords` | `StaysOnRecords` | |
| | `AlwaysDeliveredExactly` | `DeliveredExactly` | |

Hardly any of these properties is inductive by itself. Each proof module begins with
the invariant it needs, which TLC has checked on the instance of the module's run;
lemmas for the actions show that it is kept, and one lemma puts them together.

### The inductive invariants

**Forwarder**, `IInv`: `TypeOK`, `EntryIffTimer` and

* `LoopInv`: what the loop has in hand at each of its awaits. Between lookup and
  insertion the client has no entry, and the new socket belongs to no task yet;
  after the loop has stopped the table is empty. The assertion at the insertion
  follows from it: only the loop inserts, and only at one await.
* `TimerInv`: a running timeout task has a client, and the token of its
  connection is cancelled once it has taken the branch of the token. After an
  expiry the entry removed is the connection's own, by `EntryIffTimer`, so its
  token is the one that gets cancelled.
* `UnquitInv`: a connection in use whose token is not cancelled is the one in
  the loop's hand or in the table, which makes it unique for its client.

`EntryIffTimer` and `UnquitInv` also cover the unwinding of the loop: a shutdown
that panics in the middle leaves connections without an entry, but with their
timeout tasks. For the refinement, `PhaseIs` shows from `IInv` that the four phases
of `Session` exclude each other; a lemma per abstract step (`LifeDials`,
`LifeServes`, `LifeCloses`, ...) says which change of phases it is, and every
action is shown to make one of these changes or none.

**Stack**. `CoreInv` holds with any number of readers. Beside types and
`NoMisdelivery` it says that a reference held by the table, a cache or a waiting
reader is to a socket of that tuple that is not yet destroyed (`RefsInv`): this is
what makes the reuse of a socket's name after its drop harmless. `TableInv` adds
that the lookup of a passive open is still right when it inserts; this needs
`NoRace`. `StackInv` adds `StaleIsPurged`; the difficult step is a purge sent into a full
channel, where the reader loses its oldest message but learns that it has lost one.

**Handshake**. `HelloInv` counts two iterations for every SYN or SYN+ACK: sent
once, the end waits at least one iteration before it sends again. `SynInv` is what
`Agreement` needs of the numbers: as long as the client has not sent its final ACK
its `seq` is 0, and an ACK that satisfies the server is in the network only after.

**Segments**. `OrderInv`: numbers on the wire are below the one the sender has in
hand, wherever it is between load and advance. `NumbersInv`: `last_ack`, wherever a
worker read it, is no newer than the newest acknowledgement. `LagInv` is behind the
bound: for every number n that could be the newest acknowledged, a worker is
behind n (about to store an older number), ahead (bound to acknowledge beyond n unless one
that is behind stores first), or ready. A ready worker may take one segment; a
store of one that is behind makes all that are ahead ready again. With h workers
behind and r ready, the segments still to come are at most r + (k + (k-1) + ...), h
terms, which no step increases. An earlier form of `UnackedBounded`, two segments
per worker less one, agrees with this for one and two workers; the proof failed for
three, and TLC found a counterexample with three workers and eleven segments (the
bound proved is reached there, too). The run has two workers, for which the two agree.

**Firewall and Program**. `GuardInv` lists what a client has acquired at each place of
`install` and `drop` (`Acquired`), and that a watchdog which acts belongs to a
killed client and has an unreleased reference (`Watched`). `ProgramInv` contains it
and says that main holds nothing of the packet filter before `install` (`Early`),
where the configuration comes from (`Configured`), that the families agree from the
moment they are known (`Families`), and that a search has skipped only devices that
somebody holds for good (`Scan`). `DeviceFound` then is a counting argument: a run
that finds all devices busy would need more holders than there are.
`ProgramKeepsGuard` is a step simulation, and what is proved of `Firewall` holds of
`Program` by it.

**Capture**, `CaptureInv`: delivered packets, the queue, the read that is awaited
and the kernel's buffer are increasing sequences of record numbers, each below the
next (`FlowInv`); only the awaited read keeps its result (`ReadsInv`); and without an
orphan every packet that fits is still in one of them (`LossInv`). An increasing
sequence is known by its set of elements (`SameElements` of `SubsequenceProofs`), so
that each step of `TunDevice` comes down to which elements are lost.

**Wire**, `WireInv`: records lie one behind the other at multiples of the word
(`Layout`); while the decoder runs it is at the start of a record c and the queue
holds the packets of the server among the records before c (`DecodedTo`); afterwards
what was delivered and what is queued together are those that are wanted (`Handed`).
`FrameDecodes` is the lemma about the pure functions: of every frame the network can
bring, the decoder makes exactly the packet that the server put into it, or nothing,
and nothing it makes can panic the parser. `BuiltIsSent` does the same for the way
out, with `SwapTwice` for the byte orders.

### How the modules were written for it

`Only` (a recursive function) takes the place of `SelectSeq`, and
`select_remote_address` is stated by its least index, since the library's recursive
operators cannot be unfolded by the provers. The flags and the network of a frame
in `Wire` are strings, not Booleans, which the SMT solver handles badly as fields.
Induction over lengths is not available to the provers as a rule; where it is needed
(`LoopExists`, `OnlyIs`, `SameStart`) the proof takes a least counterexample, which
exists because the natural numbers are well founded. Leaves that name a prover (`Zenon`, `SMTT`) do so because that prover finds them at once.

### Only model-checked

* Liveness: `StaleHeals`, `ReaderGetsOn`, `LoopEnds`, `HalfOpenHeals`, `QuitCloses`,
  `IdleCloses`, `ReaderDeathCloses`, `ShutdownCloses`, `WatchdogCleansUp`,
  `SettlesCleanly`, `CapturedMovesOn`, `SendReturns`. Fairness and `ENABLED` are out of
  the reach of the provers used here. For the same reason the theorems are about the
  safety part of the specifications; the fair ones imply it.
* The two disagreements at the end of section 3, which are counterexamples.
* That the bound of `UnackedBounded` is reached (TLC, two workers).

## 5. What is not modelled

* The Linux and Windows devices of `tun.rs`: adapters of one library call per
  method, which the macOS client is not built with.
* Bytes: payloads, checksums, the TCP option of a SYN, the text of `pfctl` rules,
  of the BPF filter expression and of the output of `route` and `pfctl`. What the
  code looks for in them succeeds or fails as a choice.
* The option `routes` and the addresses `tun_local`, `tun_peer` (and `..6`) after
  they are parsed: they are logged at most.
* A cancelled token in main: `main` never cancels the one it gives to
  `run_forwarder`, so `ShutdownCloses` is about callers that do, such as the tests
  of `forwarder.rs`.
* Several senders on one socket, and late segments in `Segments` (in `Handshake`
  they are there).
* The tests and benchmarks of the crates.

## 6. Plan

1. The composition of `Stack` with `Forwarder`, which now meet only in `reader`.
2. `EntryNeverReplaced` with several readers, once the passive open looks the tuple
   up and inserts it under one lock.
