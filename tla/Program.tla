------------------------------ MODULE Program ------------------------------
(***************************************************************************)
(* The program around the packet-filter guard: main in                     *)
(* src/phantun-client-mac/src/main.rs with the configuration (config.rs),  *)
(* the choice of addresses, the packet device (MacPacketDevice::new in     *)
(* macos_packet.rs), the UDP listener (udp.rs) and the ways it ends.       *)
(*                                                                         *)
(* Several runs of the program share the machine: its files, its /dev/bpf  *)
(* devices and its UDP ports.  They are started with one command line, so  *)
(* that they want the same port.  Texts are known by where they come from: *)
(* an option is a member of Option, its value the name of a source.        *)
(***************************************************************************)
EXTENDS Firewall, FiniteSets, Sequences

CONSTANTS
    Starts,        \* what the runs can be started with
    LAST_BPF,      \* the last index of a /dev/bpf device (255 in the code)
    MAX_ANSWERS    \* the longest answer to a name lookup

Option == {"local", "remote", "tun_local", "tun_peer", "tun_local6", "tun_peer6"}
CliOption == {"local", "remote", "tun_local", "tun_peer"}

\* Of each, the options it gives and those of them with a text that does not
\* parse; of a file, whether it can be read and parsed.
CommandLine == [config : BOOLEAN, given : SUBSET CliOption, ipv4_only : BOOLEAN, bad : SUBSET CliOption]
File == [ok : BOOLEAN, given : SUBSET Option, ipv4_only : BOOLEAN, bad : SUBSET Option]

ASSUME StartsAssumption ==
    /\ Starts \subseteq
           [commandLine : CommandLine, defaultFile : File, givenFile : File, held : SUBSET (0 .. LAST_BPF)]
    /\ LAST_BPF \in Nat
    /\ MAX_ANSWERS \in Nat
    /\ IsFiniteSet(Client)

VARIABLES
    start,    \* the command line, phantun-client.json, the file --config names, and
              \* the /dev/bpf devices that other programs hold
    stage,    \* where each run is in main
    config,   \* its RuntimeConfig
    remote,   \* the family of remote_addr: 4, 6, or 0 before it is known
    local,    \* the family of the local address found for it, or 0
    index,    \* the /dev/bpf device open_bpf_device is at
    device    \* whether that device is open

commandLine == start.commandLine

progVars == <<vars, start, stage, config, remote, local, index, device>>

Stage == {"load", "resolve", "discover", "route", "open", "configure", "filter", "sender",
          "install", "forward", "ended", "failed", "busy"}

Source == {"built-in", "default file", "given file", "command line"}

ProgramTypeOK ==
    /\ TypeOK
    /\ stage \in [Client -> Stage]
    /\ config \in [Client -> [from : [Option -> Source], ipv4_only : BOOLEAN, bad : SUBSET Option]]
    /\ remote \in [Client -> {0, 4, 6}]
    /\ local \in [Client -> {0, 4, 6}]
    /\ index \in [Client -> 0 .. LAST_BPF]
    /\ device \in [Client -> BOOLEAN]

-----------------------------------------------------------------------------
(* Configuration *)

Default == [from |-> [o \in Option |-> "built-in"], ipv4_only |-> FALSE, bad |-> {}]

\* load_config: a file that cannot be read or parsed counts for nothing; a field
\* that it leaves out has its built-in value.
load_config(name, file) ==
    IF file.ok
    THEN [from |-> [o \in Option |-> IF o \in file.given THEN name ELSE "built-in"],
          ipv4_only |-> file.ipv4_only, bad |-> file.bad]
    ELSE Default

\* A wrong Loaded, for mutation.
LoadedOnTop ==
    IF commandLine.config /\ start.givenFile.ok
    THEN load_config("given file", start.givenFile)
    ELSE load_config("default file", start.defaultFile)

\* The default file is read first; --config puts another in its place.
Loaded ==
    IF commandLine.config
    THEN load_config("given file", start.givenFile)
    ELSE load_config("default file", start.defaultFile)

\* RuntimeConfig::from_loaded_config
from_loaded_config(loaded) ==
    [from |-> [o \in Option |-> IF o \in commandLine.given THEN "command line" ELSE loaded.from[o]],
     ipv4_only |-> commandLine.ipv4_only \/ loaded.ipv4_only,
     bad |-> (loaded.bad \ commandLine.given) \cup commandLine.bad]

\* A wrong select_remote_address, for mutation.
select_first_address(answers, ipv4_only) == IF answers = <<>> THEN 0 ELSE Head(answers)

\* The family of the first address that will do; 0 if there is none.
select_remote_address(answers, ipv4_only) ==
    LET fit == {k \in DOMAIN answers : ~ipv4_only \/ answers[k] = 4}
    IN  IF fit = {} THEN 0 ELSE answers[CHOOSE k \in fit : \A m \in fit : k <= m]

\* The options whose text main parses.
Parsed(c) ==
    {"local", "tun_local", "tun_peer"} \cup IF c.ipv4_only THEN {} ELSE {"tun_local6", "tun_peer6"}

Answers == UNION {[1 .. n -> {4, 6}] : n \in 0 .. MAX_ANSWERS}

-----------------------------------------------------------------------------
(* main up to the guard *)

ProgramInit ==
    /\ Init
    /\ start \in Starts
    /\ stage = [i \in Client |-> "load"]
    /\ config = [i \in Client |-> Default]
    /\ remote = [i \in Client |-> 0]
    /\ local = [i \in Client |-> 0]
    /\ index = [i \in Client |-> 0]
    /\ device = [i \in Client |-> FALSE]

At(i, s) == stage[i] = s /\ main[i] \notin Gone
Enter(i, s) == stage' = [stage EXCEPT ![i] = s]

\* An expect fails or an error is returned before the guard exists.
Fail(i, s) == Enter(i, s) /\ Goto(i, "exited")

LoadConfig(i) ==
    /\ At(i, "load")
    /\ config' = [config EXCEPT ![i] = from_loaded_config(Loaded)]
    /\ Enter(i, "resolve")
    /\ UNCHANGED <<vars, start, remote, local, index, device>>

\* The addresses are parsed and the remote is looked up.
Resolve(i) ==
    /\ At(i, "resolve")
    /\ \E answers \in Answers :
           LET family == select_remote_address(answers, config[i].ipv4_only)
               fine == family # 0 /\ Parsed(config[i]) \cap config[i].bad = {}
           IN  /\ remote' = [remote EXCEPT ![i] = IF fine THEN family ELSE 0]
               /\ IF fine THEN Enter(i, "discover") /\ UNCHANGED main ELSE Fail(i, "failed")
    /\ UNCHANGED <<helper, rules, tokens, lost, botched, released, pidTaken>>
    /\ UNCHANGED <<start, config, local, index, device>>

\* discover_local_ipv6 for an IPv6 remote, discover_local_ipv4 for another.
Discovered(i) == remote[i]

Discover(i) ==
    /\ At(i, "discover")
    /\ \/ Enter(i, "route") /\ local' = [local EXCEPT ![i] = Discovered(i)] /\ UNCHANGED main
       \/ Fail(i, "failed") /\ UNCHANGED local
    /\ UNCHANGED <<helper, rules, tokens, lost, botched, released, pidTaken>>
    /\ UNCHANGED <<start, config, remote, index, device>>

\* A step of MacPacketDevice::new that asks the system, and may be refused.
Ask(i, from, to, granted) ==
    /\ At(i, from)
    /\ \/ granted /\ Enter(i, to) /\ UNCHANGED main
       \/ Fail(i, "failed")
    /\ UNCHANGED <<helper, rules, tokens, lost, botched, released, pidTaken>>
    /\ UNCHANGED <<start, config, remote, local, index, device>>

RouteInterface(i) == Ask(i, "route", "open", TRUE)

ConfigureBpf(i) == Ask(i, "configure", "filter", TRUE)

InstallFilter(i) == Ask(i, "filter", "sender", TRUE)

\* RawPacketSender::new: an IPv6 socket is bound to the local address.
OpenSender(i) == Ask(i, "sender", "install", remote[i] = 4 \/ local[i] = 6)

\* The kernel gives a /dev/bpf device to one process at a time, and takes it
\* back when the process ends if not before.
Busy(n) == n \in start.held \/ \E j \in Client : device[j] /\ index[j] = n /\ main[j] \notin Gone

\* Wrong forms of Exhausted, for mutation.
ExhaustedEarly(i) == index[i] + 1 >= LAST_BPF
ExhaustedNever(i) == FALSE

Exhausted(i) == index[i] = LAST_BPF

\* A wrong Following, for mutation.
FollowingSame(i) == index[i]

Following(i) == index[i] + 1

\* An iteration of open_bpf_device: only a busy device leads to the next one.
TryDevice(i) ==
    /\ At(i, "open")
    /\ \/ /\ Busy(index[i]) /\ ~Exhausted(i)
          /\ index' = [index EXCEPT ![i] = Following(i)]
          /\ UNCHANGED <<stage, main, device>>
       \/ /\ Busy(index[i]) /\ Exhausted(i)
          /\ Fail(i, "busy")
          /\ UNCHANGED <<index, device>>
       \/ /\ ~Busy(index[i])
          /\ device' = [device EXCEPT ![i] = TRUE]
          /\ Enter(i, "configure")
          /\ UNCHANGED <<main, index>>
       \/ /\ ~Busy(index[i])
          /\ Fail(i, "failed")
          /\ UNCHANGED <<index, device>>
    /\ UNCHANGED <<helper, rules, tokens, lost, botched, released, pidTaken>>
    /\ UNCHANGED <<start, config, remote, local>>

\* FirewallGuard::install, its error paths included.
Install(i) ==
    /\ stage[i] = "install"
    /\ Enable(i) \/ EnsureAnchor(i) \/ LoadRule(i) \/ SpawnHelper(i)
    /\ UNCHANGED <<start, stage, config, remote, local, index, device>>

-----------------------------------------------------------------------------
(* main under the guard *)

\* The port is another run's.
PortTaken(i) ==
    \E j \in Client : At(j, "forward") /\ config[j].from["local"] = config[i].from["local"]

\* A wrong Unwind, for mutation.
UnwindAbort(i) ==
    Goto(i, "exited") /\ UNCHANGED <<helper, rules, tokens, lost, botched, released, pidTaken>>

\* main returns or panics: the packet device, and the guard with it, is dropped.
Unwind(i) == StopHelper(i)

\* new_udp_reuseport; its expect is the first that fails with the guard in place.
Bind(i) ==
    /\ At(i, "install") /\ main[i] = "running"
    /\ \/ ~PortTaken(i) /\ Enter(i, "forward") /\ UNCHANGED vars
       \/ Enter(i, "ended") /\ Unwind(i)
    /\ UNCHANGED <<start, config, remote, local, index, device>>

\* run_forwarder returns an error or panics; nobody cancels its token.
ForwarderEnds(i) ==
    /\ At(i, "forward")
    /\ Enter(i, "ended") /\ Unwind(i)
    /\ UNCHANGED <<start, config, remote, local, index, device>>

\* The rest of FirewallGuard::drop and of the error paths of install.
CleanUp(i) ==
    /\ ClearRule(i) \/ ReleaseToken(i)
    /\ UNCHANGED <<start, stage, config, remote, local, index, device>>

-----------------------------------------------------------------------------

Startup(i) ==
    \/ LoadConfig(i) \/ Resolve(i) \/ Discover(i) \/ RouteInterface(i) \/ TryDevice(i)
    \/ ConfigureBpf(i) \/ InstallFilter(i) \/ OpenSender(i) \/ Install(i) \/ Bind(i) \/ CleanUp(i)

Surroundings(i) ==
    /\ HelperStep(i) \/ SystemStep(i)
    /\ UNCHANGED <<start, stage, config, remote, local, index, device>>

ProgramNext == \E i \in Client : Startup(i) \/ ForwarderEnds(i) \/ Surroundings(i)

\* main waits for the system (the lookup, pfctl, the watchdog it has killed),
\* which answers; nothing makes the forwarder end.
ProgramSpec ==
    /\ ProgramInit /\ [][ProgramNext]_progVars
    /\ Fairness
    /\ \A i \in Client : WF_progVars(Startup(i))

-----------------------------------------------------------------------------

FileInUse == IF commandLine.config THEN start.givenFile ELSE start.defaultFile

\* Whether the user asked for IPv4 only: on the command line, or in the file
\* that is in use, if it can be parsed.
Ipv4Asked == commandLine.ipv4_only \/ (FileInUse.ok /\ FileInUse.ipv4_only)

\* Whatever a lookup answers and in whatever order, a client told to use IPv4 only
\* never goes on with an IPv6 remote (select_remote_address), and connecting never
\* meets a missing local address (the expect in Stack::connect, the error in
\* RawPacketSender::new): the local address is of the family of the remote.
FamilyAgrees ==
    \A i \in Client :
        stage[i] \in {"route", "open", "configure", "filter", "sender", "install", "forward"} =>
            /\ remote[i] # 0 /\ local[i] = remote[i]
            /\ Ipv4Asked => remote[i] # 6

\* What a client that got past its start works with: the command line wins, the
\* default file counts only without --config, and a file that cannot be parsed
\* does not count, neither with its values nor by letting another file count.
Precedence ==
    \A i \in Client, o \in Option : stage[i] = "forward" =>
        config[i].from[o] =
            CASE o \in commandLine.given -> "command line"
              [] o \notin commandLine.given /\ (~FileInUse.ok \/ o \notin FileInUse.given) -> "built-in"
              [] OTHER -> IF commandLine.config THEN "given file" ELSE "default file"

\* open_bpf_device does not give up while there may be a device: with one for
\* every run beside those that other programs hold, no run finds them all busy,
\* however the runs overtake each other.
DeviceFound ==
    Cardinality(Client) + Cardinality(start.held) <= LAST_BPF + 1 =>
        \A i \in Client : stage[i] # "busy"

\* Every path of main through the guard, the panic of a failed bind included,
\* is one the guard's own specification allows, so what holds of it holds here.
KeepsGuard == Spec

\* A run is never stuck: it comes to forwarding, or the process goes, and its rule
\* and reference go with it, at whatever step the start failed and also after a
\* failed bind or a panic of the forwarder; unless the process is killed, pfctl
\* fails, or pfctl never told the token.
SettlesCleanly ==
    \A i \in Client : stage[i] # "forward" ~>
        \/ stage[i] = "forward"
        \/ main[i] = "killed"
        \/ main[i] = "exited" /\ (Clean(i) \/ i \in lost \cup botched)

=============================================================================
