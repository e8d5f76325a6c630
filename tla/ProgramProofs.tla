--------------------------- MODULE ProgramProofs ---------------------------
(***************************************************************************)
(* Proofs of the safety properties of Firewall, for any set of clients,    *)
(* and of Program, for any number of runs, any command line and files, any *)
(* devices held by other programs, any number of /dev/bpf devices and      *)
(* lookups of any length.                                                  *)
(*                                                                         *)
(* No two clients share an anchor, a reference or a watchdog, so the       *)
(* inductive invariant of Firewall speaks of one client at a time: what it *)
(* holds, and who is left to give it back, at each place where it can be.  *)
(*                                                                         *)
(* Program is then shown to implement Firewall, so that what is proved of  *)
(* the guard alone holds of the whole program.  That takes one fact beyond *)
(* the guard: a run that has not come to install has not touched PF, so    *)
(* that its failure is a failure the guard's specification knows.          *)
(***************************************************************************)
EXTENDS Program, FiniteSetTheorems, WellFoundedInduction, TLAPS

-----------------------------------------------------------------------------
(* The guard *)

\* Nobody watches the client, and its reference was never given back.
Alone(i) == helper[i] = "none" /\ released[i] = 0

\* What the client has acquired when it is at a place of install or of drop.
Acquired(i) ==
    /\ main[i] = "start" => Alone(i) /\ Clean(i)
    /\ main[i] \in {"enabled", "anchored"} => Alone(i) /\ i \notin rules /\ i \in tokens
    /\ main[i] = "loaded" => Alone(i) /\ i \in rules /\ i \in tokens
    /\ main[i] = "running" =>
          i \in rules /\ i \in tokens /\ helper[i] \in {"spawned", "watching"}
    /\ main[i] \in {"unguarded", "cleared"} => helper[i] \in {"none", "gone"} /\ released[i] = 0
    /\ main[i] = "cleared" => i \notin rules \/ i \in botched
    /\ main[i] = "exited" =>
          helper[i] \in {"none", "gone"} /\ (i \in lost \cup botched \/ Clean(i))

\* A watchdog that can still act has an unreleased reference to release, and
\* acts only for a killed client: the number of any other process is taken.
Watched(i) ==
    /\ helper[i] \in {"spawned", "watching", "clearing", "releasing"} => released[i] = 0
    /\ helper[i] \in {"clearing", "releasing"} => main[i] = "killed"
    /\ main[i] \notin Gone => pidTaken[i]
    /\ released[i] <= 1

GuardInv == TypeOK /\ \A i \in Client : Acquired(i) /\ Watched(i)

-----------------------------------------------------------------------------

LEMMA GuardInit == Init => GuardInv
BY DEF Init, GuardInv, TypeOK, Acquired, Watched, Alone, Clean, Installing, Gone

\* What a step of a client or of its watchdog leaves alone: every other client.
Untouched(j) ==
    /\ main'[j] = main[j] /\ helper'[j] = helper[j]
    /\ released'[j] = released[j] /\ pidTaken'[j] = pidTaken[j]
    /\ j \in rules' <=> j \in rules
    /\ j \in tokens' <=> j \in tokens
    /\ j \in lost' <=> j \in lost
    /\ j \in botched' <=> j \in botched

LEMMA UntouchedKeeps ==
    ASSUME NEW j \in Client, Acquired(j), Watched(j), Untouched(j)
    PROVE  Acquired(j)' /\ Watched(j)'
BY DEF Acquired, Watched, Alone, Clean, Untouched

LEMMA StepIsOwn ==
    ASSUME TypeOK, NEW i \in Client, MainStep(i) \/ HelperStep(i) \/ SystemStep(i),
           NEW j \in Client, j # i
    PROVE  Untouched(j)
<1> USE DEF TypeOK, Untouched, Goto, Clear, Release
<1>1. CASE MainStep(i)
  BY <1>1, Zenon DEF MainStep, Enable, EnsureAnchor, LoadRule, SpawnHelper, UnspawnedGoesTo,
              StopHelper, HelperKilled, ClearRule, ReleaseToken
<1>2. CASE HelperStep(i)
  BY <1>2, Zenon DEF HelperStep, HelperDetach, HelperSeesDeath, HelperClear, HelperRelease
<1>3. CASE SystemStep(i)
  BY <1>3 DEF SystemStep, Kill, Interrupt, PidFreed, PidReused
<1> QED BY <1>1, <1>2, <1>3

-----------------------------------------------------------------------------
(* One lemma per process: its steps keep the invariant of its own client *)

LEMMA MainKeeps ==
    ASSUME GuardInv, NEW i \in Client, MainStep(i)
    PROVE  TypeOK' /\ Acquired(i)' /\ Watched(i)'
<1> USE DEF GuardInv, TypeOK, Acquired, Watched, Alone, Clean, Installing, Gone, Goto
<1>1. CASE Enable(i)
  BY <1>1 DEF Enable
<1>2. CASE EnsureAnchor(i)
  BY <1>2 DEF EnsureAnchor
<1>3. CASE LoadRule(i)
  BY <1>3 DEF LoadRule
<1>4. CASE SpawnHelper(i)
  BY <1>4 DEF SpawnHelper, UnspawnedGoesTo
<1>5. CASE StopHelper(i)
  BY <1>5 DEF StopHelper, HelperKilled
<1>6. CASE ClearRule(i)
  BY <1>6 DEF ClearRule, Clear
<1>7. CASE ReleaseToken(i)
  BY <1>7 DEF ReleaseToken, Release
<1> QED BY <1>1, <1>2, <1>3, <1>4, <1>5, <1>6, <1>7, Zenon DEF MainStep

LEMMA HelperKeeps ==
    ASSUME GuardInv, NEW i \in Client, HelperStep(i)
    PROVE  TypeOK' /\ Acquired(i)' /\ Watched(i)'
<1> USE DEF GuardInv, TypeOK, Acquired, Watched, Alone, Clean, Installing, Gone
<1>1. CASE HelperDetach(i)
  BY <1>1 DEF HelperDetach
<1>2. CASE HelperSeesDeath(i)
  BY <1>2 DEF HelperSeesDeath, ParentDead
<1>3. CASE HelperClear(i)
  BY <1>3 DEF HelperClear, Clear, ClearedGoesTo
<1>4. CASE HelperRelease(i)
  BY <1>4 DEF HelperRelease, Release, ReleasedGoesTo
<1> QED BY <1>1, <1>2, <1>3, <1>4, Zenon DEF HelperStep

LEMMA SystemKeeps ==
    ASSUME GuardInv, NEW i \in Client, SystemStep(i)
    PROVE  TypeOK' /\ Acquired(i)' /\ Watched(i)'
<1> USE DEF GuardInv, TypeOK, Acquired, Watched, Alone, Clean, Installing, Gone, Goto
<1>1. CASE Kill(i)
  BY <1>1 DEF Kill
<1>2. CASE Interrupt(i)
  BY <1>2 DEF Interrupt
<1>3. CASE PidFreed(i)
  BY <1>3 DEF PidFreed
<1>4. CASE PidReused(i)
  BY <1>4 DEF PidReused
<1> QED BY <1>1, <1>2, <1>3, <1>4 DEF SystemStep

LEMMA GuardNext == GuardInv /\ [Next]_vars => GuardInv'
<1> SUFFICES ASSUME GuardInv, [Next]_vars PROVE GuardInv'
  OBVIOUS
<1>1. CASE UNCHANGED vars
  BY <1>1 DEF vars, GuardInv, TypeOK, Acquired, Watched, Alone, Clean
<1>2. ASSUME NEW i \in Client, MainStep(i) \/ HelperStep(i) \/ SystemStep(i)
      PROVE  GuardInv'
  <2>1. TypeOK' /\ Acquired(i)' /\ Watched(i)'
    BY <1>2, MainKeeps, HelperKeeps, SystemKeeps
  <2>2. ASSUME NEW j \in Client, j # i
        PROVE  Acquired(j)' /\ Watched(j)'
    BY <1>2, <2>2, StepIsOwn, UntouchedKeeps DEF GuardInv
  <2> QED BY <2>1, <2>2 DEF GuardInv
<1> QED BY <1>1, <1>2 DEF Next

LEMMA GuardHolds == Spec => []GuardInv
BY GuardInit, GuardNext, PTL DEF Spec

-----------------------------------------------------------------------------

\* Every variable of the guard keeps its type; in particular pfctl -X is run a
\* bounded number of times for a client's token.
THEOREM GuardTypeCorrect == Spec => []TypeOK
<1>1. GuardInv => TypeOK
  BY DEF GuardInv
<1> QED BY <1>1, GuardHolds, PTL

\* As long as a client runs, its rule is loaded, PF is enabled for it, and its
\* watchdog is there and idle (FirewallGuard::install, process_is_alive).
THEOREM AlwaysGuarded == Spec => []GuardedWhileRunning
<1>1. GuardInv => GuardedWhileRunning
  BY DEF GuardInv, Acquired, GuardedWhileRunning
<1> QED BY <1>1, GuardHolds, PTL

\* FirewallGuard::drop, the error paths of install and the watchdog between
\* them release the reference of a client at most once.
THEOREM NeverReleasedTwice == Spec => []ReleasedAtMostOnce
<1>1. GuardInv => ReleasedAtMostOnce
  BY Zenon DEF GuardInv, Watched, ReleasedAtMostOnce
<1> QED BY <1>1, GuardHolds, PTL

\* A client that returns or fails leaves no rule, no reference and no watchdog,
\* if pfctl did its work and told it the token.
THEOREM ExitsCleanly == Spec => []ExitIsClean
<1>1. GuardInv => ExitIsClean
  BY DEF GuardInv, Acquired, ExitIsClean
<1> QED BY <1>1, GuardHolds, PTL

-----------------------------------------------------------------------------
(* The program *)

Before == {"load", "resolve", "discover", "route", "open", "configure", "filter", "sender"}

\* Before install the run holds nothing of the packet filter.
Early(i) == stage[i] \in Before => main[i] \in {"start", "killed"}

\* The configuration is computed once, from what the run was started with.
Configured(i) == stage[i] # "load" => config[i] = from_loaded_config(Loaded)

\* The families agree from the moment they are known.
Families(i) ==
    /\ stage[i] \notin {"load", "resolve", "ended", "failed", "busy"} =>
          remote[i] # 0 /\ (config[i].ipv4_only => remote[i] # 6)
    /\ stage[i] \notin {"load", "resolve", "discover", "ended", "failed", "busy"} =>
          local[i] = remote[i]

\* A device other than the one that the run is at, and in somebody's hands for
\* good: a run never gives its device back before it ends.
Occupied(n) == n \in start.held \/ \E j \in Client : device[j] /\ index[j] = n

\* The scan skips nothing that is free, and a device once open stays the same.
Scan(i) ==
    /\ device[i] => stage[i] \notin {"load", "resolve", "discover", "route", "open", "busy"}
    /\ \A n \in 0 .. LAST_BPF : n < index[i] \/ stage[i] = "busy" => Occupied(n)

ProgramInv ==
    /\ ProgramTypeOK
    /\ GuardInv
    /\ start \in Starts
    /\ \A i \in Client : Early(i) /\ Configured(i) /\ Families(i) /\ Scan(i)

-----------------------------------------------------------------------------
(* The operators of the configuration *)

ConfigType == [from : [Option -> Source], ipv4_only : BOOLEAN, bad : SUBSET Option]

LEMMA DefaultType == Default \in ConfigType
BY DEF Default, ConfigType, Source

LEMMA LoadType ==
    ASSUME NEW file \in File, NEW name \in Source
    PROVE  load_config(name, file) \in ConfigType
<1>1. [o \in Option |-> IF o \in file.given THEN name ELSE "built-in"] \in [Option -> Source]
  BY Zenon DEF Source
<1>2. file.ipv4_only \in BOOLEAN /\ file.bad \in SUBSET Option
  BY DEF File
<1>3. CASE file.ok
  BY <1>1, <1>2, <1>3 DEF load_config, ConfigType
<1>4. CASE ~file.ok
  BY <1>4, DefaultType DEF load_config
<1> QED BY <1>3, <1>4

LEMMA LoadedType == ASSUME start \in Starts PROVE Loaded \in ConfigType
<1>1. start.givenFile \in File /\ start.defaultFile \in File
  BY StartsAssumption DEF StartsAssumption
<1> QED BY <1>1, LoadType, Zenon DEF Loaded, Source

LEMMA RuntimeType == ASSUME start \in Starts PROVE from_loaded_config(Loaded) \in ConfigType
<1>1. commandLine \in CommandLine
  BY StartsAssumption DEF StartsAssumption, commandLine
<1>2. PICK loaded \in ConfigType : loaded = Loaded
  BY LoadedType
<1>3. [o \in Option |-> IF o \in commandLine.given THEN "command line" ELSE loaded.from[o]]
          \in [Option -> Source]
  BY <1>2, Zenon DEF ConfigType, Source
<1>4. (loaded.bad \ commandLine.given) \cup commandLine.bad \in SUBSET Option
  BY <1>1, <1>2 DEF CommandLine, CliOption, Option, ConfigType
<1>5. (commandLine.ipv4_only \/ loaded.ipv4_only) \in BOOLEAN
  BY <1>1, <1>2 DEF CommandLine, ConfigType
<1> QED BY <1>2, <1>3, <1>4, <1>5, Zenon DEF from_loaded_config, ConfigType

LEMMA RuntimeFrom ==
    ASSUME start \in Starts, NEW o \in Option
    PROVE  from_loaded_config(Loaded).from[o] =
               IF o \in commandLine.given THEN "command line" ELSE Loaded.from[o]
<1>1. commandLine \in CommandLine
  BY StartsAssumption DEF StartsAssumption, commandLine
<1>2. PICK loaded \in ConfigType : loaded = Loaded
  BY LoadedType
<1>3. PICK only \in BOOLEAN : only = (commandLine.ipv4_only \/ loaded.ipv4_only)
  BY <1>1, <1>2 DEF CommandLine, ConfigType
<1>4. PICK r : r = from_loaded_config(loaded)
  OBVIOUS
<1>5. r = [from |-> [p \in Option |->
                        IF p \in commandLine.given THEN "command line" ELSE loaded.from[p]],
           ipv4_only |-> only,
           bad |-> (loaded.bad \ commandLine.given) \cup commandLine.bad]
  BY <1>3, <1>4, Zenon DEF from_loaded_config
<1>6. r.from[o] = IF o \in commandLine.given THEN "command line" ELSE loaded.from[o]
  BY <1>5, Zenon
<1> QED BY <1>2, <1>4, <1>6, Zenon

\* Every set of positions that is not empty has a first.
LEMMA FirstExists ==
    ASSUME NEW S \in SUBSET Nat, S # {}
    PROVE  \E k \in S : \A m \in S : k <= m
<1>1. PICK k \in S : \A m \in S : ~(<<m, k>> \in OpToRel(<, Nat))
  BY NatLessThanWellFounded, WFMin, Zenon
<1>2. \A m \in S : ~(m < k)
  BY <1>1, Zenon DEF OpToRel
<1> QED BY <1>2

\* select_remote_address finds an address of the lookup, and with ipv4_only no
\* IPv6 address.
LEMMA SelectFinds ==
    ASSUME NEW answers \in Answers, NEW ipv4_only \in BOOLEAN
    PROVE  /\ select_remote_address(answers, ipv4_only) \in {0, 4, 6}
           /\ ipv4_only => select_remote_address(answers, ipv4_only) # 6
<1> DEFINE fit == {k \in DOMAIN answers : ~ipv4_only \/ answers[k] = 4}
           first == CHOOSE k \in fit : \A m \in fit : k <= m
<1>1. PICK n \in 0 .. MAX_ANSWERS : answers \in [1 .. n -> {4, 6}]
  BY DEF Answers
<1>2. CASE fit = {}
  BY <1>2 DEF select_remote_address
<1>3. CASE fit # {}
  <2>1. fit \in SUBSET Nat
    BY <1>1, StartsAssumption DEF StartsAssumption
  <2>2. first \in fit
    BY <2>1, <1>3, FirstExists, Zenon
  <2>3. answers[first] \in {4, 6} /\ (ipv4_only => answers[first] = 4)
    BY <1>1, <2>2
  <2> QED BY <1>3, <2>3 DEF select_remote_address
<1> QED BY <1>2, <1>3

-----------------------------------------------------------------------------
(* Every step of the program is a step of the guard, or none *)

Step(i) == Startup(i) \/ ForwarderEnds(i) \/ Surroundings(i)

\* An error before install is the error of enable_packet_filter without a token.
LEMMA FailIsEnable ==
    ASSUME NEW i \in Client, NEW s, Early(i), stage[i] \in Before, main[i] \notin Gone, Fail(i, s),
           UNCHANGED <<helper, rules, tokens, lost, botched, released, pidTaken>>
    PROVE  Enable(i)
BY DEF Early, Fail, Enable, Gone

LEMMA StepOfGuard ==
    ASSUME ProgramInv, NEW i \in Client, Step(i)
    PROVE  [Next]_vars
<1> USE DEF ProgramInv, Before, At
<1>1. CASE LoadConfig(i)
  BY <1>1 DEF LoadConfig
<1>2. CASE Resolve(i)
  <2>1. Enable(i) \/ UNCHANGED vars
    BY <1>2, FailIsEnable, Zenon DEF Resolve, vars
  <2> QED BY <2>1 DEF Next, MainStep
<1>3. CASE Discover(i)
  <2>1. Enable(i) \/ UNCHANGED vars
    BY <1>3, FailIsEnable, Zenon DEF Discover, vars
  <2> QED BY <2>1 DEF Next, MainStep
<1>4. CASE RouteInterface(i) \/ ConfigureBpf(i) \/ InstallFilter(i) \/ OpenSender(i)
  <2>1. Enable(i) \/ UNCHANGED vars
    BY <1>4, FailIsEnable, Zenon DEF RouteInterface, ConfigureBpf, InstallFilter, OpenSender, Ask, vars
  <2> QED BY <2>1 DEF Next, MainStep
<1>5. CASE TryDevice(i)
  <2>1. Enable(i) \/ UNCHANGED vars
    BY <1>5, FailIsEnable, Zenon DEF TryDevice, vars
  <2> QED BY <2>1 DEF Next, MainStep
<1>6. CASE Install(i)
  BY <1>6 DEF Install, Next, MainStep
<1>7. CASE Bind(i)
  BY <1>7 DEF Bind, Unwind, Next, MainStep
<1>8. CASE CleanUp(i)
  BY <1>8 DEF CleanUp, Next, MainStep
<1>9. CASE ForwarderEnds(i)
  BY <1>9, Zenon DEF ForwarderEnds, Unwind, Next, MainStep
<1>10. CASE Surroundings(i)
  BY <1>10 DEF Surroundings, Next
<1> QED BY <1>1, <1>2, <1>3, <1>4, <1>5, <1>6, <1>7, <1>8, <1>9, <1>10 DEF Step, Startup

-----------------------------------------------------------------------------
(* The steps of a run, on its own part of the state *)

\* What a step of another run leaves alone.
Kept(j) ==
    /\ stage'[j] = stage[j] /\ main'[j] = main[j] /\ config'[j] = config[j]
    /\ remote'[j] = remote[j] /\ local'[j] = local[j]
    /\ index'[j] = index[j] /\ device'[j] = device[j]

LEMMA StartFixed == ASSUME NEW i \in Client, Step(i) PROVE start' = start
BY Zenon DEF Step, Startup, LoadConfig, Resolve, Discover, RouteInterface, ConfigureBpf, InstallFilter,
       OpenSender, Ask, TryDevice, Install, Bind, CleanUp, ForwarderEnds, Surroundings

LEMMA RunStepIsOwn ==
    ASSUME ProgramInv, NEW i \in Client, Step(i), NEW j \in Client, j # i
    PROVE  Kept(j)
<1> USE DEF ProgramInv, ProgramTypeOK, TypeOK, Kept, Enter, Fail, Goto, vars
<1>1. CASE LoadConfig(i)
  BY <1>1 DEF LoadConfig
<1>2. CASE Resolve(i)
  BY <1>2 DEF Resolve
<1>3. CASE Discover(i)
  BY <1>3, Zenon DEF Discover
<1>4. CASE RouteInterface(i) \/ ConfigureBpf(i) \/ InstallFilter(i) \/ OpenSender(i)
  BY <1>4, Zenon DEF RouteInterface, ConfigureBpf, InstallFilter, OpenSender, Ask
<1>5. CASE TryDevice(i)
  BY <1>5, Zenon DEF TryDevice
<1>6. CASE Install(i)
  BY <1>6, Zenon DEF Install, Enable, EnsureAnchor, LoadRule, SpawnHelper
<1>7. CASE Bind(i)
  BY <1>7, Zenon DEF Bind, Unwind, StopHelper
<1>8. CASE CleanUp(i)
  BY <1>8, Zenon DEF CleanUp, ClearRule, ReleaseToken
<1>9. CASE ForwarderEnds(i)
  BY <1>9, Zenon DEF ForwarderEnds, Unwind, StopHelper
<1>10. CASE Surroundings(i)
  BY <1>10, Zenon DEF Surroundings, HelperStep, HelperDetach, HelperSeesDeath, HelperClear, HelperRelease,
               SystemStep, Kill, Interrupt, PidFreed, PidReused
<1> QED BY <1>1, <1>2, <1>3, <1>4, <1>5, <1>6, <1>7, <1>8, <1>9, <1>10, Zenon DEF Step, Startup

\* The rest of the type invariant, beside the guard's.
OwnTypeOK ==
    /\ stage \in [Client -> Stage]
    /\ config \in [Client -> ConfigType]
    /\ remote \in [Client -> {0, 4, 6}]
    /\ local \in [Client -> {0, 4, 6}]
    /\ index \in [Client -> 0 .. LAST_BPF]
    /\ device \in [Client -> BOOLEAN]

Own(i) == Early(i) /\ Configured(i) /\ Families(i)

LEMMA OwnKeeps ==
    ASSUME ProgramInv, NEW i \in Client, Step(i)
    PROVE  OwnTypeOK' /\ Own(i)'
<1>1. /\ OwnTypeOK /\ Own(i) /\ start \in Starts
      /\ main \in [Client -> Installing \cup {"running", "unguarded", "cleared"} \cup Gone]
  BY DEF ProgramInv, ProgramTypeOK, TypeOK, OwnTypeOK, ConfigType, Own
<1> USE <1>1 DEF OwnTypeOK, Own, Early, Families, Before, At, Enter, Fail, Goto, vars, Stage,
                 Installing, Gone
<1>2. start' = start => (from_loaded_config(Loaded))' = from_loaded_config(Loaded)
  BY Zenon DEF from_loaded_config, Loaded, load_config, Default, commandLine
<1>3. CASE LoadConfig(i)
  <2>1. from_loaded_config(Loaded) \in ConfigType
    BY RuntimeType
  <2> QED BY <1>2, <1>3, <2>1, Zenon DEF LoadConfig, Configured
<1> USE <1>2 DEF Configured
<1>4. CASE Resolve(i)
  <2>1. config[i].ipv4_only \in BOOLEAN
    BY DEF ConfigType
  <2> QED BY <1>4, <2>1, SelectFinds, SMTT(60) DEF Resolve
<1>5. CASE Discover(i)
  BY <1>5, Zenon DEF Discover, Discovered
<1>6. CASE RouteInterface(i) \/ ConfigureBpf(i) \/ InstallFilter(i) \/ OpenSender(i)
  BY <1>6, Zenon DEF RouteInterface, ConfigureBpf, InstallFilter, OpenSender, Ask
<1>7. CASE TryDevice(i)
  <2>1. index' \in [Client -> 0 .. LAST_BPF]
    BY <1>7, StartsAssumption DEF TryDevice, Exhausted, Following, StartsAssumption
  <2> QED BY <1>7, <2>1, ZenonT(30) DEF TryDevice
<1>8. CASE Install(i)
  BY <1>8, Zenon DEF Install, Enable, EnsureAnchor, LoadRule, SpawnHelper
<1>9. CASE Bind(i)
  BY <1>9, Zenon DEF Bind, Unwind, StopHelper
<1>10. CASE CleanUp(i)
  BY <1>10, Zenon DEF CleanUp, ClearRule, ReleaseToken
<1>11. CASE ForwarderEnds(i)
  BY <1>11, Zenon DEF ForwarderEnds, Unwind, StopHelper
<1>12. CASE Surroundings(i)
  BY <1>12, Zenon DEF Surroundings, HelperStep, HelperDetach, HelperSeesDeath, HelperClear, HelperRelease,
               SystemStep, Kill, Interrupt, PidFreed, PidReused
<1> QED BY <1>3, <1>4, <1>5, <1>6, <1>7, <1>8, <1>9, <1>10, <1>11, <1>12, Zenon DEF Step, Startup

-----------------------------------------------------------------------------
(* The scan of the /dev/bpf devices *)

\* A run changes its device or its place in the scan only while it scans.
LEMMA ScanMoves ==
    ASSUME ProgramInv, NEW i \in Client, Step(i)
    PROVE  \/ TryDevice(i)
           \/ /\ UNCHANGED <<index, device>>
              /\ stage'[i] = "busy" => stage[i] = "busy"
              /\ stage[i] \notin {"load", "resolve", "discover", "route", "open", "busy"} =>
                    stage'[i] \notin {"load", "resolve", "discover", "route", "open", "busy"}
<1>1. stage \in [Client -> Stage]
  BY DEF ProgramInv, ProgramTypeOK
<1> USE <1>1 DEF At, Enter, Fail
<1>2. CASE LoadConfig(i)
  BY <1>2 DEF LoadConfig
<1>3. CASE Resolve(i)
  BY <1>3, Zenon DEF Resolve
<1>4. CASE Discover(i)
  BY <1>4 DEF Discover
<1>5. CASE RouteInterface(i) \/ ConfigureBpf(i) \/ InstallFilter(i) \/ OpenSender(i)
  BY <1>5, Zenon DEF RouteInterface, ConfigureBpf, InstallFilter, OpenSender, Ask
<1>6. CASE Install(i) \/ CleanUp(i) \/ Surroundings(i)
  BY <1>6 DEF Install, CleanUp, Surroundings
<1>7. CASE Bind(i) \/ ForwarderEnds(i)
  BY <1>7 DEF Bind, ForwarderEnds
<1> QED BY <1>2, <1>3, <1>4, <1>5, <1>6, <1>7, Zenon DEF Step, Startup

\* No run gives its device back for another: an open device stays as it is.
LEMMA OccupiedStays ==
    ASSUME ProgramInv, NEW i \in Client, Step(i), NEW n, Occupied(n)
    PROVE  Occupied(n)'
<1>1. ASSUME NEW j \in Client, device[j]
      PROVE  device'[j] /\ index'[j] = index[j]
  <2>1. CASE j # i
    BY <1>1, <2>1, RunStepIsOwn, Zenon DEF Kept
  <2>2. CASE j = i
    <3>1. stage[i] # "open"
      BY <1>1, <2>2 DEF ProgramInv, Scan
    <3>2. ~TryDevice(i)
      BY <3>1, Zenon DEF TryDevice, At
    <3> QED BY <1>1, <2>2, <3>2, ScanMoves, Zenon
  <2> QED BY <2>1, <2>2
<1> QED BY <1>1, StartFixed, SMTT(30) DEF Occupied

LEMMA ScanKeeps ==
    ASSUME ProgramInv, NEW i \in Client, Step(i), NEW j \in Client
    PROVE  Scan(j)'
<1>1. /\ Scan(j) /\ index \in [Client -> 0 .. LAST_BPF] /\ device \in [Client -> BOOLEAN]
      /\ stage \in [Client -> Stage]
  BY DEF ProgramInv, ProgramTypeOK
<1>2. \A n \in 0 .. LAST_BPF : Occupied(n) => Occupied(n)'
  BY OccupiedStays
<1>3. CASE j # i
  <2>1. Kept(j)
    BY <1>3, RunStepIsOwn
  <2> QED BY <1>1, <1>2, <2>1, Zenon DEF Scan, Kept
<1>4. CASE j = i /\ ~TryDevice(i)
  <2>1. /\ index'[j] = index[j] /\ device'[j] = device[j]
        /\ stage'[j] = "busy" => stage[j] = "busy"
        /\ stage[j] \notin {"load", "resolve", "discover", "route", "open", "busy"} =>
              stage'[j] \notin {"load", "resolve", "discover", "route", "open", "busy"}
    BY <1>4, ScanMoves, Zenon
  <2> QED BY <1>1, <1>2, <2>1, Zenon DEF Scan
<1>5. CASE j = i /\ TryDevice(i)
  <2>1. stage[i] = "open" /\ ~device[i]
    BY <1>1, <1>5, Zenon DEF TryDevice, At, Scan
  <2>2. Busy(index[i]) => Occupied(index[i])
    BY DEF Busy, Occupied
  <2>3. \A n \in 0 .. LAST_BPF : n < index[i] => Occupied(n)
    BY <1>1, <1>5 DEF Scan
  <2>4. CASE Busy(index[i]) /\ ~Exhausted(i)
    <3>1. /\ index'[i] = index[i] + 1 /\ stage'[i] = "open" /\ ~device'[i]
      BY <1>1, <1>5, <2>1, <2>4, Zenon DEF TryDevice, Following
    <3>2. \A n \in 0 .. LAST_BPF : n < index[i] + 1 => Occupied(n)
      BY <1>1, <2>2, <2>3, <2>4
    <3> QED BY <1>2, <1>5, <3>1, <3>2, Zenon DEF Scan
  <2>5. CASE Busy(index[i]) /\ Exhausted(i)
    <3>1. index'[i] = LAST_BPF /\ index[i] = LAST_BPF /\ ~device'[i]
      BY <1>1, <1>5, <2>1, <2>5, Zenon DEF TryDevice, Exhausted
    <3>2. \A n \in 0 .. LAST_BPF : Occupied(n)
      BY <2>2, <2>3, <2>5, <3>1, StartsAssumption DEF StartsAssumption
    <3> QED BY <1>2, <1>5, <3>1, <3>2, Zenon DEF Scan
  <2>6. CASE ~Busy(index[i])
    <3>1. index'[i] = index[i] /\ stage'[i] \in {"configure", "failed"}
      BY <1>1, <1>5, <2>6, Zenon DEF TryDevice, Enter, Fail
    <3> QED BY <1>2, <1>5, <2>3, <3>1 DEF Scan
  <2> QED BY <2>4, <2>5, <2>6
<1> QED BY <1>3, <1>4, <1>5

-----------------------------------------------------------------------------

LEMMA ProgramInvInit == ProgramInit => ProgramInv
<1> SUFFICES ASSUME ProgramInit PROVE ProgramInv
  OBVIOUS
<1>1. GuardInv
  BY GuardInit DEF ProgramInit
<1>2. config \in [Client -> ConfigType]
  BY DefaultType DEF ProgramInit
<1>3. index \in [Client -> 0 .. LAST_BPF]
  BY StartsAssumption DEF ProgramInit, StartsAssumption
<1>4. ProgramTypeOK
  BY <1>1, <1>2, <1>3 DEF ProgramInit, ProgramTypeOK, GuardInv, ConfigType, Stage
<1>5. \A i \in Client : Early(i) /\ Configured(i) /\ Families(i)
  BY Zenon DEF ProgramInit, Init, Early, Configured, Families
<1>6. ASSUME NEW i \in Client
      PROVE  Scan(i)
  <2>1. device[i] = FALSE /\ index[i] = 0 /\ stage[i] = "load"
    BY DEF ProgramInit
  <2>2. \A n \in 0 .. LAST_BPF : ~(n < index[i])
    BY <2>1, StartsAssumption DEF StartsAssumption
  <2> QED BY <2>1, <2>2, Zenon DEF Scan
<1> QED BY <1>1, <1>4, <1>5, <1>6 DEF ProgramInv, ProgramInit

LEMMA ProgramInvNext == ProgramInv /\ [ProgramNext]_progVars => ProgramInv'
<1> SUFFICES ASSUME ProgramInv, [ProgramNext]_progVars PROVE ProgramInv'
  OBVIOUS
<1>1. CASE UNCHANGED progVars
  <2>1. UNCHANGED vars /\ UNCHANGED <<start, stage, config, remote, local, index, device>>
    BY <1>1 DEF progVars
  <2>2. GuardInv'
    BY <2>1, GuardNext DEF ProgramInv
  <2>3. ProgramTypeOK' /\ start' \in Starts
    BY <2>1, <2>2 DEF ProgramInv, ProgramTypeOK, GuardInv
  <2>4. ASSUME NEW i \in Client
        PROVE  Early(i)' /\ Configured(i)' /\ Families(i)' /\ Scan(i)'
    <3>1. Early(i) /\ Configured(i) /\ Families(i) /\ Scan(i)
      BY DEF ProgramInv
    <3>2. (from_loaded_config(Loaded))' = from_loaded_config(Loaded)
      BY <2>1, Zenon DEF from_loaded_config, Loaded, load_config, Default, commandLine
    <3> QED BY <2>1, <3>1, <3>2, Zenon DEF Early, Configured, Families, Scan, Occupied, vars
  <2> QED BY <2>2, <2>3, <2>4 DEF ProgramInv
<1>2. ASSUME NEW i \in Client, Step(i)
      PROVE  ProgramInv'
  <2>1. GuardInv'
    BY <1>2, StepOfGuard, GuardNext DEF ProgramInv
  <2>2. OwnTypeOK' /\ Own(i)'
    BY <1>2, OwnKeeps
  <2>3. ProgramTypeOK'
    BY <2>1, <2>2 DEF GuardInv, OwnTypeOK, ProgramTypeOK, ConfigType
  <2>4. start' = start
    BY <1>2, StartFixed
  <2>5. ASSUME NEW j \in Client, j # i
        PROVE  Own(j)'
    <3>1. Kept(j)
      BY <1>2, <2>5, RunStepIsOwn
    <3>2. Own(j)
      BY DEF ProgramInv, Own
    <3>3. (from_loaded_config(Loaded))' = from_loaded_config(Loaded)
      BY <2>4, Zenon DEF from_loaded_config, Loaded, load_config, Default, commandLine
    <3> QED BY <3>1, <3>2, <3>3, Zenon DEF Own, Kept, Early, Configured, Families
  <2>6. \A j \in Client : Scan(j)'
    BY <1>2, ScanKeeps
  <2> QED BY <2>1, <2>2, <2>3, <2>4, <2>5, <2>6 DEF ProgramInv, Own
<1> QED BY <1>1, <1>2 DEF ProgramNext, Step

LEMMA ProgramInvHolds == ProgramSpec => []ProgramInv
BY ProgramInvInit, ProgramInvNext, PTL DEF ProgramSpec

-----------------------------------------------------------------------------
(* The whole program does what the guard promises *)

\* Every step of main, of its failures and of its unwinding is a step that the
\* guard's specification allows (main, MacPacketDevice::new, FirewallGuard).
THEOREM ProgramKeepsGuard == ProgramSpec => KeepsGuard
<1>1. ProgramInit => Init
  BY DEF ProgramInit
<1>2. ProgramInv /\ [ProgramNext]_progVars => [Next]_vars
  BY StepOfGuard DEF ProgramNext, Step, progVars, vars
<1> QED BY <1>1, <1>2, ProgramInvHolds, PTL DEF ProgramSpec, KeepsGuard, Spec

\* What is proved of the guard therefore holds of the program: it is guarded while
\* it runs, releases its reference at most once, and exits clean.
THEOREM ProgramGuardSafe ==
    ProgramSpec => [](GuardedWhileRunning /\ ReleasedAtMostOnce /\ ExitIsClean)
BY ProgramKeepsGuard, AlwaysGuarded, NeverReleasedTwice, ExitsCleanly, PTL DEF KeepsGuard

\* Every variable of the program keeps its type; in particular open_bpf_device
\* never asks for a device past the last.
THEOREM ProgramTypeCorrect == ProgramSpec => []ProgramTypeOK
<1>1. ProgramInv => ProgramTypeOK
  BY DEF ProgramInv
<1> QED BY <1>1, ProgramInvHolds, PTL

-----------------------------------------------------------------------------
(* Configuration and addresses *)

LEMMA Ipv4AskedIsSet ==
    ASSUME start \in Starts
    PROVE  Ipv4Asked <=> from_loaded_config(Loaded).ipv4_only
BY Zenon DEF Ipv4Asked, FileInUse, from_loaded_config, Loaded, load_config, Default

\* However a lookup answers, a run told to use IPv4 only goes on with an IPv4
\* remote, and the local address is of the family of the remote
\* (select_remote_address, from_loaded_config, the discovery in main).
THEOREM FamiliesAlwaysAgree == ProgramSpec => []FamilyAgrees
<1>1. ProgramInv => FamilyAgrees
  <2> SUFFICES ASSUME ProgramInv, NEW i \in Client,
                      stage[i] \in {"route", "open", "configure", "filter", "sender",
                                    "install", "forward"}
               PROVE  /\ remote[i] # 0 /\ local[i] = remote[i]
                      /\ Ipv4Asked => remote[i] # 6
    BY SMTT(30) DEF FamilyAgrees
  <2>1. Families(i) /\ Configured(i) /\ start \in Starts
    BY DEF ProgramInv
  <2> QED BY <2>1, Ipv4AskedIsSet, Zenon DEF Families, Configured
<1> QED BY <1>1, ProgramInvHolds, PTL

\* The source of every option a forwarding run uses is the one documented: the
\* command line, else the file in use, else the built-in value (load_config,
\* RuntimeConfig::from_loaded_config).
THEOREM PrecedenceHolds == ProgramSpec => []Precedence
<1>1. ProgramInv => Precedence
  <2> SUFFICES ASSUME ProgramInv, NEW i \in Client, NEW o \in Option, stage[i] = "forward"
               PROVE  config[i].from[o] =
                        CASE o \in commandLine.given -> "command line"
                          [] o \notin commandLine.given /\ (~FileInUse.ok \/ o \notin FileInUse.given)
                                 -> "built-in"
                          [] OTHER -> IF commandLine.config THEN "given file" ELSE "default file"
    BY Zenon DEF Precedence
  <2>1. config[i] = from_loaded_config(Loaded)
    BY SMTT(30) DEF ProgramInv, Configured
  <2>2. config[i].from[o] = IF o \in commandLine.given THEN "command line" ELSE Loaded.from[o]
    BY <2>1, RuntimeFrom, Zenon DEF ProgramInv
  <2>3. Loaded.from[o] =
            IF ~FileInUse.ok \/ o \notin FileInUse.given THEN "built-in"
            ELSE IF commandLine.config THEN "given file" ELSE "default file"
    BY Zenon DEF Loaded, load_config, Default, FileInUse
  <2>4. CASE o \in commandLine.given
    BY <2>2, <2>4, Zenon
  <2>5. CASE o \notin commandLine.given /\ (~FileInUse.ok \/ o \notin FileInUse.given)
    BY <2>2, <2>3, <2>5, Zenon
  <2>6. CASE ~(o \in commandLine.given \/ ~FileInUse.ok \/ o \notin FileInUse.given)
    BY <2>2, <2>3, <2>6, Zenon
  <2> QED BY <2>4, <2>5, <2>6, Zenon
<1> QED BY <1>1, ProgramInvHolds, PTL

-----------------------------------------------------------------------------
(* Devices *)

\* A run that found all devices busy is not among those that hold one, so the
\* others and the other programs hold LAST_BPF + 1 devices between them.
LEMMA BusyNeedsAll ==
    ASSUME ProgramInv, NEW i \in Client, stage[i] = "busy"
    PROVE  LAST_BPF + 1 < Cardinality(Client) + Cardinality(start.held)
<1> DEFINE holders == {j \in Client : device[j]}
           held == {index[j] : j \in holders}
           f == [j \in holders |-> index[j]]
<1>1. IsFiniteSet(Client) /\ LAST_BPF \in Nat /\ start.held \in SUBSET (0 .. LAST_BPF)
  BY StartsAssumption DEF StartsAssumption, ProgramInv
<1>2. ~device[i] /\ \A n \in 0 .. LAST_BPF : Occupied(n)
  BY DEF ProgramInv, Scan
<1>3. 0 .. LAST_BPF \subseteq start.held \cup held
  BY <1>2 DEF Occupied
<1>4. IsFiniteSet(0 .. LAST_BPF) /\ Cardinality(0 .. LAST_BPF) = LAST_BPF + 1
  BY <1>1, FS_Interval
<1>5. IsFiniteSet(start.held)
  BY <1>1, <1>4, FS_Subset
<1>6. IsFiniteSet(Client \ {i}) /\ Cardinality(Client \ {i}) = Cardinality(Client) - 1
  BY <1>1, FS_RemoveElement
<1>7. IsFiniteSet(holders) /\ Cardinality(holders) <= Cardinality(Client) - 1
  <2>1. holders \in SUBSET (Client \ {i})
    BY <1>2, Zenon
  <2> QED BY <1>6, <2>1, FS_Subset
<1>8. f \in Surjection(holders, held)
  BY Zenon DEF Surjection
<1>9. IsFiniteSet(held) /\ Cardinality(held) <= Cardinality(holders)
  BY <1>7, <1>8, FS_Surjection, Zenon
<1>10. /\ Cardinality(held) \in Nat /\ Cardinality(holders) \in Nat
       /\ Cardinality(start.held) \in Nat /\ Cardinality(Client) \in Nat
       /\ Cardinality(start.held \cap held) \in Nat
  <2>1. IsFiniteSet(start.held \cap held)
    BY <1>5, FS_Subset, Zenon
  <2> QED BY <1>1, <1>5, <1>7, <1>9, <2>1, FS_CardinalityType, Zenon
<1>11. /\ IsFiniteSet(start.held \cup held)
       /\ Cardinality(start.held \cup held) <= Cardinality(start.held) + Cardinality(held)
  <2>1. /\ IsFiniteSet(start.held \cup held)
        /\ Cardinality(start.held \cup held) =
              Cardinality(start.held) + Cardinality(held) - Cardinality(start.held \cap held)
    BY <1>5, <1>9, FS_Union, Zenon
  <2> QED BY <2>1, <1>10
<1>12. LAST_BPF + 1 <= Cardinality(start.held \cup held)
  <2>1. 0 .. LAST_BPF \in SUBSET (start.held \cup held)
    BY <1>3
  <2>2. Cardinality(0 .. LAST_BPF) <= Cardinality(start.held \cup held)
    BY <1>11, <2>1, FS_Subset, Zenon
  <2> QED BY <1>4, <2>2
<1>13. Cardinality(start.held \cup held) \in Nat
  BY <1>11, FS_CardinalityType, Zenon
<1> HIDE DEF holders, held
<1> QED BY <1>1, <1>7, <1>9, <1>10, <1>11, <1>12, <1>13

\* open_bpf_device never gives up for want of a device when there is one for
\* every run, whatever the order in which the runs scan.
THEOREM DeviceAlwaysFound == ProgramSpec => []DeviceFound
<1>1. ProgramInv => DeviceFound
  <2> SUFFICES ASSUME ProgramInv, Cardinality(Client) + Cardinality(start.held) <= LAST_BPF + 1,
                      NEW i \in Client, stage[i] = "busy"
               PROVE  FALSE
    BY Zenon DEF DeviceFound
  <2>1. /\ LAST_BPF \in Nat /\ IsFiniteSet(Client)
        /\ start.held \in SUBSET (0 .. LAST_BPF) /\ IsFiniteSet(0 .. LAST_BPF)
    BY StartsAssumption, FS_Interval DEF StartsAssumption, ProgramInv
  <2>2. Cardinality(Client) \in Nat /\ Cardinality(start.held) \in Nat
    BY <2>1, FS_Subset, FS_CardinalityType, Zenon
  <2> QED BY <2>1, <2>2, BusyNeedsAll
<1> QED BY <1>1, ProgramInvHolds, PTL

=============================================================================
