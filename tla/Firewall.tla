------------------------------ MODULE Firewall ------------------------------
(***************************************************************************)
(* The temporary packet-filter (PF) state of the client on macOS           *)
(* (FirewallGuard and the watchdog in                                      *)
(* src/phantun-client-mac/src/macos_packet.rs): a reference that keeps PF  *)
(* enabled, a rule in an anchor of its own, and a watchdog process that    *)
(* gives both back when the client dies without running destructors.       *)
(*                                                                         *)
(* Several clients may run at once.  Each pfctl call is one step; a client *)
(* can be killed between any two of its steps.                             *)
(***************************************************************************)
EXTENDS Naturals

CONSTANT Client   \* runs of the client program

VARIABLES
    main,      \* where the client process is
    helper,    \* where its watchdog process is
    rules,     \* clients whose anchor holds the blocking rule
    tokens,    \* clients for which PF holds an enable reference
    lost,      \* clients that were not told the token of their reference
    botched,   \* clients for which a pfctl call of the cleanup failed
    released,  \* number of times pfctl -X was run for a client's token
    pidTaken   \* kill(parent_pid, 0) finds a process

vars == <<main, helper, rules, tokens, lost, botched, released, pidTaken>>

\*   start, enabled, anchored, loaded   the steps of FirewallGuard::install
\*   running                            the guard is alive
\*   unguarded, cleared                 what is left: clear and release, release
\*   exited, killed                     the process is gone
Installing == {"start", "enabled", "anchored", "loaded"}
Gone == {"exited", "killed"}

TypeOK ==
    /\ main \in [Client -> Installing \cup {"running", "unguarded", "cleared"} \cup Gone]
    /\ helper \in [Client -> {"none", "spawned", "watching", "clearing", "releasing", "gone"}]
    /\ rules \subseteq Client
    /\ tokens \subseteq Client
    /\ lost \subseteq Client
    /\ botched \subseteq Client
    /\ released \in [Client -> 0 .. 2]
    /\ pidTaken \in [Client -> BOOLEAN]

Init ==
    /\ main = [i \in Client |-> "start"]
    /\ helper = [i \in Client |-> "none"]
    /\ rules = {}
    /\ tokens = {}
    /\ lost = {}
    /\ botched = {}
    /\ released = [i \in Client |-> 0]
    /\ pidTaken = [i \in Client |-> TRUE]

-----------------------------------------------------------------------------
(* pfctl *)

\* clear_packet_filter_rule: a failure is only logged, or not even that.
Clear(i) ==
    \/ rules' = rules \ {i} /\ UNCHANGED botched
    \/ botched' = botched \cup {i} /\ UNCHANGED rules

\* release_packet_filter
Release(i) ==
    /\ released' = [released EXCEPT ![i] = @ + 1]
    /\ \/ tokens' = tokens \ {i} /\ UNCHANGED botched
       \/ botched' = botched \cup {i} /\ UNCHANGED tokens

-----------------------------------------------------------------------------
(* The client: FirewallGuard::install, its error paths, and its drop *)

Goto(i, where) == main' = [main EXCEPT ![i] = where]

\* enable_packet_filter; it can fail, or succeed without telling the token.
Enable(i) ==
    /\ main[i] = "start"
    /\ \/ Goto(i, "enabled") /\ tokens' = tokens \cup {i} /\ UNCHANGED lost
       \/ Goto(i, "exited") /\ tokens' = tokens \cup {i} /\ lost' = lost \cup {i}
       \/ Goto(i, "exited") /\ UNCHANGED <<tokens, lost>>
    /\ UNCHANGED <<helper, rules, botched, released, pidTaken>>

\* ensure_macos_anchor; on failure the reference is released.
EnsureAnchor(i) ==
    /\ main[i] = "enabled"
    /\ Goto(i, "anchored") \/ Goto(i, "cleared")
    /\ UNCHANGED <<helper, rules, tokens, lost, botched, released, pidTaken>>

\* load_packet_filter_rule; on failure the reference is released.
LoadRule(i) ==
    /\ main[i] = "anchored"
    /\ \/ Goto(i, "loaded") /\ rules' = rules \cup {i}
       \/ Goto(i, "cleared") /\ UNCHANGED rules
    /\ UNCHANGED <<helper, tokens, lost, botched, released, pidTaken>>

\* A wrong UnspawnedGoesTo, for mutation.
UnspawnedReleases == "cleared"

UnspawnedGoesTo == "unguarded"

\* spawn_cleanup_helper; on failure the rule and the reference are given back.
SpawnHelper(i) ==
    /\ main[i] = "loaded"
    /\ \/ Goto(i, "running") /\ helper' = [helper EXCEPT ![i] = "spawned"]
       \/ Goto(i, UnspawnedGoesTo) /\ UNCHANGED helper
    /\ UNCHANGED <<rules, tokens, lost, botched, released, pidTaken>>

\* A wrong HelperKilled, for mutation.
HelperSpared(i) == helper

HelperKilled(i) == [helper EXCEPT ![i] = "gone"]

\* FirewallGuard::drop: the watchdog is killed and waited for.
StopHelper(i) ==
    /\ main[i] = "running"
    /\ helper' = HelperKilled(i)
    /\ Goto(i, "unguarded")
    /\ UNCHANGED <<rules, tokens, lost, botched, released, pidTaken>>

ClearRule(i) ==
    /\ main[i] = "unguarded"
    /\ Clear(i)
    /\ Goto(i, "cleared")
    /\ UNCHANGED <<helper, tokens, lost, released, pidTaken>>

ReleaseToken(i) ==
    /\ main[i] = "cleared"
    /\ Release(i)
    /\ Goto(i, "exited")
    /\ UNCHANGED <<helper, rules, lost, pidTaken>>

-----------------------------------------------------------------------------
(* Signals and process identifiers *)

\* The client is killed: no destructor runs.
Kill(i) ==
    /\ main[i] \notin Gone
    /\ Goto(i, "killed")
    /\ UNCHANGED <<helper, rules, tokens, lost, botched, released, pidTaken>>

\* Ctrl-C also reaches a watchdog that has not left the terminal yet.
Interrupt(i) ==
    /\ main[i] \notin Gone
    /\ Goto(i, "killed")
    /\ helper' = [helper EXCEPT ![i] = IF @ = "spawned" THEN "gone" ELSE @]
    /\ UNCHANGED <<rules, tokens, lost, botched, released, pidTaken>>

\* The process is reaped, or the other process that got its number ends.
PidFreed(i) ==
    /\ main[i] \in Gone
    /\ pidTaken[i]
    /\ pidTaken' = [pidTaken EXCEPT ![i] = FALSE]
    /\ UNCHANGED <<main, helper, rules, tokens, lost, botched, released>>

\* The number is given to another process.
PidReused(i) ==
    /\ main[i] \in Gone
    /\ ~pidTaken[i]
    /\ pidTaken' = [pidTaken EXCEPT ![i] = TRUE]
    /\ UNCHANGED <<main, helper, rules, tokens, lost, botched, released>>

-----------------------------------------------------------------------------
(* The watchdog: run_cleanup_helper_if_requested *)

HelperDetach(i) ==
    /\ helper[i] = "spawned"
    /\ helper' = [helper EXCEPT ![i] = "watching"]
    /\ UNCHANGED <<main, rules, tokens, lost, botched, released, pidTaken>>

\* A wrong ParentDead, for mutation.
ParentDeadAnyway(i) == TRUE

\* process_is_alive: kill(pid, 0) finds the process, or may not ask.
ParentDead(i) == ~pidTaken[i]

\* The poll finds no process with the parent's number.
HelperSeesDeath(i) ==
    /\ helper[i] = "watching"
    /\ ParentDead(i)
    /\ helper' = [helper EXCEPT ![i] = "clearing"]
    /\ UNCHANGED <<main, rules, tokens, lost, botched, released, pidTaken>>

\* A wrong ClearedGoesTo, for mutation.
ClearedEnds == "gone"

ClearedGoesTo == "releasing"

HelperClear(i) ==
    /\ helper[i] = "clearing"
    /\ Clear(i)
    /\ helper' = [helper EXCEPT ![i] = ClearedGoesTo]
    /\ UNCHANGED <<main, tokens, lost, released, pidTaken>>

ReleasedGoesTo == "gone"

HelperRelease(i) ==
    /\ helper[i] = "releasing"
    /\ Release(i)
    /\ helper' = [helper EXCEPT ![i] = ReleasedGoesTo]
    /\ UNCHANGED <<main, rules, lost, pidTaken>>

-----------------------------------------------------------------------------

MainStep(i) ==
    \/ Enable(i) \/ EnsureAnchor(i) \/ LoadRule(i) \/ SpawnHelper(i)
    \/ StopHelper(i) \/ ClearRule(i) \/ ReleaseToken(i)

HelperStep(i) ==
    HelperDetach(i) \/ HelperSeesDeath(i) \/ HelperClear(i) \/ HelperRelease(i)

SystemStep(i) == Kill(i) \/ Interrupt(i) \/ PidFreed(i) \/ PidReused(i)

Next == \E i \in Client : MainStep(i) \/ HelperStep(i) \/ SystemStep(i)

Spec == Init /\ [][Next]_vars

\* Cleanup that has begun goes on unless it is killed; the watchdog polls until
\* it finds the number free, which it is again and again.
Fairness ==
    \A i \in Client :
        /\ WF_vars(ClearRule(i) \/ ReleaseToken(i))
        /\ WF_vars(PidFreed(i))
        /\ WF_vars(HelperDetach(i) \/ HelperClear(i) \/ HelperRelease(i))
        /\ SF_vars(HelperSeesDeath(i))

FairSpec == Spec /\ Fairness

-----------------------------------------------------------------------------

Clean(i) == i \notin rules /\ i \notin tokens

\* The guard's promise: as long as the client runs, its replies are kept from
\* the operating system's TCP stack (rule loaded, PF enabled) and a watchdog is
\* there; the watchdog never cleans up under a living client.
GuardedWhileRunning ==
    \A i \in Client : main[i] = "running" =>
        i \in rules /\ i \in tokens /\ helper[i] \in {"spawned", "watching"}

\* The reference is given back by the client or by its watchdog, not by both,
\* whatever the moment at which the client is killed.
ReleasedAtMostOnce == \A i \in Client : released[i] <= 1

\* A client that ends by itself, by returning or by an error of install, leaves
\* neither rule nor reference nor watchdog behind, if pfctl did its work and
\* had told it the token of the reference.
ExitIsClean ==
    \A i \in Client : main[i] = "exited" =>
        /\ helper[i] \in {"none", "gone"}
        /\ i \in lost \cup botched \/ Clean(i)

\* A client killed while its watchdog watches is cleaned up after, also when
\* its number is given to other processes meanwhile, if pfctl does its work.
WatchdogCleansUp ==
    \A i \in Client : main[i] = "killed" /\ helper[i] = "watching" ~> Clean(i) \/ i \in botched

\* README.zh.md:30 says that the temporary system state of a run is cleaned up
\* after a normal or an abnormal end of the program; the comment on
\* run_cleanup_helper_if_requested says it of a killed main process.
KilledIsCleaned == \A i \in Client : main[i] = "killed" ~> Clean(i) \/ i \in botched

=============================================================================
