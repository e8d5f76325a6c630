----------------------------- MODULE MCProgram -----------------------------
\* What TLC starts the runs of Program with.
EXTENDS Program

Typed(file, given, ipv4_only) ==
    [config |-> file, given |-> given, ipv4_only |-> ipv4_only, bad |-> {}]

Complete == [ok |-> TRUE, given |-> Option, ipv4_only |-> TRUE, bad |-> {}]
Malformed == [Complete EXCEPT !.ok = FALSE]
BadAddress ==
    [ok |-> TRUE, given |-> {"remote", "tun_local6"}, ipv4_only |-> FALSE, bad |-> {"tun_local6"}]

From(cli, default, given, held) ==
    [commandLine |-> cli, defaultFile |-> default, givenFile |-> given, held |-> held]

\* The distributed file; a file with a text that does not parse, without and
\* with --ipv4-only; and --config with a malformed file beside a good one.
MCStarts ==
    {From(Typed(FALSE, {}, FALSE), Complete, Malformed, {}),
     From(Typed(FALSE, {}, FALSE), BadAddress, Malformed, {}),
     From(Typed(FALSE, {"local"}, TRUE), BadAddress, Malformed, {0}),
     From(Typed(TRUE, {"remote", "tun_peer"}, FALSE), Complete, Malformed, {})}

=============================================================================
