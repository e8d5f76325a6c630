------------------------------ MODULE Session ------------------------------
(***************************************************************************)
(* What the forwarding loop promises: the life of a connection.  A         *)
(* connection is dialled for one client, serves that client alone, is      *)
(* closed, and its name is free again.  Dialling is done for one client at *)
(* a time, and no client is ever served by two connections.  Nothing is    *)
(* said of tables, tokens, timers or workers: Forwarder is shown to        *)
(* implement this specification.                                           *)
(***************************************************************************)
CONSTANTS Client, NoClient, Connection

VARIABLES
    phase,    \* of each connection
    client    \* the client each connection is for

vars == <<phase, client>>

Init ==
    /\ phase = [c \in Connection |-> "free"]
    /\ client = [c \in Connection |-> NoClient]

In(p) == {c \in Connection : phase[c] = p}

Served == {client[c] : c \in In("serving")}

Dial(c, a) ==
    /\ In("dialing") = {}
    /\ a \notin Served
    /\ phase[c] = "free"
    /\ phase' = [phase EXCEPT ![c] = "dialing"]
    /\ client' = [client EXCEPT ![c] = a]

\* The handshake or the first datagram failed.
Abandon(c) ==
    /\ phase[c] = "dialing"
    /\ phase' = [phase EXCEPT ![c] = "free"]
    /\ client' = [client EXCEPT ![c] = NoClient]

Serve(c) ==
    /\ phase[c] = "dialing"
    /\ client[c] \notin Served
    /\ phase' = [phase EXCEPT ![c] = "serving"]
    /\ UNCHANGED client

\* One connection, or at shutdown every one, stops serving.
Close(S) ==
    /\ S # {} /\ S \subseteq In("serving")
    /\ phase' = [c \in Connection |-> IF c \in S THEN "closing" ELSE phase[c]]
    /\ UNCHANGED client

\* The last reference to a connection that no longer serves, or the entry of one
\* that nothing else refers to, is gone.
Release(c) ==
    /\ phase[c] \in {"serving", "closing"}
    /\ phase' = [phase EXCEPT ![c] = "free"]
    /\ client' = [client EXCEPT ![c] = NoClient]

Next ==
    \/ \E c \in Connection : \/ \E a \in Client : Dial(c, a)
                             \/ Abandon(c) \/ Serve(c) \/ Release(c)
    \/ \E c \in Connection : Close({c})
    \/ Close(In("serving"))

Spec == Init /\ [][Next]_vars

=============================================================================
