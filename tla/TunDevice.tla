----------------------------- MODULE TunDevice -----------------------------
(***************************************************************************)
(* What the stack relies on when it calls TunDevice::recv                  *)
(* (src/fake-tcp/src/tun.rs): a queue that may lose packets, but neither   *)
(* reorders, duplicates nor invents one, until a recv fails.  Capture is   *)
(* shown to implement this specification.  A packet is its number in the   *)
(* order of arrival.                                                       *)
(***************************************************************************)
EXTENDS Naturals, Sequences, Functions, Subsequences

CONSTANT Packet

VARIABLES
    queue,      \* packets that have arrived and may still be received
    received,   \* what recv has returned
    up          \* no recv has failed

vars == <<queue, received, up>>

Init ==
    /\ queue = <<>>
    /\ received = <<>>
    /\ up = TRUE

Arrive(n) ==
    /\ \A m \in Range(queue) \cup Range(received) : m < n
    /\ queue' = Append(queue, n)
    /\ UNCHANGED <<received, up>>

recv ==
    /\ up
    /\ queue # <<>>
    /\ received' = Append(received, Head(queue))
    /\ queue' = Tail(queue)
    /\ UNCHANGED up

\* Some packets get lost, perhaps with a recv that fails.
Lose ==
    /\ \E S \in SUBSET Range(queue) : queue' = Only(queue, Range(queue) \ S)
    /\ up' \in {up, FALSE}
    /\ UNCHANGED received

Next ==
    \/ \E n \in Packet : Arrive(n)
    \/ recv
    \/ Lose

Spec == Init /\ [][Next]_vars

=============================================================================
