---------------------------- MODULE MCForwarder ----------------------------
(* Small instances of Forwarder for TLC. *)
EXTENDS Forwarder, TLC

\* Connections, clients and workers are interchangeable (safety runs only).
Symmetric == Permutations(Connection) \cup Permutations(Client) \cup Permutations(Worker)
=============================================================================
