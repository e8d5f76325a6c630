------------------------------ MODULE MCStack ------------------------------
(* Small instances of Stack for TLC. *)
EXTENDS Stack, TLC

\* The names of sockets are interchangeable (safety runs only).
Symmetric == Permutations(Socket)
=============================================================================
