---------------------------- MODULE MCHandshake ----------------------------
(* Small instances of Handshake for TLC. *)
EXTENDS Handshake

Nothing == {}

\* A datagram of the server, late from an earlier connection of the same tuple.
LateData == {Segment("server", "ACK", 1, 1, 1)}
=============================================================================
