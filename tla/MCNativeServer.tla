-------------------------- MODULE MCNativeServer ---------------------------
(* A server with two transports for TLC. *)
EXTENDS NativeServer

\* A session opened on the transport that is closed first.
MCRequests == {[server |-> 2, id |-> 1]}
=============================================================================
