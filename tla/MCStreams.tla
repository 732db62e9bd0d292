----------------------------- MODULE MCStreams -----------------------------
(* A small instance of Streams: one connection, numbers that saturate at 2,   *)
(* and a line of one frame, so that a client can be behind.                   *)
EXTENDS Streams
=============================================================================
