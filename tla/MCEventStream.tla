--------------------------- MODULE MCEventStream ---------------------------
(* EventStream for TLC; the constants are in the configurations. *)
EXTENDS EventStream
=============================================================================
