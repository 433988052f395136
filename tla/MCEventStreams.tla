--------------------------- MODULE MCEventStreams ---------------------------
(* Instances of EventStreams for TLC. *)
EXTENDS EventStreams
=============================================================================
