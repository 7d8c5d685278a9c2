---------------------------- MODULE MCPulseCollector ----------------------------
(* A small instance of PulseCollector. *)
EXTENDS PulseCollector
=============================================================================
