------------------------ MODULE MCWatcherLifecycle ------------------------
(* Values for the constants of WatcherLifecycle. *)
EXTENDS WatcherLifecycle

\* synapses.json and one source file.
CONSTANTS cfg, f
===========================================================================
