--------------------------- MODULE MCProjectRegistry ---------------------------
(* A small instance of ProjectRegistry. *)
EXTENDS ProjectRegistry
=============================================================================
