------------------------------ MODULE MCHnswIndex ------------------------------
(* A small instance of HnswIndex: its constants are model values of the cfg. *)
EXTENDS HnswIndex
=============================================================================
