--------------------------- MODULE MCProjectCache ---------------------------
(* Instances of ProjectCache. *)
EXTENDS ProjectCache, TLC

\* Files are interchangeable.
Symmetry == Permutations(Files)
=============================================================================
