------------------------- MODULE MCWatcherPipeline -------------------------
(* Values for the constants of WatcherPipeline. *)
EXTENDS WatcherPipeline

\* A mid-save, a clean content, and contents with errors from then on.
MCQuality == [v \in 1..MaxEdits |-> IF v = 2 THEN "clean" ELSE "errors"]

\* A content that makes the parser give up, then clean ones.
MCFails == [v \in 1..MaxEdits |-> IF v = 1 THEN "fails" ELSE "clean"]

\* Every content parses.
MCClean == [v \in 1..MaxEdits |-> "clean"]

\* Files and workers are interchangeable: no action or property names one.
Symmetry == Permutations(Files) \cup Permutations(Workers)
=============================================================================
