---------------------------- MODULE MCExtraction ----------------------------
(* Constants of the TLC runs of Extraction. *)
EXTENDS Extraction

CONSTANTS fa, fb, same, other, j1

MCFiles == {fa, fb}
MCDistinct == [f \in MCFiles |-> IF f = fa THEN same ELSE other]

\* A type that is never sent to the provider, and one with a rescue prompt.
MCTier == [t \in {"regulation", "jsa"} |-> IF t = "regulation" THEN "low" ELSE "rescue"]
MCNone == {}
MCOneJob == {j1}
=============================================================================
