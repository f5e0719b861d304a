--------------------------- MODULE MCGeminiInvoke ---------------------------
(* Constants of the TLC runs of GeminiInvoke. *)
EXTENDS GeminiInvoke

\* Every combination of settings and documents.
MCSettings == Setting
=============================================================================
