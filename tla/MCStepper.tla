------------------------------ MODULE MCStepper ------------------------------
(* Constants of the TLC runs of Stepper. *)
EXTENDS Stepper

CONSTANTS b1, b2, r1, r2

MCBatches == {b1, b2}
MCRuns == {r1, r2}
=============================================================================
