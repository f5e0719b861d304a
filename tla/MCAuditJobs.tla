----------------------------- MODULE MCAuditJobs -----------------------------
(* Constants of the TLC runs of AuditJobs: two rules, four references to
   files, three fact sets. *)
EXTENDS AuditJobs, TLC

CONSTANTS w1, w2, r1, r2, fa, fb, ua, ub, none, before, after

MCWorkers == {w1, w2}
MCOneWorker == {w1}
MCRules == {r1, r2}
MCFiles == {fa, fb, ua, ub}
MCUsable == {fa, fb}
MCFactSets == {none, before, after}

\* r1 is a presence rule: it hits the empty batch, without evidence to show.
\* r2 hits with the two items it requires: before the extraction is repeated
\* neither has a usable file, and after it one does, so that the issue's chain is
\* shorter than required.
MCVerdict ==
    [f \in MCFactSets |->
       [r \in MCRules |->
          CASE f = none /\ r = r1 -> [hit |-> TRUE, evidence |-> {}]
            [] f = none /\ r = r2 -> [hit |-> FALSE, evidence |-> {}]
            [] f = before /\ r = r1 -> [hit |-> TRUE, evidence |-> {fa}]
            [] f = after /\ r = r1 -> [hit |-> TRUE, evidence |-> {fa, fb}]
            [] f = before /\ r = r2 -> [hit |-> TRUE, evidence |-> {ua, ub}]
            [] f = after /\ r = r2 -> [hit |-> TRUE, evidence |-> {fb, ub}]]]

MCRequired == [r \in MCRules |-> IF r = r1 THEN 1 ELSE 2]
MCMarked == {fb}
MCExcluded == {r1}

Symmetry == Permutations(MCWorkers)
=============================================================================
