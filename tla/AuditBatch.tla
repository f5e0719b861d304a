----------------------------- MODULE AuditBatch -----------------------------
(***************************************************************************)
(* What the audit subsystem promises of one batch: its findings are empty  *)
(* or those of one rule-engine run over one value of the facts, edited by  *)
(* reviewers; a report, when there is one, is written in one step from the *)
(* findings of that moment, and a new audit withdraws both in one step.    *)
(***************************************************************************)
EXTENDS AuditRules

VARIABLES findings, report

Finding == [rule : Rules, chain : SUBSET Files, status : Statuses, severity : Severities]

Findings(f) ==
    {[rule |-> r, chain |-> Chain(f, r),
      status |-> "PENDING", severity |-> "HIGH"] : r \in Grounded(f)}

Init == findings = {} /\ report = {}

\* A new audit withdraws the findings and their report.
Withdraw == findings' = {} /\ report' = {}

\* The rule engine's run appears as a whole.
Conclude ==
    /\ findings = {} /\ report = {}
    /\ \E f \in FactSets : findings' = Findings(f)
    /\ UNCHANGED report

Publish == report' = {Listed(findings)} /\ UNCHANGED findings

Review ==
    /\ \E x \in findings, s \in Statuses, v \in Severities :
         findings' = (findings \ {x}) \cup {[x EXCEPT !.status = s, !.severity = v]}
    /\ UNCHANGED report

Next == Withdraw \/ Conclude \/ Publish \/ Review

Spec == Init /\ [][Next]_<<findings, report>>
=============================================================================
