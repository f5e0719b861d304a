----------------------------- MODULE AuditRules -----------------------------
(***************************************************************************)
(* What the audit of one batch decides, apart from how its jobs store it:  *)
(* the verdicts of the rules on the batch's facts, the guards between a    *)
(* hit and an issue, and the filter that the issue list and the report     *)
(* apply to a "manual-style" batch.                                        *)
(***************************************************************************)
EXTENDS Naturals, FiniteSets

CONSTANTS
    Rules,      \* the enabled rules
    Files,      \* the references to files that evidence items make
    Usable,     \* the references whose file id is a uuid: an item that found no
                \* file of a person has the id "unknown"
    FactSets,   \* the values normalisation may compute
    NoFacts,    \* the facts of a batch without files
    Verdict,    \* evaluate_rule: hit and evidence of a rule on some facts
    Required,   \* evidence_required of a rule
    Marked,     \* files whose name or snippet holds a manual-batch marker
    Excluded,   \* MANUAL_EXCLUDED_RULES
    Statuses,   \* review_status: "PENDING" and the actions of review requests
    Severities  \* severities a rule or a reviewer gives; a rule gives "HIGH"

ASSUME RuleConstants ==
    /\ NoFacts \in FactSets
    /\ Verdict \in [FactSets -> [Rules -> [hit : BOOLEAN, evidence : SUBSET Files]]]
    /\ Required \in [Rules -> Nat]
    /\ Usable \subseteq Files
    /\ Marked \subseteq Files
    /\ Excluded \subseteq Rules
    /\ "PENDING" \in Statuses
    /\ "HIGH" \in Severities

\* The items of a rule's evidence that get rows: _safe_uuid drops the others.
Chain(f, r) == Verdict[f][r].evidence \cap Usable

\* The rules that become an issue: a hit with enough evidence, counted before
\* the unusable items are dropped, of which something is left.
Grounded(f) ==
    {r \in Rules : /\ Verdict[f][r].hit
                   /\ Cardinality(Verdict[f][r].evidence) >= Required[r]
                   /\ Chain(f, r) # {}}

\* _is_target_manual_batch looks at the evidence of all the issues.
ManualBatch(rows) == \E i \in rows : i.chain \cap Marked # {}

\* What the issue list and the report show of some issue rows.
Listed(rows) ==
    IF ManualBatch(rows) THEN {i \in rows : i.rule \notin Excluded} ELSE rows

=============================================================================
