----------------------------- MODULE Evaluation -----------------------------
(***************************************************************************)
(* The evaluation of a batch against expected issues: the stored issues    *)
(* are scored against the assertions of the gold labels, pairs are taken   *)
(* greedily from the best score down, and assertions that no issue was     *)
(* mapped to may be bridged from the extracted facts. An evaluation reads  *)
(* the issues in the order of an unsorted SELECT; a batch is evaluated     *)
(* again after another audit, or for a selection of files.                 *)
(***************************************************************************)
EXTENDS Naturals, FiniteSets, Sequences

CONSTANTS
    Gold,       \* expected_issues: a sequence of assertions
    Issues,     \* the issues that audits of the batch may find
    Ratio,      \* SequenceMatcher's ratio of two descriptions, in parts of Unit
    Inspections,\* names of files that report or inspect equipment
    Facts,      \* what the extraction may have left: a record for some files
    Selections, \* the --files of an evaluation: sets of names, {} for all
    MaxRows,    \* bound: issues of the batch
    MaxReports  \* bound: evaluations

\* Exact for unions of up to six elements.
Unit == 60

ASSUME EvaluationConstants ==
    /\ DOMAIN Gold \subseteq Nat
    /\ \A g \in DOMAIN Gold : IsFiniteSet(Gold[g].files) /\ IsFiniteSet(Gold[g].tokens)
    /\ \A i \in Issues : IsFiniteSet(i.files) /\ IsFiniteSet(i.tokens)
    /\ \A i \in Issues, g \in DOMAIN Gold : Ratio[<<i.text, Gold[g].text>>] \in 0..Unit
    /\ MaxRows \in Nat /\ MaxReports \in Nat

VARIABLES
    facts,      \* facts_by_file and file_doc_type_by_name
    rows,       \* actual_issues, in the order of the SELECT
    gold,       \* the assertions that the selection leaves
    todo,       \* pairs that are still to be looked at
    assigned,   \* pairs that were assigned
    phase,      \* is an evaluation under way?
    report,     \* the report of the evaluation before
    reports     \* evaluations so far

vars == <<facts, rows, gold, todo, assigned, phase, report, reports>>

NoReport == [rows |-> <<>>, gold |-> {}, hits |-> {}]

Init ==
    /\ facts \in Facts
    /\ rows = <<>> /\ gold = {} /\ todo = {} /\ assigned = {}
    /\ phase = "idle" /\ report = NoReport /\ reports = 0

-----------------------------------------------------------------------------
(* score_actual_to_assertion, in parts of 1000000 * Unit *)

\* jaccard, in parts of Unit.
Jaccard(a, b) ==
    IF a = {} /\ b = {} THEN Unit
    ELSE (Unit * Cardinality(a \cap b)) \div Cardinality(a \cup b)

\* A fault: issues and assertions that name different files are not held back.
Penalty_none(i, g) == 100

Penalty(i, g) ==
    IF i.files # {} /\ g.files # {} /\ i.files \cap g.files = {} THEN 5 ELSE 100

\* CATEGORY_TO_AUDIT_GROUP; an unknown category allows every group.
CategoryWeight(i, g) == IF g.groups = {} \/ i.group \in g.groups THEN 100 ELSE 30

Score(i, g) ==
    (65 * Jaccard(i.files, g.files) + 20 * Jaccard(i.tokens, g.tokens) + 15 * Ratio[<<i.text, g.text>>])
      * Penalty(i, g) * CategoryWeight(i, g)

Threshold == 15 * Unit * 100 * 100

-----------------------------------------------------------------------------
(* map_actual_issues_to_assertions *)

ScoreOf(p) == Score(rows[p[1]], Gold[p[2]])

Earlier(p, q) == p[1] < q[1] \/ (p[1] = q[1] /\ p[2] < q[2])

\* A fault: the lowest score comes first.
Before_lowest(p, q) == ScoreOf(p) < ScoreOf(q) \/ (ScoreOf(p) = ScoreOf(q) /\ Earlier(p, q))

\* The sort is stable and descending: equal scores keep the order of the loops.
Before(p, q) == ScoreOf(p) > ScoreOf(q) \/ (ScoreOf(p) = ScoreOf(q) /\ Earlier(p, q))

\* Orders of some of the issues.
Orders == UNION {{s \in [1..n -> Issues] : \A i, k \in 1..n : s[i] = s[k] => i = k} : n \in 0..MaxRows}

\* The assertions about a selected file.
GoldOf(selection) ==
    IF selection = {} THEN DOMAIN Gold
    ELSE {g \in DOMAIN Gold : Gold[g].files \cap selection # {}}

\* The rows of the audit are read, and the gold is reduced to the selection.
Load ==
    /\ phase = "idle" /\ reports < MaxReports
    /\ rows' \in Orders
    /\ \E s \in Selections : gold' = GoldOf(s)
    /\ todo' = (DOMAIN rows') \X gold' /\ assigned' = {}
    /\ phase' = "mapping"
    /\ UNCHANGED <<facts, report, reports>>

Share(p, q) == p[1] = q[1] \/ p[2] = q[2]
Best(p) == p \in todo /\ \A q \in todo \ {p} : Before(p, q)
Free(p) == \A q \in assigned : ~Share(p, q)

\* A fault: the loop is left at the first pair that is not free.
Map_break ==
    /\ phase = "mapping"
    /\ \E p \in todo :
         /\ Best(p)
         /\ todo' = IF Free(p) THEN todo \ {p} ELSE {}
         /\ assigned' = IF Free(p) /\ ScoreOf(p) >= Threshold
                        THEN assigned \cup {p} ELSE assigned
    /\ UNCHANGED <<facts, rows, gold, phase, report, reports>>

\* The next pair is assigned if neither side is and the score suffices.
Map ==
    /\ phase = "mapping"
    /\ \E p \in todo :
         /\ Best(p)
         /\ todo' = todo \ {p}
         /\ assigned' = IF Free(p) /\ ScoreOf(p) >= Threshold
                        THEN assigned \cup {p} ELSE assigned
    /\ UNCHANGED <<facts, rows, gold, phase, report, reports>>

-----------------------------------------------------------------------------
(* apply_minimal_assertion_bridges; a record of facts is its document type   *)
(* and its fields that are not empty, with "other" for anything else that is *)
(* in the record: keys that no bridge reads, or fields that are empty;       *)
(* "scope" is any field that tells what the HSE plan is about                *)

Fields(f) == IF f \in DOMAIN facts THEN facts[f].fields ELSE {}
Touched(g) == g.files \cap DOMAIN facts

\* _manual_bridge_ready: a record of every required document type.
ManualReady(g) ==
    g.basis \in {"manual_excel", "both"} /\ g.required \subseteq {facts[f].type : f \in Touched(g)}

PlanInadequate == {"hazards_identified", "emergency_materials"} \subseteq Fields("plan")

\* The contacts of the construction plan are missing or only headings.
PlanHasGaps ==
    /\ Fields("construction") # {}
    /\ ~({"risk_items", "contacts", "emergency_materials", "emergency_measures"}
            \subseteq Fields("construction"))

GeneratorMissing(g) ==
    /\ Fields("construction") \cap {"generator", "fuel_tools"} # {}
    /\ \A f \in Touched(g) \cap Inspections : "generator" \notin Fields(f)

JsaOutOfScope ==
    \/ Fields("jsa") \cap {"weak", "mixed_project"} # {}
    \/ {"hazards", "controls"} \subseteq Fields("jsa") /\ "scope" \notin Fields("hse_plan")

\* _bridge_fact_trigger
FactTrigger(g) ==
    /\ g.category
    /\ CASE g.bridge = "plan" -> PlanInadequate /\ Touched(g) \cap {"plan", "construction"} # {}
         [] g.bridge = "gaps" -> PlanHasGaps
         [] g.bridge = "generator" -> GeneratorMissing(g)
         [] g.bridge = "jsa" -> JsaOutOfScope /\ Touched(g) \cap {"jsa", "hse_plan"} # {}
         [] OTHER -> FALSE

Bridged(k) ==
    LET g == Gold[k] IN
    Touched(g) # {} /\ IF g.bridge = "manual" THEN ManualReady(g) ELSE FactTrigger(g)

\* predicted_hit: what was assigned, and what is bridged of the rest.
Hits == {p[2] : p \in assigned} \cup {k \in gold : Bridged(k)}

\* evaluate_from_batch returns and the report is written.
Report ==
    /\ phase = "mapping" /\ todo = {}
    /\ report' = [rows |-> rows, gold |-> gold, hits |-> Hits]
    /\ reports' = reports + 1
    /\ phase' = "idle" /\ rows' = <<>> /\ gold' = {} /\ assigned' = {}
    /\ UNCHANGED <<facts, todo>>

Next == Load \/ Map \/ Report

Spec == Init /\ [][Next]_vars

-----------------------------------------------------------------------------
(* Correctness *)

\* The pairs are of the rows and the gold of this evaluation; none is both to do
\* and assigned.
TypeOK ==
    /\ facts \in Facts /\ phase \in {"idle", "mapping"}
    /\ reports \in 0..MaxReports /\ (phase = "mapping" => reports < MaxReports)
    /\ rows \in Orders /\ gold \subseteq DOMAIN Gold
    /\ todo \subseteq (DOMAIN rows) \X gold
    /\ assigned \subseteq ((DOMAIN rows) \X gold) \ todo

\* No issue counts for two assertions and no assertion for two issues; a pair
\* that was passed over is below the threshold or lost to an assigned pair whose score is no lower.
MappingIsStable ==
    /\ \A p, q \in assigned : Share(p, q) => p = q
    /\ \A p \in ((DOMAIN rows) \X gold) \ (todo \cup assigned) :
         ScoreOf(p) < Threshold \/ \E q \in assigned : Share(p, q) /\ ScoreOf(q) >= ScoreOf(p)

\* Similar words never make a hit of an issue about other files.
HitsShareAFile ==
    \A p \in assigned :
      LET a == rows[p[1]].files
          b == Gold[p[2]].files
      IN  a # {} /\ b # {} => a \cap b # {}

Position(s, x) == CHOOSE i \in DOMAIN s : s[i] = x
Elements(s) == {s[i] : i \in DOMAIN s}

SameOrder(old, new) ==
    \A x, y \in Elements(old) :
      Position(old, x) < Position(old, y) => Position(new, x) < Position(new, y)

\* No issue and no assertion has two pairs of equal score above the threshold.
NoTies(issues, keys) ==
    \A p, q \in issues \X keys :
      p # q /\ Share(p, q) => \/ Score(p[1], Gold[p[2]]) # Score(q[1], Gold[q[2]])
                              \/ Score(p[1], Gold[p[2]]) < Threshold

\* An audit that finds more issues, or a selection that leaves fewer assertions,
\* loses no hit; nor does another order of the rows, unless scores tie.
HitsAreKept ==
    [][ \/ report' = report \/ reports = 0
        \/ ~(Elements(report.rows) \subseteq Elements(report'.rows) /\ report'.gold \subseteq report.gold)
        \/ ~(SameOrder(report.rows, report'.rows) \/ NoTies(Elements(report'.rows), report.gold))
        \/ report.hits \cap report'.gold \subseteq report'.hits ]_vars
=============================================================================
