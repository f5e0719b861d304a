---------------------------- MODULE MCEvaluation ----------------------------
(* Constants of the TLC run of Evaluation. *)
EXTENDS Evaluation

\* An assertion that a manual check backs, one bridged from the facts of the
\* construction plan, and one that names no file and has an unknown category.
MCGold == <<
    [files |-> {"jsa", "construction"}, tokens |-> {"risk", "jsa"}, groups |-> {"hse"}, text |-> "g1",
     bridge |-> "manual", basis |-> "both", required |-> {"jsa"}, category |-> FALSE],
    [files |-> {"construction"}, tokens |-> {"risk"}, groups |-> {"hse"}, text |-> "g2",
     bridge |-> "gaps", basis |-> "none", required |-> {}, category |-> TRUE],
    [files |-> {}, tokens |-> {"risk"}, groups |-> {}, text |-> "g3",
     bridge |-> "none", basis |-> "none", required |-> {}, category |-> TRUE]>>

Issue(files, tokens, group, text) == [files |-> files, tokens |-> tokens, group |-> group, text |-> text]
MCIssues == {
    Issue({"jsa", "construction"}, {"risk"}, "hse", "i1"),
    Issue({"construction"}, {"risk"}, "legal", "i2"),
    Issue({"permit"}, {"risk", "jsa"}, "hse", "i3"),
    Issue({}, {"risk"}, "hse", "i4")}

MCRatio == [t \in {"i1", "i2", "i3", "i4"} \X {"g1", "g2", "g3"} |->
              IF t \in {<<"i3", "g1">>, <<"i2", "g2">>} THEN 60 ELSE 30]

Record(type, fields) == [type |-> type, fields |-> fields]
\* Nothing extracted, a construction plan all of whose fields are empty, and
\* everything.
MCFacts == {
    [f \in {} |-> {}],
    [f \in {"construction"} |-> Record("construction_plan", {"other"})],
    [f \in {"jsa", "construction"} |->
       IF f = "jsa" THEN Record("jsa", {"hazards"})
       ELSE Record("construction_plan",
                   {"risk_items", "contacts", "emergency_materials", "emergency_measures"})]}

MCInspections == {"permit"}
MCSelections == {{}, {"jsa"}, {"construction", "permit"}}
=============================================================================
