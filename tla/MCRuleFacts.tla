---------------------------- MODULE MCRuleFacts ----------------------------
(* Constants of the TLC runs of RuleFacts. *)
EXTENDS RuleFacts

MCFiles == 1..3
MCName == <<2, 3, 1>>
MCTypes == {"personnel_qualification_review_form", "entry_permit",
            "safety_education_training_record", "training_record", "jsa"}
MCInferred == <<"none", "none", "entry_permit">>

MCSafetyNamed == {2}

MCAnswers ==
    LET Q == "personnel_qualification_review_form"
        P == "entry_permit"
        S == "safety_education_training_record"
        T == "training_record"
    IN  {<<Q, Q, P>>, <<T, T, P>>, <<P, S, P>>, <<"jsa", S, P>>,
         <<"classification_error", "other", P>>}

MCValues == {"none", "n1", "i1", "i1-", "r1", "r 1", "r2", "p1", "p2", "d1", "d2",
             "one", "two", "two_generic"}
MCNormal == [v \in MCValues |-> IF v = "i1-" THEN "i1" ELSE v]
MCText == [v \in MCValues |-> IF v = "r 1" THEN "r1" ELSE v]
MCDay == [v \in MCValues |-> CASE v = "d1" -> 1 [] v = "d2" -> 2 [] OTHER -> 0]
MCLength == [v \in MCValues |-> CASE v = "one" -> 1 [] v \in {"two", "two_generic"} -> 2
                                  [] OTHER -> 0]
MCMergeOrder == <<"training_record", "safety_education_training_record">>

Blank == [f \in Fields |-> "none"]
Person(id, role, date) ==
    [Blank EXCEPT !.person_name = "n1", !.id_no = id, !.role = role, !.date = date]

MCData == [t \in MCTypes |->
    CASE t = "personnel_qualification_review_form" ->
           {Person("i1", "r1", "d1"), Person("i1-", "r2", "d2"), Person("none", "r1", "none")}
      [] t = "entry_permit" ->
           {Person("i1", "r 1", "d1"), [Person("i1", "r2", "d2") EXCEPT !.project_name = "p1", !.contractor_name = "p2"],
            Person("none", "r1", "d1")}
      [] t = "jsa" ->
           {[Blank EXCEPT !.hazards = "two", !.controls = "one", !.contractor_name = "p1"],
            [Blank EXCEPT !.hazards = "two", !.controls = "two", !.project_name = "p2"]}
      [] OTHER -> {Person("i1", "none", "d2"), Person("none", "r1", "d1")}]

Rule(logic, type, field, type2, field2) ==
    [logic |-> logic, type |-> type, field |-> field, type2 |-> type2, field2 |-> field2]

MCRules ==
    {Rule("require_doc_type", t, "", "", "") :
        t \in {"personnel_qualification_review_form", "safety_education_training_record"}}
    \cup {Rule("require_field", t, "id_no", "", "") :
        t \in {"entry_permit", "safety_education_training_record"}}
    \cup {Rule("date_not_expired", "personnel_qualification_review_form", "date", "", ""),
          Rule("date_order", "safety_education_training_record", "date", "entry_permit", "date")}
    \cup {Rule(l, "", "", "", "") :
        l \in {"person_role_consistency", "person_training_closure", "project_name_consistency",
               "contractor_name_consistency", "jsa_control_completeness",
               "person_chain_missing_links", "unknown"}}
=============================================================================
