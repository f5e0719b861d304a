------------------------------ MODULE RuleFacts ------------------------------
(***************************************************************************)
(* The facts that normalisation computes from a batch's extraction records *)
(* and the verdicts of the rules on them, while the batch is classified    *)
(* and extracted again. The audit selects the files without ORDER BY, so   *)
(* facts and verdicts depend on the order in which they come.              *)
(*                                                                         *)
(* Files are numbered in the order of their ids, names in theirs. A        *)
(* payload is a function on Fields; "none" is a missing or empty value.    *)
(***************************************************************************)
EXTENDS Integers, FiniteSets, SequencesExt

CONSTANTS
    Files,      \* the batch's files
    Name,       \* file_name of each file
    DocTypes,   \* document types with a schema
    Inferred,   \* the type a file's name tells for sure, or "none"
    SafetyNamed,\* files whose name tells a safety education record
    Answers,    \* what the model may answer about the batch's files, aliases resolved
    Data,       \* the payloads that extraction may get for each type
    Values,     \* field values
    Normal,     \* normal form of a name, id or role; "none" if nothing is left
    Text,       \* _normalize_text
    Day,        \* the date a value holds, 0 if it is none
    Length,     \* entries of a value that is a list
    Generic,    \* lists with no entry but generic ones
    MergeOrder, \* how the process iterates over the two training types
    Today,
    Rules,      \* enabled rules: logic, and its parameters
    MaxClock    \* bound: extractions of the batch

Fields == {"person_name", "id_no", "role", "project_name", "contractor_name", "date",
           "hazards", "controls", "low_specificity"}

ASSUME FactConstants ==
    /\ Files \subseteq Nat /\ IsFiniteSet(Files) /\ Name \in [Files -> Nat]
    /\ "training_record" \in DocTypes => "safety_education_training_record" \in DocTypes
    /\ Inferred \in [Files -> DocTypes \cup {"none"}]
    /\ SafetyNamed \subseteq Files
    /\ Answers \subseteq [Files -> DocTypes \cup {"classification_error", "other"}]
    /\ \A t \in DocTypes : Data[t] \subseteq [Fields -> Values]
    /\ Normal \in [Values -> Values] /\ Text \in [Values -> Values]
    /\ Day \in [Values -> Nat] /\ Length \in [Values -> Nat] /\ Generic \subseteq Values
    /\ \A r \in Rules : r.logic = "date_order" => r.field \in Fields /\ r.field2 \in Fields

VARIABLES
    docType,    \* FileRecord.doc_type
    records,    \* extraction records
    clock       \* updated_at of the next extraction

vars == <<docType, records, clock>>

Init ==
    /\ docType = [f \in Files |-> "none"]
    /\ records = {} /\ clock = 1

\* _classify_payload: a name that tells the type is never sent to the model.
Answered(f, answer) == IF Inferred[f] # "none" THEN Inferred[f] ELSE answer

\* The type stored for an answer: a safety education record is not just a
\* training record, and a type without a schema is not supported.
Classified(f, answer) ==
    LET found == Answered(f, answer)
    IN  CASE found = "training_record" /\ f \in SafetyNamed -> "safety_education_training_record"
          [] found \notin DocTypes \cup {"classification_error"} -> "unsupported_document"
          [] OTHER -> found

\* A classification of the whole batch commits; the answers may differ from the
\* last ones if these were errors, or came from another model or version.
Classify ==
    /\ \E a \in Answers : docType' = [f \in Files |-> Classified(f, a[f])]
    /\ UNCHANGED <<records, clock>>

Latest(f) == {r \in records : r.file = f /\ \A q \in records : q.file = f => q.at <= r.at}

\* A fault: a record is added even if the latest one has the same schema.
Stored_always(d) ==
    records \cup {[file |-> f, schema |-> docType[f], at |-> clock, data |-> d[f]] : f \in DOMAIN d}

\* The records once the payloads d are stored: a file's latest record is
\* overwritten if it has the schema, and gets a successor if it has another.
Stored(d) ==
    LET old == {r \in UNION {Latest(f) : f \in DOMAIN d} : r.schema = docType[r.file]}
    IN  (records \ old) \cup
        {[file |-> f, schema |-> docType[f], at |-> clock, data |-> d[f]] : f \in DOMAIN d}

\* An extraction of the whole batch commits.
Extract ==
    LET typed == {f \in Files : docType[f] \in DocTypes} IN
    /\ clock <= MaxClock /\ typed # {}
    /\ \E d \in [typed -> UNION {Data[t] : t \in DocTypes}] :
         /\ \A f \in typed : d[f] \in Data[docType[f]]
         /\ records' = Stored(d)
    /\ clock' = clock + 1
    /\ UNCHANGED docType

Next == Classify \/ Extract

Spec == Init /\ [][Next]_vars

-----------------------------------------------------------------------------
(* normalize_batch_facts: the documents *)

\* The file's name decides when its classification did not.
EffectiveType(f) ==
    IF /\ docType[f] \in {"none", "unsupported_document", "classification_error"}
       /\ Inferred[f] # "none"
    THEN Inferred[f] ELSE docType[f]

\* The newest of the file's records, of those with the schema of its type if any.
Record(f) ==
    LET all == {r \in records : r.file = f}
        matched == {r \in all : r.schema = EffectiveType(f)}
        selected == IF matched = {} THEN all ELSE matched
    IN  CHOOSE r \in selected : \A q \in selected : q.at <= r.at

Document(f) == [file |-> f, type |-> EffectiveType(f), data |-> Record(f).data]

\* The values of v at the numbers in I up to n, in their order.
Chosen(v, I, n) ==
    LET upTo[k \in 0..n] ==
          IF k = 0 THEN <<>>
          ELSE IF k \in I THEN Append(upTo[k - 1], v[k]) ELSE upTo[k - 1]
    IN  upTo[n]

\* One document per file that has a record, in the order of the files.
Documents(order) ==
    Chosen([i \in DOMAIN order |-> Document(order[i])],
           {i \in DOMAIN order : \E r \in records : r.file = order[i]}, Len(order))

-----------------------------------------------------------------------------
(* normalize_batch_facts: the people *)

Source(t) ==
    CASE t = "personnel_qualification_review_form" -> "qualification"
      [] t = "entry_permit" -> "permit"
      [] t \in {"training_record", "safety_education_training_record"} -> "training"
      [] OTHER -> "other"

Chain == {"qualification", "permit", "training"}

\* A fault: people are told apart by their names.
PersonKey_name(d) == <<"name", Normal[d.person_name]>>

PersonKey(d) ==
    IF Normal[d.id_no] # "none" THEN <<"id", Normal[d.id_no]>>
    ELSE <<"name_role", Normal[d.person_name], Normal[d.role]>>

\* What is known of a person so far; setdefault of the accumulator.
Known(people, key) ==
    IF \E p \in people : p.key = key
    THEN CHOOSE p \in people : p.key = key
    ELSE [key |-> key, roles |-> [s \in Chain |-> "none"], chain |-> {}, files |-> {}]

\* A fault: only the last document of a person counts for the chain.
Accumulated_lastLink(people, doc) ==
    LET key == PersonKey(doc.data)
        old == Known(people, key)
        source == Source(doc.type)
        role == Normal[doc.data.role]
        new == [old EXCEPT
                  !.roles = [s \in Chain |-> IF s = source /\ role # "none" THEN role ELSE @[s]],
                  !.chain = {source} \cap Chain,
                  !.files = @ \cup {doc.file}]
    IN  IF doc.data.person_name = "none" THEN people ELSE (people \ {old}) \cup {new}

\* The accumulator after one more document: the last role of a source counts.
Accumulated(people, doc) ==
    LET key == PersonKey(doc.data)
        old == Known(people, key)
        source == Source(doc.type)
        role == Normal[doc.data.role]
        new == [old EXCEPT
                  !.roles = [s \in Chain |-> IF s = source /\ role # "none" THEN role ELSE @[s]],
                  !.chain = @ \cup ({source} \cap Chain),
                  !.files = @ \cup {doc.file}]
    IN  IF doc.data.person_name = "none" THEN people ELSE (people \ {old}) \cup {new}

People(docs) ==
    LET after[n \in 0..Len(docs)] ==
          IF n = 0 THEN {} ELSE Accumulated(after[n - 1], docs[n])
    IN  after[Len(docs)]

-----------------------------------------------------------------------------
(* The rules: the evidence of each; a rule hits when its guard holds *)

Item(doc) == [file |-> doc.file, name |-> Name[doc.file]]

First(docs, n) == {Item(docs[i]) : i \in 1..Min({n, Len(docs)})}

Equivalent == {"training_record", "safety_education_training_record"}

OfType(docs, t) == Chosen(docs, {i \in DOMAIN docs : docs[i].type = t}, Len(docs))

Entries(docs, t) ==
    IF t \in Equivalent
    THEN OfType(docs, MergeOrder[1]) \o OfType(docs, MergeOrder[2])
    ELSE OfType(docs, t)

\* Normalisation sorts the ids and the names of a person's files one by one.
PersonItem(p) == [file |-> Min(p.files), name |-> Min({Name[f] : f \in p.files})]

\* A fault: the evidence is looked for in documents of the missing type.
Presence_ownEntries(r, docs) ==
    IF Entries(docs, r.type) = <<>>
    THEN [hit |-> TRUE, evidence |-> First(Entries(docs, r.type), 1)]
    ELSE [hit |-> FALSE, evidence |-> {}]

\* _presence
Presence(r, docs) ==
    IF Entries(docs, r.type) = <<>>
    THEN [hit |-> TRUE, evidence |-> First(docs, 1)]
    ELSE [hit |-> FALSE, evidence |-> {}]

Defects(evidence) == [hit |-> evidence # {}, evidence |-> evidence]

OfDocs(bad) == Defects({Item(d) : d \in bad})

\* _required_field
RequiredField(r, docs) ==
    OfDocs({d \in ToSet(Entries(docs, r.type)) : d.data[r.field] = "none"})

\* _date_not_expired
NotExpired(r, docs) ==
    OfDocs({d \in ToSet(Entries(docs, r.type)) : Day[d.data[r.field]] \in 1..(Today - 1)})

\* _jsa_low_specificity
LowSpecificity(d) ==
    d.low_specificity # "none" \/ d.hazards \in Generic \/ d.controls \in Generic

\* _jsa_control_completeness
JsaComplete(docs) ==
    OfDocs({d \in ToSet(Entries(docs, "jsa")) :
        LET hazards == Length[d.data.hazards]
            controls == Length[d.data.controls]
        IN  hazards = 0 \/ controls = 0 \/ controls < hazards \/ LowSpecificity(d.data)})

\* _project_name_consistency and _contractor_name_consistency
Consistent(field, docs) ==
    LET names == {Text[d.data[field]] : d \in ToSet(docs)} \ {"none"}
    IN  IF Cardinality(names) > 1
        THEN [hit |-> TRUE, evidence |-> First(docs, 2)]
        ELSE [hit |-> FALSE, evidence |-> {}]

\* A fault: the first document of each type stands for all.
DateOrder_firstOnly(r, docs) ==
    LET one == Entries(docs, r.type)
        two == Entries(docs, r.type2)
    IN  IF one # <<>> /\ two # <<>> /\ Day[two[1].data[r.field2]] # 0
           /\ Day[one[1].data[r.field]] > Day[two[1].data[r.field2]]
        THEN [hit |-> TRUE, evidence |-> {Item(one[1]), Item(two[1])}]
        ELSE [hit |-> FALSE, evidence |-> {}]

\* _date_order: the latest first date against the earliest second date; of
\* several, the first found.
DateOrder(r, docs) ==
    LET DayOf(d, field) == Day[d.data[field]]
        Dated(s, field) == Chosen(s, {i \in DOMAIN s : DayOf(s[i], field) # 0}, Len(s))
        ones == Dated(Entries(docs, r.type), r.field)
        twos == Dated(Entries(docs, r.type2), r.field2)
        latest == ones[Min({i \in DOMAIN ones : \A k \in DOMAIN ones :
                              DayOf(ones[k], r.field) <= DayOf(ones[i], r.field)})]
        earliest == twos[Min({i \in DOMAIN twos : \A k \in DOMAIN twos :
                                DayOf(twos[i], r.field2) <= DayOf(twos[k], r.field2)})]
    IN  IF ones # <<>> /\ twos # <<>> /\ DayOf(latest, r.field) > DayOf(earliest, r.field2)
        THEN [hit |-> TRUE, evidence |-> {Item(latest), Item(earliest)}]
        ELSE [hit |-> FALSE, evidence |-> {}]

OfPeople(bad) == Defects({PersonItem(p) : p \in bad})

\* _person_role_consistency
RoleConsistent(docs) ==
    OfPeople({p \in People(docs) :
        /\ p.roles["qualification"] # "none" /\ p.roles["permit"] # "none"
        /\ Text[p.roles["qualification"]] # Text[p.roles["permit"]]})

\* _person_training_closure
TrainingClosed(docs) ==
    OfPeople({p \in People(docs) : "permit" \in p.chain /\ "training" \notin p.chain})

\* _person_chain_missing_links
ChainComplete(docs) == OfPeople({p \in People(docs) : p.chain # Chain})

\* evaluate_rule
Verdict(r, docs) ==
    CASE r.logic = "require_doc_type" -> Presence(r, docs)
      [] r.logic = "require_field" -> RequiredField(r, docs)
      [] r.logic = "date_not_expired" -> NotExpired(r, docs)
      [] r.logic = "person_role_consistency" -> RoleConsistent(docs)
      [] r.logic = "person_training_closure" -> TrainingClosed(docs)
      [] r.logic = "project_name_consistency" -> Consistent("project_name", docs)
      [] r.logic = "contractor_name_consistency" -> Consistent("contractor_name", docs)
      [] r.logic = "date_order" -> DateOrder(r, docs)
      [] r.logic = "jsa_control_completeness" -> JsaComplete(docs)
      [] r.logic = "person_chain_missing_links" -> ChainComplete(docs)
      [] OTHER -> [hit |-> FALSE, evidence |-> {}]

-----------------------------------------------------------------------------
(* Correctness *)

Orders == SetToSeqs(Files)

\* Records and types are well formed; a file's successive records differ in
\* schema, which is why the latest of a schema is its only current one.
TypeOK ==
    /\ docType \in [Files -> DocTypes \cup {"none", "unsupported_document", "classification_error"}]
    /\ \A r \in records : /\ r.file \in Files /\ r.schema \in DocTypes
                          /\ r.at \in 1..(clock - 1) /\ r.data \in Data[r.schema]
    /\ \A r, q \in records : r.file = q.file /\ r.at < q.at /\ r.schema = q.schema =>
         \E x \in records : x.file = r.file /\ r.at < x.at /\ x.at < q.at /\ x.schema # r.schema

\* The order in which the database returns the files does not change what a
\* rule says; the role rule is the exception, as a person's last role counts.
VerdictsIgnoreOrder ==
    \A one, two \in Orders :
      LET docs == Documents(one)
          other == Documents(two)
      IN  \A r \in Rules : r.logic # "person_role_consistency" =>
            Verdict(r, docs).hit = Verdict(r, other).hit

\* Once a file was extracted, every hit has evidence: the evidence guard of the
\* rule engine never swallows one.
HitsHaveEvidence ==
    \A order \in Orders : LET docs == Documents(order) IN
      docs # <<>> => \A r \in Rules :
        LET verdict == Verdict(r, docs) IN verdict.hit => verdict.evidence # {}

\* What the rules on people mean, without the accumulator: two documents are of
\* one person if they have the same id or, without one, the same name and role.
SamePerson(d, e) ==
    IF Normal[d.data.id_no] # "none" \/ Normal[e.data.id_no] # "none"
    THEN Normal[d.data.id_no] = Normal[e.data.id_no]
    ELSE /\ Normal[d.data.person_name] = Normal[e.data.person_name]
         /\ Normal[d.data.role] = Normal[e.data.role]

RolesDiffer(d, e) ==
    LET one == Normal[d.data.role]
        two == Normal[e.data.role]
    IN  SamePerson(d, e) /\ one # "none" /\ two # "none" /\ Text[one] # Text[two]

\* The rules on people find what they are for: a permit without a training of
\* the same person, a person without one of the three documents, and two roles
\* of one person; the last surely only if no person has two documents of a kind.
PeopleRulesAreExact ==
    \A order \in Orders :
    LET docs == Documents(order)
        named == {d \in ToSet(docs) : d.data.person_name # "none"}
        Of(s) == {d \in named : Source(d.type) = s}
        conflict == \E q \in Of("qualification"), p \in Of("permit") : RolesDiffer(q, p)
        single == \A d, e \in named :
                    SamePerson(d, e) /\ Source(d.type) = Source(e.type) => d = e
    IN  /\ TrainingClosed(docs).hit <=>
             \E p \in Of("permit") : \A t \in Of("training") : ~SamePerson(p, t)
        /\ ChainComplete(docs).hit <=>
             \E d \in named, c \in Chain : \A e \in Of(c) : ~SamePerson(d, e)
        /\ RoleConsistent(docs).hit => conflict
        /\ single /\ conflict => RoleConsistent(docs).hit

OfDocuments == {"require_field", "date_not_expired", "date_order", "jsa_control_completeness",
                "project_name_consistency", "contractor_name_consistency"}

\* A document more never hides a defect that the others have, nor makes a
\* document type missing.
DefectsAccumulate ==
    \A order \in Orders, f \in Files :
      LET docs == Documents(order)
          fewer == Documents(Chosen(order, {i \in DOMAIN order : order[i] # f}, Len(order)))
      IN  \A r \in Rules :
            /\ r.logic \in OfDocuments => (Verdict(r, fewer).hit => Verdict(r, docs).hit)
            /\ r.logic = "require_doc_type" => (Verdict(r, docs).hit => Verdict(r, fewer).hit)

\* Evidence has a "file_id" and a "file_name": they are of the same file.
EvidenceNamesItsFile ==
    \A order \in Orders : LET docs == Documents(order) IN
      \A r \in Rules : \A e \in Verdict(r, docs).evidence : e.name = Name[e.file]
=============================================================================
