------------------------------ MODULE AuditJobs ------------------------------
(***************************************************************************)
(* The jobs that turn the extracted facts of one batch into issues and a   *)
(* report: the audit (reset, normalisation, rule engine), the report, the  *)
(* human review of an issue, and a normalisation on its own.  Each runs in *)
(* an HTTP thread or a Celery worker with a database session of its own,   *)
(* and no lock, status or idempotency key orders two of them.              *)
(*                                                                         *)
(* The database is PostgreSQL at READ COMMITTED: a statement sees the rows *)
(* committed when it runs, a transaction's writes appear at its commit.  A *)
(* DELETE dooms the rows its statement saw.  All rows that one commit      *)
(* inserts carry one stamp (their fresh uuids), so what a DELETE saw is a  *)
(* set of stamps.  The file repository and the extraction are represented  *)
(* by "facts", the value a normalisation would compute from them.          *)
(***************************************************************************)
EXTENDS AuditRules

CONSTANTS
    Workers,    \* threads and Celery workers that can run a job of the batch
    MaxStamp,   \* bound: jobs that insert rows
    Overlap     \* FALSE: clients wait for each job before the next request

ASSUME JobConstants == MaxStamp \in Nat /\ Overlap \in BOOLEAN

Issue == [stamp : Nat, rule : Rules, chain : SUBSET Files,
          status : Statuses, severity : Severities]
Evidence == [stamp : Nat, rule : Rules, file : Files]
Execution == [stamp : Nat, rule : Rules, hit : BOOLEAN]
Report == [stamp : Nat, items : SUBSET Issue, linked : BOOLEAN]
Profile == [stamp : Nat]

\* The tables the audit reset clears.
ResetTables == {"issues", "evidence", "executions", "reports"}
Tables == ResetTables \cup {"profiles"}

\* The next statement or commit of a job; a reset DELETE is named by its table.
Steps == ResetTables \cup
    {"idle", "reset_commit", "normalize", "normalize_select", "normalize_commit",
     "rules", "report_delete", "report_select", "report_commit", "report_refresh",
     "export", "link", "review_commit"}

Job == [pc : Steps, audit : BOOLEAN, stamp : Nat, gone : [Tables -> SUBSET Nat],
        seen : FactSets, copy : SUBSET Issue,
        edit : [status : Statuses, severity : Severities]]

NothingGone == [t \in Tables |-> {}]

\* What a session holds: the rows it has loaded, the stamps its open transaction
\* has deleted, the facts it has normalised, the fields a review request sets.
NoJob == [pc |-> "idle", audit |-> FALSE, stamp |-> 0, gone |-> NothingGone,
          seen |-> NoFacts, copy |-> {},
          edit |-> [status |-> "PENDING", severity |-> "HIGH"]]

VARIABLES
    facts,      \* what the batch's files and extraction records amount to
    db,         \* committed rows of each table
    excel,      \* content of report_{batch}.xlsx: empty, or the one copy written last
    job,        \* the job each worker runs
    nextStamp   \* the fresh stamp of the next job that inserts rows

vars == <<facts, db, excel, job, nextStamp>>

Init ==
    /\ facts \in FactSets
    /\ db = [t \in Tables |-> {}]
    /\ excel = {}
    /\ job = [w \in Workers |-> NoJob]
    /\ nextStamp = 1

-----------------------------------------------------------------------------
(* Rows and statements *)

\* The stamps of the rows a DELETE on table t sees now.
Stamps(t) == {row.stamp : row \in db[t]}

\* Table t once the deletions of w's transaction are committed.
Survivors(w, t) == {row \in db[t] : row.stamp \notin job[w].gone[t]}

SameIssue(i, j) == i.stamp = j.stamp /\ i.rule = j.rule

MayStart(w) ==
    /\ job[w].pc = "idle"
    /\ Overlap \/ \A v \in Workers : job[v].pc = "idle"

Goto(w, step) == job' = [job EXCEPT ![w].pc = step]

\* The job of w is over: its client has an answer, its session is closed.
Return(w) == job' = [job EXCEPT ![w] = NoJob]

\* A job that inserts rows begins, under a fresh stamp.
Begin(w, audit, step) ==
    /\ MayStart(w)
    /\ nextStamp < MaxStamp
    /\ job' = [job EXCEPT ![w] = [NoJob EXCEPT !.pc = step, !.audit = audit,
                                               !.stamp = nextStamp]]
    /\ nextStamp' = nextStamp + 1
    /\ UNCHANGED <<facts, db, excel>>

Delete(w, t, next) ==
    job' = [job EXCEPT ![w].gone[t] = Stamps(t), ![w].pc = next]

-----------------------------------------------------------------------------
(* Audit: run_batch_audit = reset; normalize_batch_facts; run_rule_engine *)

\* Faulty orders of the reset's DELETEs, each one line moved or missing.
AfterDelete_evidenceFirst ==
    [start |-> "evidence", evidence |-> "issues", issues |-> "executions",
     executions |-> "reports", reports |-> "reset_commit"]
AfterDelete_executionsFirst ==
    [start |-> "executions", executions |-> "issues", issues |-> "evidence",
     evidence |-> "reports", reports |-> "reset_commit"]
AfterDelete_noIssues ==
    [start |-> "evidence", evidence |-> "executions", executions |-> "reports",
     reports |-> "reset_commit", issues |-> "reset_commit"]
AfterDelete_noExecutions ==
    [start |-> "issues", issues |-> "evidence", evidence |-> "reports",
     reports |-> "reset_commit", executions |-> "reset_commit"]
AfterDelete_noReports ==
    [start |-> "issues", issues |-> "evidence", evidence |-> "executions",
     executions |-> "reset_commit", reports |-> "reset_commit"]

\* The statement that follows each DELETE of _reset_batch_audit_artifacts.
AfterDelete ==
    [start |-> "issues", issues |-> "evidence", evidence |-> "executions",
     executions |-> "reports", reports |-> "reset_commit"]

StartAudit(w) == Begin(w, TRUE, AfterDelete.start)

ResetStatement(w) ==
    /\ job[w].pc \in ResetTables
    /\ Delete(w, job[w].pc, AfterDelete[job[w].pc])
    /\ UNCHANGED <<facts, db, excel, nextStamp>>

ResetCommit(w) ==
    /\ job[w].pc = "reset_commit"
    /\ db' = [t \in Tables |-> Survivors(w, t)]
    /\ job' = [job EXCEPT ![w].gone = NothingGone, ![w].pc = "normalize"]
    /\ UNCHANGED <<facts, excel, nextStamp>>

\* The pipeline.normalize_batch task runs the normalisation alone.
StartNormalize(w) == Begin(w, FALSE, "normalize")

\* The DELETE of the old facts.  The SELECT of the files before it always finds the
\* same files: a batch gets them once.
NormalizeDelete(w) ==
    /\ job[w].pc = "normalize"
    /\ Delete(w, "profiles", "normalize_select")
    /\ UNCHANGED <<facts, db, excel, nextStamp>>

\* The SELECT of the extraction records.
NormalizeSelect(w) ==
    /\ job[w].pc = "normalize_select"
    /\ job' = [job EXCEPT ![w].seen = facts, ![w].pc = "normalize_commit"]
    /\ UNCHANGED <<facts, db, excel, nextStamp>>

\* A batch without files gets no ProjectProfile.
NewProfiles(w) == IF job[w].seen = NoFacts THEN {} ELSE {[stamp |-> job[w].stamp]}

NormalizeCommit(w) ==
    /\ job[w].pc = "normalize_commit"
    /\ db' = [db EXCEPT !["profiles"] = Survivors(w, "profiles") \cup NewProfiles(w)]
    /\ IF job[w].audit
         THEN job' = [job EXCEPT ![w].gone = NothingGone, ![w].pc = "rules"]
         ELSE Return(w)
    /\ UNCHANGED <<facts, excel, nextStamp>>

NewIssues(s, f) ==
    {[stamp |-> s, rule |-> r, chain |-> Chain(f, r),
      status |-> "PENDING", severity |-> "HIGH"] : r \in Grounded(f)}

NewEvidence(s, f) ==
    {e \in [stamp : {s}, rule : Grounded(f), file : Files] :
        e.file \in Chain(f, e.rule)}

NewExecutions(s, f) ==
    {[stamp |-> s, rule |-> r, hit |-> Verdict[f][r].hit] : r \in Rules}

\* run_rule_engine adds all its rows to one transaction.  The refresh of the
\* new issues that follows only reads: at worst it fails the answered request.
RuleCommit(w) ==
    /\ job[w].pc = "rules"
    /\ db' = [db EXCEPT
                !["issues"] = @ \cup NewIssues(job[w].stamp, job[w].seen),
                !["evidence"] = @ \cup NewEvidence(job[w].stamp, job[w].seen),
                !["executions"] = @ \cup NewExecutions(job[w].stamp, job[w].seen)]
    /\ Return(w)
    /\ UNCHANGED <<facts, excel, nextStamp>>

-----------------------------------------------------------------------------
(* Report: build_report = generate_report; export_report_excel; set the links *)

StartReport(w) == Begin(w, FALSE, "report_delete")

ReportDelete(w) ==
    /\ job[w].pc = "report_delete"
    /\ Delete(w, "reports", "report_select")
    /\ UNCHANGED <<facts, db, excel, nextStamp>>

ReportSelect(w) ==
    /\ job[w].pc = "report_select"
    /\ job' = [job EXCEPT ![w].copy = db["issues"], ![w].pc = "report_commit"]
    /\ UNCHANGED <<facts, db, excel, nextStamp>>

\* Faults: links that are set before the workbook is written; a report that
\* forgets the manual-batch filter.
NewReport_linked(w) == [stamp |-> job[w].stamp, items |-> Listed(job[w].copy), linked |-> TRUE]
NewReport_unfiltered(w) == [stamp |-> job[w].stamp, items |-> job[w].copy, linked |-> FALSE]

\* The row generate_report inserts: links come with a later commit.
NewReport(w) == [stamp |-> job[w].stamp, items |-> Listed(job[w].copy), linked |-> FALSE]

\* A fault: no unique constraint on batch_id.
ReportCommit_notUnique(w) ==
    /\ job[w].pc = "report_commit"
    /\ db' = [db EXCEPT !["reports"] = Survivors(w, "reports") \cup {NewReport(w)}]
    /\ Goto(w, "report_refresh")
    /\ UNCHANGED <<facts, excel, nextStamp>>

\* batch_id is unique in the report table: a row committed since the DELETE
\* makes the INSERT fail, and the transaction with it.
ReportCommit(w) ==
    /\ job[w].pc = "report_commit"
    /\ IF Survivors(w, "reports") = {}
         THEN db' = [db EXCEPT !["reports"] = {NewReport(w)}] /\ Goto(w, "report_refresh")
         ELSE Return(w) /\ UNCHANGED db
    /\ UNCHANGED <<facts, excel, nextStamp>>

\* The row this job inserted, unless another job has deleted it.
OwnReport(w) == {r \in db["reports"] : r.stamp = job[w].stamp}

\* session.refresh(report): an error when the row is gone.
ReportRefresh(w) ==
    /\ job[w].pc = "report_refresh"
    /\ IF OwnReport(w) # {} THEN Goto(w, "export") ELSE Return(w)
    /\ UNCHANGED <<facts, db, excel, nextStamp>>

Export(w) ==
    /\ job[w].pc = "export"
    /\ excel' = {[stamp |-> job[w].stamp, items |-> Listed(job[w].copy)]}
    /\ Goto(w, "link")
    /\ UNCHANGED <<facts, db, nextStamp>>

\* UPDATE of export_links; an error, without effect, when the row is gone.
Link(w) ==
    /\ job[w].pc = "link"
    /\ db' = [db EXCEPT !["reports"] =
                {[r EXCEPT !.linked = r.linked \/ r.stamp = job[w].stamp] : r \in @}]
    /\ Return(w)
    /\ UNCHANGED <<facts, excel, nextStamp>>

-----------------------------------------------------------------------------
(* Review: review_issue loads the row, then updates the columns it changed.  A
   request that leaves the severity out is one that repeats the loaded value. *)

StartReview(w) ==
    /\ MayStart(w)
    /\ \E i \in db["issues"], s \in Statuses \ {"PENDING"}, v \in Severities :
        job' = [job EXCEPT ![w] = [NoJob EXCEPT !.pc = "review_commit", !.copy = {i},
                                     !.edit = [status |-> s, severity |-> v]]]
    /\ UNCHANGED <<facts, db, excel, nextStamp>>

\* A fault: the severity is stored as the status.
Reviewed_swapped(row, loaded, new) == [row EXCEPT !.status = new.severity]

\* The UPDATE sets the columns that differ from the row as it was loaded.
Reviewed(row, loaded, new) ==
    [row EXCEPT !.status = IF new.status = loaded.status THEN @ ELSE new.status,
                !.severity = IF new.severity = loaded.severity THEN @ ELSE new.severity]

ReviewCommit(w) ==
    /\ job[w].pc = "review_commit"
    /\ \E c \in job[w].copy :
        db' = [db EXCEPT !["issues"] =
                 {IF SameIssue(i, c) THEN Reviewed(i, c, job[w].edit) ELSE i : i \in @}]
    /\ Return(w)
    /\ UNCHANGED <<facts, excel, nextStamp>>

-----------------------------------------------------------------------------
(* The rest of the system *)

\* A classification or extraction job commits: the same files, other facts.
Reextract ==
    /\ Overlap \/ \A w \in Workers : job[w].pc = "idle"
    /\ facts # NoFacts
    /\ facts' \in FactSets \ {NoFacts, facts}
    /\ UNCHANGED <<db, excel, job, nextStamp>>

\* The process dies or an exception escapes: the open transaction rolls back.
Crash(w) ==
    /\ job[w].pc # "idle"
    /\ Return(w)
    /\ UNCHANGED <<facts, db, excel, nextStamp>>

\* One step of the job a worker runs.
Step(w) ==
    \/ ResetStatement(w) \/ ResetCommit(w)
    \/ NormalizeDelete(w) \/ NormalizeSelect(w) \/ NormalizeCommit(w) \/ RuleCommit(w)
    \/ ReportDelete(w) \/ ReportSelect(w) \/ ReportCommit(w) \/ ReportRefresh(w)
    \/ Export(w) \/ Link(w)
    \/ ReviewCommit(w)

Request(w) == StartAudit(w) \/ StartNormalize(w) \/ StartReport(w) \/ StartReview(w)

Next == Reextract \/ \E w \in Workers : Request(w) \/ Step(w) \/ Crash(w)

Spec == Init /\ [][Next]_vars

-----------------------------------------------------------------------------
(* Correctness.  The first group holds however jobs overlap. *)

\* Every variable has its type.
TypeOK ==
    /\ facts \in FactSets
    /\ db["issues"] \subseteq Issue
    /\ db["evidence"] \subseteq Evidence
    /\ db["executions"] \subseteq Execution
    /\ db["reports"] \subseteq Report
    /\ db["profiles"] \subseteq Profile
    /\ DOMAIN db = Tables
    /\ excel \subseteq [stamp : Nat, items : SUBSET Issue]
    /\ job \in [Workers -> Job]
    /\ nextStamp \in Nat

\* A batch has at most one report row, whatever report and audit jobs race:
\* generate_report's delete, insert and unique batch_id.
AtMostOneReport == \A r1, r2 \in db["reports"] : r1 = r2

\* Every evidence row belongs to an issue that is there: the reset deletes the
\* issues before the evidence, so a rule-engine commit that falls between the
\* two DELETEs can lose its evidence but never leaves it behind.
NoOrphanEvidence ==
    \A e \in db["evidence"] : \E i \in db["issues"] : SameIssue(i, e)

\* The execution results of one audit stay together, one for every enabled
\* rule, and while they are there each issue of the audit has all of its evidence
\* rows and each evidence row the result of its rule, a hit.
ExecutionsAreBacked ==
    \A x \in db["executions"] :
        /\ \A r \in Rules : \E y \in db["executions"] : y.stamp = x.stamp /\ y.rule = r
        /\ \A i \in db["issues"] : i.stamp = x.stamp =>
              \A f \in i.chain : [stamp |-> i.stamp, rule |-> i.rule, file |-> f] \in db["evidence"]
        /\ \A e \in db["evidence"] : e.stamp = x.stamp =>
              \E y \in db["executions"] : SameIssue(y, e) /\ y.hit

(* The inductive invariant of the proofs *)

RuleTables == {"issues", "evidence", "executions"}

\* An audit or a normalisation that has not inserted its rows.
UnwrittenSteps ==
    ResetTables \cup
    {"reset_commit", "normalize", "normalize_select", "normalize_commit", "rules"}
Unwritten(w) == job[w].pc \in UnwrittenSteps

\* Stamps are fresh: nobody has seen or used one before its audit commits.
FreshStamps ==
    /\ \A w \in Workers : job[w].stamp < nextStamp
    /\ \A t \in RuleTables : \A row \in db[t] : row.stamp < nextStamp
    /\ \A w \in Workers, t \in RuleTables : \A s \in job[w].gone[t] : s < nextStamp
    /\ \A w \in Workers : Unwritten(w) =>
         /\ \A v \in Workers \ {w} : Unwritten(v) => job[v].stamp # job[w].stamp
         /\ \A t \in RuleTables : \A row \in db[t] : row.stamp # job[w].stamp
         /\ \A v \in Workers, t \in RuleTables : job[w].stamp \notin job[v].gone[t]

\* A reset dooms no issues without their evidence, and no issues or evidence
\* without their execution results.
OrderedJob(j) ==
    /\ j.pc \in {"executions", "reports", "reset_commit"} =>
         \A e \in db["evidence"] : e.stamp \in j.gone["issues"] => e.stamp \in j.gone["evidence"]
    /\ j.pc \in {"reports", "reset_commit"} =>
         \A x \in db["executions"] :
            x.stamp \in j.gone["issues"] \cup j.gone["evidence"] => x.stamp \in j.gone["executions"]

OrderedReset == \A w \in Workers : OrderedJob(job[w])

\* The rows of the rule tables hang together at every step of every job: stamps
\* are fresh, resets are ordered, no evidence is orphaned and execution results
\* are backed (run_rule_engine and _reset_batch_audit_artifacts).
RowsHangTogether ==
    FreshStamps /\ OrderedReset /\ NoOrphanEvidence /\ ExecutionsAreBacked

(* The second group holds when clients wait for each job (Overlap = FALSE),
   crashes between two transactions of a job included. *)

\* Each issue's evidence chain is backed by its evidence rows.
EvidenceBacksIssues ==
    \A i \in db["issues"], f \in Files :
        f \in i.chain => [stamp |-> i.stamp, rule |-> i.rule, file |-> f] \in db["evidence"]

\* The report shows exactly the issues the issue list shows (their reviews
\* apart): an audit takes away the report along with the issues it described.
ReportMatchesIssues ==
    \A r \in db["reports"] :
        {<<i.stamp, i.rule>> : i \in r.items} = {<<i.stamp, i.rule>> : i \in Listed(db["issues"])}

\* The workbook a linked report points to is the one written from it.
WorkbookMatchesReport ==
    \A r \in db["reports"] : r.linked => excel = {[stamp |-> r.stamp, items |-> r.items]}

\* The artifacts of the audit with this stamp are the only ones of the batch, with
\* an execution result for every rule.
OnlyAudit(s, tables) ==
    /\ \A t \in {"issues", "evidence", "executions"} :
         \A row \in tables[t] : row.stamp = s
    /\ {x.rule : x \in tables["executions"]} = Rules

\* An audit is idempotent: when it answers "done", its own results replaced
\* those of every earlier audit (_reset_batch_audit_artifacts' docstring).
AuditIdempotent ==
    [][\A w \in Workers : RuleCommit(w) => OnlyAudit(job[w].stamp, db')]_vars

\* Without overlap the jobs implement AuditBatch, crashes between the three
\* transactions of an audit included.
Promise == INSTANCE AuditBatch WITH
    findings <- {[rule |-> i.rule, chain |-> i.chain, status |-> i.status,
                  severity |-> i.severity] : i \in db["issues"]},
    report <- {{[rule |-> i.rule, chain |-> i.chain, status |-> i.status,
                 severity |-> i.severity] : i \in r.items} : r \in db["reports"]}

\* The audit, report and review jobs keep the promise of AuditBatch.
ImplementsPromise == Promise!Spec
=============================================================================
