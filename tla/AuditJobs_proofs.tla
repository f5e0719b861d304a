-------------------------- MODULE AuditJobs_proofs --------------------------
(***************************************************************************)
(* Theorems about AuditJobs, for every set of workers, rules, files and    *)
(* facts, whether or not jobs overlap.                                     *)
(***************************************************************************)
EXTENDS AuditJobs, TLAPS

-----------------------------------------------------------------------------
(* The rows a commit inserts are of their tables' types. *)

LEMMA NoJobType == NoJob \in Job
BY RuleConstants DEF NoJob, Job, NothingGone, Steps, Tables, ResetTables

LEMMA GroundedRules ==
    ASSUME NEW f PROVE Grounded(f) \subseteq Rules
BY DEF Grounded

LEMMA NewIssuesType ==
    ASSUME NEW s \in Nat, NEW f \in FactSets
    PROVE  NewIssues(s, f) \subseteq Issue
<1>1. \A r \in Grounded(f) : r \in Rules /\ Chain(f, r) \in SUBSET Files
  BY RuleConstants, GroundedRules DEF Chain
<1>2. QED BY <1>1, RuleConstants DEF NewIssues, Issue

LEMMA NewEvidenceType ==
    ASSUME NEW s \in Nat, NEW f \in FactSets
    PROVE  NewEvidence(s, f) \subseteq Evidence
<1>1. SUFFICES ASSUME NEW e \in NewEvidence(s, f) PROVE e \in Evidence
  OBVIOUS
<1>2. e \in [stamp : {s}, rule : Grounded(f), file : Files]
  BY DEF NewEvidence
<1>3. QED BY <1>2, GroundedRules DEF Evidence

LEMMA NewExecutionsType ==
    ASSUME NEW s \in Nat, NEW f \in FactSets
    PROVE  NewExecutions(s, f) \subseteq Execution
BY RuleConstants DEF NewExecutions, Execution

LEMMA ReviewedType ==
    ASSUME NEW i \in Issue, NEW c,
           NEW e \in [status : Statuses, severity : Severities]
    PROVE  /\ Reviewed(i, c, e) \in Issue
           /\ Reviewed(i, c, e).stamp = i.stamp
           /\ Reviewed(i, c, e).rule = i.rule
           /\ Reviewed(i, c, e).chain = i.chain
BY DEF Reviewed, Issue

-----------------------------------------------------------------------------
(* Type correctness, one action at a time. *)

LEMMA StampsType ==
    ASSUME TypeOK, NEW t \in Tables PROVE Stamps(t) \subseteq Nat
BY DEF TypeOK, Stamps, Tables, ResetTables, Issue, Evidence, Execution, Report, Profile

\* A job moves on within itself, or ends.
LEMMA GotoType ==
    ASSUME TypeOK, NEW w \in Workers, NEW step \in Steps, Goto(w, step)
    PROVE  job' \in [Workers -> Job]
<1>1. [job[w] EXCEPT !.pc = step] \in Job
  BY DEF TypeOK, Job
<1>2. job' = [job EXCEPT ![w] = [job[w] EXCEPT !.pc = step]]
  BY DEF Goto
<1>3. QED BY <1>1, <1>2 DEF TypeOK

LEMMA ReturnType ==
    ASSUME TypeOK, NEW w \in Workers, Return(w)
    PROVE  job' \in [Workers -> Job]
BY NoJobType DEF TypeOK, Return

LEMMA TypeStep == TypeOK /\ [Next]_vars => TypeOK'
<1> SUFFICES ASSUME TypeOK, [Next]_vars PROVE TypeOK'
  OBVIOUS
<1> USE DEF TypeOK
<1>1. CASE UNCHANGED vars
  BY <1>1 DEF vars
<1>2. CASE Reextract
  BY <1>2 DEF Reextract
<1>3. ASSUME NEW w \in Workers, Request(w) \/ Step(w) \/ Crash(w)
      PROVE  TypeOK'
  <2>0. /\ job[w] \in Job
        /\ NoJob \in Job
    BY NoJobType
  <2>1. ASSUME NEW audit \in BOOLEAN, NEW step \in Steps, Begin(w, audit, step)
        PROVE  TypeOK'
    <3>1. [NoJob EXCEPT !.pc = step, !.audit = audit, !.stamp = nextStamp] \in Job
      BY <2>0, <2>1 DEF Job
    <3>2. QED BY <3>1, <2>1 DEF Begin
  <2>2. CASE StartAudit(w)
    BY <2>1, <2>2 DEF StartAudit, AfterDelete, Steps, ResetTables
  <2>3. CASE StartNormalize(w)
    BY <2>1, <2>3 DEF StartNormalize, Steps
  <2>4. CASE StartReport(w)
    BY <2>1, <2>4 DEF StartReport, Steps
  <2>5. CASE StartReview(w)
    <3>1. PICK i \in db["issues"], s \in Statuses, v \in Severities :
            job' = [job EXCEPT ![w] = [NoJob EXCEPT !.pc = "review_commit", !.copy = {i},
                                         !.edit = [status |-> s, severity |-> v]]]
      BY <2>5 DEF StartReview
    <3>2. [NoJob EXCEPT !.pc = "review_commit", !.copy = {i},
                        !.edit = [status |-> s, severity |-> v]] \in Job
      <4>1. i \in Issue
        BY <3>1
      <4>2. [status |-> s, severity |-> v] \in [status : Statuses, severity : Severities]
        BY <3>1
      <4>3. QED BY <2>0, <4>1, <4>2 DEF Job, Steps
    <3>3. QED BY <3>1, <3>2, <2>5 DEF StartReview
  <2>6. CASE ResetStatement(w)
    <3>1. AfterDelete[job[w].pc] \in Steps /\ job[w].pc \in Tables
      BY <2>6 DEF ResetStatement, AfterDelete, ResetTables, Steps, Tables
    <3>2. job' \in [Workers -> Job]
      BY <2>0, <2>6, <3>1, StampsType DEF ResetStatement, Delete, Job
    <3>3. QED BY <3>2, <2>6 DEF ResetStatement
  <2>7. CASE ResetCommit(w)
    <3>1. job' \in [Workers -> Job]
      BY <2>0, <2>7 DEF ResetCommit, Job, NothingGone, Steps
    <3>2. \A t \in Tables : db'[t] \subseteq db[t]
      BY <2>7 DEF ResetCommit, Survivors
    <3>3. DOMAIN db' = Tables
      BY <2>7 DEF ResetCommit
    <3>4. QED BY <3>1, <3>2, <3>3, <2>7 DEF ResetCommit, Tables, ResetTables
  <2>8. CASE NormalizeDelete(w) \/ NormalizeSelect(w)
    <3>1. Stamps("profiles") \subseteq Nat
      BY StampsType DEF Tables
    <3>2. CASE NormalizeDelete(w)
      BY <2>0, <3>1, <3>2 DEF NormalizeDelete, Delete, Job, Steps, Tables
    <3>3. CASE NormalizeSelect(w)
      BY <2>0, <3>3 DEF NormalizeSelect, Job, Steps
    <3>4. QED BY <2>8, <3>2, <3>3
  <2>9. CASE NormalizeCommit(w)
    <3>1. NewProfiles(w) \subseteq Profile
      BY <2>0 DEF NewProfiles, Profile, Job
    <3>2. job' \in [Workers -> Job]
      <4>1. [job[w] EXCEPT !.gone = NothingGone, !.pc = "rules"] \in Job
        BY <2>0 DEF Job, NothingGone, Steps
      <4>2. CASE job[w].audit
        <5>1. job' = [job EXCEPT ![w] = [job[w] EXCEPT !.gone = NothingGone, !.pc = "rules"]]
          BY <4>2, <2>9 DEF NormalizeCommit
        <5>2. QED BY <4>1, <5>1
      <4>3. CASE ~job[w].audit
        BY <4>3, <2>9, ReturnType DEF NormalizeCommit
      <4>4. QED BY <4>2, <4>3
    <3>3. Survivors(w, "profiles") \cup NewProfiles(w) \subseteq Profile
      BY <3>1 DEF Survivors
    <3>4. QED BY <3>2, <3>3, <2>9 DEF NormalizeCommit, Tables, ResetTables
  <2>10. CASE RuleCommit(w)
    <3>1. job[w].stamp \in Nat /\ job[w].seen \in FactSets
      BY <2>0 DEF Job
    <3>2. job' \in [Workers -> Job]
      BY <2>0, <2>10 DEF RuleCommit, Return
    <3>3. QED
      BY <3>1, <3>2, <2>10, NewIssuesType, NewEvidenceType, NewExecutionsType
      DEF RuleCommit, Tables, ResetTables
  <2>11. CASE ReportDelete(w)
    <3>1. Stamps("reports") \subseteq Nat
      BY StampsType DEF Tables, ResetTables
    <3>2. job' \in [Workers -> Job]
      BY <2>0, <2>11, <3>1 DEF ReportDelete, Delete, Job, Steps, Tables, ResetTables
    <3>3. QED BY <3>2, <2>11 DEF ReportDelete
  <2>12. CASE ReportSelect(w)
    BY <2>0, <2>12 DEF ReportSelect, Job, Steps
  <2>13. CASE ReportCommit(w)
    <3>1. NewReport(w) \in Report
      BY <2>0 DEF NewReport, Report, Listed, Job
    <3>2. job' \in [Workers -> Job]
      BY <2>13, GotoType, ReturnType DEF ReportCommit, Steps
    <3>3. CASE Survivors(w, "reports") = {}
      BY <3>1, <3>2, <3>3, <2>13 DEF ReportCommit, Tables, ResetTables
    <3>4. CASE Survivors(w, "reports") # {}
      BY <3>2, <3>4, <2>13 DEF ReportCommit
    <3>5. QED BY <3>3, <3>4
  <2>14. CASE ReportRefresh(w)
    <3>1. job' \in [Workers -> Job]
      BY <2>14, GotoType, ReturnType DEF ReportRefresh, Steps
    <3>2. QED BY <3>1, <2>14 DEF ReportRefresh
  <2>15. CASE Export(w)
    <3>1. job' \in [Workers -> Job]
      BY <2>15, GotoType DEF Export, Steps
    <3>2. [stamp |-> job[w].stamp, items |-> Listed(job[w].copy)]
            \in [stamp : Nat, items : SUBSET Issue]
      BY <2>0 DEF Listed, Job
    <3>3. QED BY <3>1, <3>2, <2>15 DEF Export
  <2>16. CASE Link(w)
    <3>1. job' \in [Workers -> Job]
      BY <2>0, <2>16 DEF Link, Return
    <3>2. \A r \in db["reports"] :
            [r EXCEPT !.linked = r.linked \/ r.stamp = job[w].stamp] \in Report
      BY DEF Report
    <3>3. QED BY <3>1, <3>2, <2>16 DEF Link, Tables, ResetTables
  <2>17. CASE ReviewCommit(w)
    <3>1. PICK c \in job[w].copy :
            db' = [db EXCEPT !["issues"] =
                     {IF SameIssue(i, c) THEN Reviewed(i, c, job[w].edit) ELSE i : i \in @}]
      BY <2>17 DEF ReviewCommit
    <3>2. job[w].edit \in [status : Statuses, severity : Severities]
      BY <2>0 DEF Job
    <3>3. \A i \in db["issues"] : Reviewed(i, c, job[w].edit) \in Issue
      BY <3>2, ReviewedType
    <3>4. job' \in [Workers -> Job]
      BY <2>0, <2>17 DEF ReviewCommit, Return
    <3>5. QED BY <3>1, <3>3, <3>4, <2>17 DEF ReviewCommit, Tables, ResetTables
  <2>18. CASE Crash(w)
    BY <2>0, <2>18 DEF Crash, Return
  <2>19. QED
    BY <1>3, <2>2, <2>3, <2>4, <2>5, <2>6, <2>7, <2>8, <2>9, <2>10, <2>11, <2>12,
       <2>13, <2>14, <2>15, <2>16, <2>17, <2>18
    DEF Request, Step
<1>4. QED BY <1>1, <1>2, <1>3 DEF Next

\* Type correctness of the audit, report and review jobs.
THEOREM TypeCorrect == Spec => []TypeOK
<1>1. Init => TypeOK
  BY NoJobType, RuleConstants DEF Init, TypeOK, Tables, ResetTables
<1>2. QED BY <1>1, TypeStep, PTL DEF Spec

-----------------------------------------------------------------------------
(* RowsHangTogether is inductive.  A step of worker w replaces its job by some *)
(* j; the two lemmas cover every step that leaves the rule tables alone.       *)

\* w moves on: it may doom rows it sees, and if it has yet to insert its rows it
\* had yet to before.
LEMMA RowsKept ==
    ASSUME TypeOK, RowsHangTogether, NEW w \in Workers, NEW j \in Job,
           job' = [job EXCEPT ![w] = j],
           \A t \in RuleTables : db'[t] = db[t],
           nextStamp' = nextStamp,
           j.stamp < nextStamp,
           j.pc \in UnwrittenSteps => Unwritten(w) /\ j.stamp = job[w].stamp,
           \A t \in RuleTables : j.gone[t] \subseteq job[w].gone[t] \cup Stamps(t),
           OrderedJob(j)
    PROVE  RowsHangTogether'
<1>0. /\ job \in [Workers -> Job] /\ nextStamp \in Nat
      /\ job'[w] = j
      /\ \A v \in Workers \ {w} : job'[v] = job[v]
  BY DEF TypeOK
<1>1. \A t \in RuleTables : \A s \in Stamps(t) :
         /\ s < nextStamp
         /\ \A v \in Workers : Unwritten(v) => s # job[v].stamp
  BY DEF RowsHangTogether, FreshStamps, Stamps
<1>2. FreshStamps'
  <2>1. \A v \in Workers : (job[v].stamp)' < nextStamp'
    BY <1>0 DEF RowsHangTogether, FreshStamps
  <2>2. \A t \in RuleTables : \A row \in db'[t] : row.stamp < nextStamp'
    BY DEF RowsHangTogether, FreshStamps
  <2>3. \A v \in Workers, t \in RuleTables : \A s \in job'[v].gone[t] : s < nextStamp'
    BY <1>0, <1>1 DEF RowsHangTogether, FreshStamps
  <2>4. ASSUME NEW v \in Workers, Unwritten(v)'
        PROVE  Unwritten(v) /\ job'[v].stamp = job[v].stamp
    BY <1>0, <2>4 DEF Unwritten
  <2>5. ASSUME NEW v \in Workers, Unwritten(v)', NEW u \in Workers \ {v}, Unwritten(u)'
        PROVE  job'[u].stamp # job'[v].stamp
    BY <2>4, <2>5 DEF RowsHangTogether, FreshStamps
  <2>6. ASSUME NEW v \in Workers, Unwritten(v)', NEW t \in RuleTables
        PROVE  /\ \A row \in db'[t] : row.stamp # job'[v].stamp
               /\ \A u \in Workers : job'[v].stamp \notin job'[u].gone[t]
    BY <1>0, <1>1, <2>4, <2>6 DEF RowsHangTogether, FreshStamps
  <2>7. QED BY <2>1, <2>2, <2>3, <2>5, <2>6 DEF FreshStamps
<1>3. OrderedReset'
  BY <1>0 DEF RowsHangTogether, OrderedReset, OrderedJob, RuleTables
<1>4. NoOrphanEvidence' /\ ExecutionsAreBacked'
  BY DEF RowsHangTogether, NoOrphanEvidence, ExecutionsAreBacked, RuleTables
<1>5. QED BY <1>2, <1>3, <1>4 DEF RowsHangTogether

\* w begins a job under the next stamp, which nothing carries.
LEMMA RowsBegin ==
    ASSUME TypeOK, RowsHangTogether, NEW w \in Workers, NEW audit \in BOOLEAN,
           NEW step \in Steps, Begin(w, audit, step)
    PROVE  RowsHangTogether'
<1> DEFINE j == [NoJob EXCEPT !.pc = step, !.audit = audit, !.stamp = nextStamp]
<1>0. /\ job \in [Workers -> Job] /\ nextStamp \in Nat
      /\ job'[w].stamp = nextStamp /\ nextStamp' = nextStamp + 1
      /\ \A t \in RuleTables : job'[w].gone[t] = {}
      /\ \A v \in Workers \ {w} : job'[v] = job[v]
      /\ \A v \in Workers : job[v].stamp \in Nat
      /\ db' = db
  BY DEF TypeOK, Begin, NoJob, NothingGone, RuleTables, Tables, ResetTables, Job
<1>1. FreshStamps'
  <2>1. \A v \in Workers : job'[v].stamp < nextStamp'
    BY <1>0 DEF RowsHangTogether, FreshStamps
  <2>2. \A t \in RuleTables : \A row \in db'[t] : row.stamp < nextStamp
    BY <1>0 DEF RowsHangTogether, FreshStamps
  <2>2a. \A t \in RuleTables : \A row \in db'[t] : row.stamp \in Nat
    BY <1>0 DEF TypeOK, RuleTables, Issue, Evidence, Execution
  <2>3. \A v \in Workers, t \in RuleTables : \A s \in job'[v].gone[t] : s < nextStamp
    BY <1>0 DEF RowsHangTogether, FreshStamps
  <2>3a. \A v \in Workers, t \in RuleTables : \A s \in job'[v].gone[t] : s \in Nat
    BY <1>0 DEF Job, RuleTables, Tables, ResetTables
  <2>4. ASSUME NEW v \in Workers, Unwritten(v)', NEW u \in Workers \ {v}, Unwritten(u)'
        PROVE  job'[u].stamp # job'[v].stamp
    BY <1>0, <2>4 DEF RowsHangTogether, FreshStamps, Unwritten
  <2>5. ASSUME NEW v \in Workers, Unwritten(v)', NEW t \in RuleTables
        PROVE  /\ \A row \in db'[t] : row.stamp # job'[v].stamp
               /\ \A u \in Workers : job'[v].stamp \notin job'[u].gone[t]
    <3>1. CASE v = w
      BY <1>0, <2>2, <2>3, <3>1
    <3>2. CASE v # w
      BY <1>0, <2>5, <3>2 DEF RowsHangTogether, FreshStamps, Unwritten
    <3>3. QED BY <3>1, <3>2
  <2>6. QED
    BY <1>0, <2>1, <2>2, <2>2a, <2>3, <2>3a, <2>4, <2>5 DEF FreshStamps
<1>2. OrderedReset'
  <2>1. \A v \in Workers \ {w} : OrderedJob(job[v])'
    BY <1>0 DEF RowsHangTogether, OrderedReset, OrderedJob
  <2>2. OrderedJob(job[w])'
    BY <1>0 DEF OrderedJob, RuleTables
  <2>3. QED BY <2>1, <2>2 DEF OrderedReset
<1>3. NoOrphanEvidence' /\ ExecutionsAreBacked'
  BY <1>0 DEF RowsHangTogether, NoOrphanEvidence, ExecutionsAreBacked
<1>4. QED BY <1>1, <1>2, <1>3 DEF RowsHangTogether

\* The reset's commit takes a stamp's evidence only with its execution results,
\* and its issues only with its evidence.
LEMMA RowsReset ==
    ASSUME TypeOK, RowsHangTogether, NEW w \in Workers, ResetCommit(w)
    PROVE  RowsHangTogether'
<1>0. /\ job \in [Workers -> Job]
      /\ job[w].pc = "reset_commit" /\ nextStamp' = nextStamp
      /\ job'[w].stamp = job[w].stamp /\ job'[w].pc = "normalize"
      /\ \A t \in RuleTables : job'[w].gone[t] = {}
      /\ \A v \in Workers \ {w} : job'[v] = job[v]
      /\ \A t \in RuleTables : db'[t] = {row \in db[t] : row.stamp \notin job[w].gone[t]}
  BY DEF TypeOK, ResetCommit, Survivors, Job, NothingGone, RuleTables, Tables, ResetTables
<1>1. OrderedJob(job[w])
  BY DEF RowsHangTogether, OrderedReset
<1>2. /\ \A e \in db["evidence"] :
           e.stamp \in job[w].gone["issues"] => e.stamp \in job[w].gone["evidence"]
      /\ \A x \in db["executions"] :
           x.stamp \in job[w].gone["issues"] \cup job[w].gone["evidence"]
             => x.stamp \in job[w].gone["executions"]
  BY <1>0, <1>1 DEF OrderedJob
<1>3. FreshStamps'
  <2>1. \A v \in Workers : job'[v].stamp = job[v].stamp /\ (Unwritten(v)' => Unwritten(v))
    BY <1>0 DEF Unwritten, UnwrittenSteps
  <2>2. \A t \in RuleTables : db'[t] \subseteq db[t]
    BY <1>0
  <2>3. \A v \in Workers, t \in RuleTables : job'[v].gone[t] \subseteq job[v].gone[t]
    BY <1>0
  <2>4. QED BY <1>0, <2>1, <2>2, <2>3 DEF RowsHangTogether, FreshStamps
<1>4. OrderedReset'
  <2>1. \A v \in Workers \ {w} : OrderedJob(job[v])'
    BY <1>0 DEF RowsHangTogether, OrderedReset, OrderedJob, RuleTables
  <2>2. OrderedJob(job[w])'
    BY <1>0 DEF OrderedJob
  <2>3. QED BY <2>1, <2>2 DEF OrderedReset
<1>5. NoOrphanEvidence'
  <2>1. ASSUME NEW e \in db'["evidence"] PROVE \E i \in db'["issues"] : SameIssue(i, e)
    <3>1. e \in db["evidence"] /\ e.stamp \notin job[w].gone["evidence"]
      BY <1>0 DEF RuleTables
    <3>2. PICK i \in db["issues"] : SameIssue(i, e)
      BY <3>1 DEF RowsHangTogether, NoOrphanEvidence
    <3>3. i.stamp \notin job[w].gone["issues"]
      BY <1>2, <3>1, <3>2 DEF SameIssue
    <3>4. QED BY <1>0, <3>2, <3>3 DEF RuleTables
  <2>2. QED BY <2>1 DEF NoOrphanEvidence
<1>6. ExecutionsAreBacked'
  <2>1. ASSUME NEW x \in db'["executions"]
        PROVE  /\ x \in db["executions"]
               /\ x.stamp \notin job[w].gone["executions"]
               /\ x.stamp \notin job[w].gone["evidence"]
    BY <1>0, <1>2 DEF RuleTables
  <2>2. ASSUME NEW x \in db'["executions"], NEW r \in Rules
        PROVE  \E y \in db'["executions"] : y.stamp = x.stamp /\ y.rule = r
    BY <1>0, <2>1 DEF RowsHangTogether, ExecutionsAreBacked, RuleTables
  <2>3. ASSUME NEW x \in db'["executions"], NEW i \in db'["issues"], i.stamp = x.stamp,
               NEW f \in i.chain
        PROVE  [stamp |-> i.stamp, rule |-> i.rule, file |-> f] \in db'["evidence"]
    <3>1. [stamp |-> i.stamp, rule |-> i.rule, file |-> f] \in db["evidence"]
      BY <1>0, <2>1, <2>3 DEF RowsHangTogether, ExecutionsAreBacked, RuleTables
    <3>2. QED BY <1>0, <2>1, <2>3, <3>1 DEF RuleTables
  <2>4. ASSUME NEW x \in db'["executions"], NEW e \in db'["evidence"], e.stamp = x.stamp
        PROVE  \E y \in db'["executions"] : SameIssue(y, e) /\ y.hit
    <3>1. PICK y \in db["executions"] : SameIssue(y, e) /\ y.hit
      BY <1>0, <2>1, <2>4 DEF RowsHangTogether, ExecutionsAreBacked, RuleTables
    <3>2. QED BY <1>0, <2>1, <2>4, <3>1 DEF RuleTables, SameIssue
  <2>5. QED BY <2>2, <2>3, <2>4 DEF ExecutionsAreBacked
<1>7. QED BY <1>3, <1>4, <1>5, <1>6 DEF RowsHangTogether

\* The rule engine's commit brings an audit's rows all at once.
LEMMA RowsWritten ==
    ASSUME TypeOK, RowsHangTogether, NEW w \in Workers, RuleCommit(w)
    PROVE  RowsHangTogether'
<1> DEFINE s == job[w].stamp
           f == job[w].seen
<1>0. /\ job \in [Workers -> Job] /\ f \in FactSets /\ s \in Nat
      /\ Unwritten(w) /\ s < nextStamp /\ nextStamp' = nextStamp /\ nextStamp \in Nat
      /\ job'[w] = NoJob /\ \A v \in Workers \ {w} : job'[v] = job[v]
      /\ db'["issues"] = db["issues"] \cup NewIssues(s, f)
      /\ db'["evidence"] = db["evidence"] \cup NewEvidence(s, f)
      /\ db'["executions"] = db["executions"] \cup NewExecutions(s, f)
  BY DEF TypeOK, RuleCommit, Return, Job, RowsHangTogether, FreshStamps, Unwritten,
         UnwrittenSteps, Tables, ResetTables
<1>1. /\ NoJob.stamp = 0 /\ NoJob.pc = "idle" /\ NoJob.pc \notin UnwrittenSteps
      /\ \A t \in RuleTables : NoJob.gone[t] = {}
  BY DEF NoJob, NothingGone, UnwrittenSteps, RuleTables, Tables, ResetTables
<1>2. /\ \A i \in NewIssues(s, f) : i.stamp = s /\ i.rule \in Grounded(f)
                                    /\ i.chain = Chain(f, i.rule)
      /\ \A e \in NewEvidence(s, f) : e.stamp = s /\ e.rule \in Grounded(f)
      /\ \A x \in NewExecutions(s, f) : x.stamp = s
  BY DEF NewIssues, NewEvidence, NewExecutions
<1>3. \A t \in RuleTables : /\ \A row \in db[t] : row.stamp # s
                            /\ \A v \in Workers : s \notin job[v].gone[t]
  BY <1>0 DEF RowsHangTogether, FreshStamps
<1>4. \A t \in RuleTables : \A row \in db'[t] : row \in db[t] \/ row.stamp = s
  BY <1>0, <1>2 DEF RuleTables
<1>5. FreshStamps'
  <2>1. \A v \in Workers : job'[v].stamp < nextStamp'
    BY <1>0, <1>1 DEF RowsHangTogether, FreshStamps
  <2>2. \A t \in RuleTables : \A row \in db'[t] : row.stamp < nextStamp'
    BY <1>0, <1>4 DEF RowsHangTogether, FreshStamps
  <2>3. \A v \in Workers, t \in RuleTables : \A z \in job'[v].gone[t] : z < nextStamp'
    BY <1>0, <1>1 DEF RowsHangTogether, FreshStamps
  <2>4. \A v \in Workers : Unwritten(v)' => v # w /\ Unwritten(v) /\ job'[v] = job[v]
    BY <1>0, <1>1 DEF Unwritten
  <2>5. \A v \in Workers : Unwritten(v)' =>
          \A u \in Workers \ {v} : Unwritten(u)' => job'[u].stamp # job'[v].stamp
    BY <2>4 DEF RowsHangTogether, FreshStamps
  <2>6. \A v \in Workers : Unwritten(v)' =>
          \A t \in RuleTables : \A row \in db'[t] : row.stamp # job'[v].stamp
    BY <1>0, <1>4, <2>4 DEF RowsHangTogether, FreshStamps
  <2>7. \A v \in Workers : Unwritten(v)' =>
          \A u \in Workers, t \in RuleTables : job'[v].stamp \notin job'[u].gone[t]
    BY <1>0, <1>1, <2>4 DEF RowsHangTogether, FreshStamps
  <2>8. QED BY <2>1, <2>2, <2>3, <2>5, <2>6, <2>7 DEF FreshStamps
<1>6. OrderedReset'
  <2>1. ASSUME NEW v \in Workers \ {w} PROVE OrderedJob(job[v])'
    <3>1. job'[v] = job[v] /\ OrderedJob(job[v])
      BY <1>0 DEF RowsHangTogether, OrderedReset
    <3>2. QED BY <1>3, <1>4, <3>1 DEF OrderedJob, RuleTables
  <2>2. OrderedJob(job[w])'
    BY <1>0, <1>1 DEF OrderedJob
  <2>3. QED BY <2>1, <2>2 DEF OrderedReset
<1>7. NoOrphanEvidence'
  <2>1. ASSUME NEW e \in NewEvidence(s, f)
        PROVE  \E i \in NewIssues(s, f) : SameIssue(i, e)
    <3> DEFINE i == [stamp |-> s, rule |-> e.rule, chain |-> Chain(f, e.rule),
                     status |-> "PENDING", severity |-> "HIGH"]
    <3>1. i \in NewIssues(s, f)
      BY <1>2 DEF NewIssues
    <3>2. SameIssue(i, e)
      BY <1>2 DEF SameIssue
    <3>3. QED BY <3>1, <3>2
  <2>2. QED BY <1>0, <2>1 DEF RowsHangTogether, NoOrphanEvidence
<1>8. ExecutionsAreBacked'
  <2>1. ASSUME NEW x \in db'["executions"], NEW r \in Rules
        PROVE  \E y \in db'["executions"] : y.stamp = x.stamp /\ y.rule = r
    <3>1. CASE x \in NewExecutions(s, f)
      <4>1. [stamp |-> s, rule |-> r, hit |-> Verdict[f][r].hit] \in NewExecutions(s, f)
        BY DEF NewExecutions
      <4>2. x.stamp = s
        BY <1>2, <3>1
      <4>3. QED BY <1>0, <4>1, <4>2
    <3>2. CASE x \in db["executions"]
      BY <1>0, <3>2 DEF RowsHangTogether, ExecutionsAreBacked
    <3>3. QED BY <1>0, <3>1, <3>2
  <2>2. ASSUME NEW x \in db'["executions"], NEW i \in db'["issues"], i.stamp = x.stamp,
               NEW g \in i.chain
        PROVE  [stamp |-> i.stamp, rule |-> i.rule, file |-> g] \in db'["evidence"]
    <3>1. CASE i \in NewIssues(s, f)
      <4>1. g \in Files
        BY <1>0, <1>2, <3>1, <2>2, RuleConstants DEF Chain
      <4>2. [stamp |-> i.stamp, rule |-> i.rule, file |-> g] \in NewEvidence(s, f)
        BY <1>2, <3>1, <2>2, <4>1 DEF NewEvidence
      <4>3. QED BY <1>0, <4>2
    <3>2. CASE i \in db["issues"]
      <4>1. x \in db["executions"]
        BY <1>0, <1>2, <1>3, <3>2, <2>2 DEF RuleTables
      <4>2. QED BY <1>0, <3>2, <4>1, <2>2 DEF RowsHangTogether, ExecutionsAreBacked
    <3>3. QED BY <1>0, <3>1, <3>2
  <2>3. ASSUME NEW x \in db'["executions"], NEW e \in db'["evidence"], e.stamp = x.stamp
        PROVE  \E y \in db'["executions"] : SameIssue(y, e) /\ y.hit
    <3>1. CASE e \in NewEvidence(s, f)
      <4>1. e.rule \in Rules /\ Verdict[f][e.rule].hit
        BY <1>2, <3>1 DEF Grounded
      <4>2. [stamp |-> s, rule |-> e.rule, hit |-> Verdict[f][e.rule].hit] \in NewExecutions(s, f)
        BY <4>1 DEF NewExecutions
      <4>3. QED BY <1>0, <1>2, <3>1, <4>1, <4>2 DEF SameIssue
    <3>2. CASE e \in db["evidence"]
      <4>1. x \in db["executions"]
        BY <1>0, <1>2, <1>3, <3>2, <2>3 DEF RuleTables
      <4>2. QED BY <1>0, <3>2, <4>1, <2>3 DEF RowsHangTogether, ExecutionsAreBacked
    <3>3. QED BY <1>0, <3>1, <3>2
  <2>4. QED BY <2>1, <2>2, <2>3 DEF ExecutionsAreBacked
<1>9. QED BY <1>5, <1>6, <1>7, <1>8 DEF RowsHangTogether

\* A review changes no stamp, rule or chain.
LEMMA RowsReviewed ==
    ASSUME TypeOK, RowsHangTogether, NEW w \in Workers, ReviewCommit(w)
    PROVE  RowsHangTogether'
<1>1. PICK c \in job[w].copy :
        db' = [db EXCEPT !["issues"] =
                 {IF SameIssue(i, c) THEN Reviewed(i, c, job[w].edit) ELSE i : i \in @}]
  BY DEF ReviewCommit
<1> DEFINE New(i) == IF SameIssue(i, c) THEN Reviewed(i, c, job[w].edit) ELSE i
<1>2. /\ db'["issues"] = {New(i) : i \in db["issues"]}
      /\ db'["evidence"] = db["evidence"] /\ db'["executions"] = db["executions"]
      /\ job' = [job EXCEPT ![w] = NoJob] /\ nextStamp' = nextStamp
      /\ job \in [Workers -> Job] /\ nextStamp \in Nat
  BY <1>1 DEF TypeOK, Tables, ResetTables, ReviewCommit, Return
<1>3. \A i \in db["issues"] :
        New(i).stamp = i.stamp /\ New(i).rule = i.rule /\ New(i).chain = i.chain
  <2>1. job[w].edit \in [status : Statuses, severity : Severities]
    BY <1>2 DEF Job
  <2>2. QED BY <2>1, ReviewedType DEF TypeOK
<1>4. \A j \in db'["issues"] : \E i \in db["issues"] :
        j.stamp = i.stamp /\ j.rule = i.rule /\ j.chain = i.chain
  BY <1>2, <1>3
<1>5. NoOrphanEvidence'
  <2>1. ASSUME NEW e \in db'["evidence"] PROVE \E j \in db'["issues"] : SameIssue(j, e)
    <3>1. PICK i \in db["issues"] : SameIssue(i, e)
      BY <1>2 DEF RowsHangTogether, NoOrphanEvidence
    <3>2. New(i) \in db'["issues"] /\ SameIssue(New(i), e)
      BY <1>2, <1>3, <3>1 DEF SameIssue
    <3>3. QED BY <3>2
  <2>2. QED BY <2>1 DEF NoOrphanEvidence
<1>6. ExecutionsAreBacked'
  <2>1. ASSUME NEW x \in db["executions"], NEW j \in db'["issues"], j.stamp = x.stamp,
               NEW f \in j.chain
        PROVE  [stamp |-> j.stamp, rule |-> j.rule, file |-> f] \in db["evidence"]
    BY <1>4, <2>1 DEF RowsHangTogether, ExecutionsAreBacked
  <2>2. QED BY <1>2, <2>1 DEF RowsHangTogether, ExecutionsAreBacked
<1>7. NoJob.stamp = 0 /\ NoJob.pc = "idle" /\ \A t \in RuleTables : NoJob.gone[t] = {}
  BY DEF NoJob, NothingGone, RuleTables, Tables, ResetTables
<1>8. FreshStamps'
  <2>1. /\ \A v \in Workers : job'[v].stamp < nextStamp'
        /\ \A v \in Workers, t \in RuleTables : job'[v].gone[t] \subseteq job[v].gone[t]
    <3>1. 0 < nextStamp
      BY <1>2 DEF RowsHangTogether, FreshStamps, Job
    <3>2. QED BY <1>2, <1>7, <3>1 DEF RowsHangTogether, FreshStamps
  <2>2. \A t \in RuleTables : \A row \in db'[t] : \E old \in db[t] : row.stamp = old.stamp
    BY <1>2, <1>4 DEF RuleTables
  <2>3. \A v \in Workers : Unwritten(v)' => v # w /\ Unwritten(v) /\ job'[v] = job[v]
    BY <1>2, <1>7 DEF Unwritten, UnwrittenSteps, ResetTables
  <2>4. \A t \in RuleTables : \A row \in db'[t] : row.stamp < nextStamp'
    BY <1>2, <2>2 DEF RowsHangTogether, FreshStamps
  <2>5. \A v \in Workers, t \in RuleTables : \A s \in job'[v].gone[t] : s < nextStamp'
    BY <1>2, <2>1 DEF RowsHangTogether, FreshStamps
  <2>6. \A v \in Workers : Unwritten(v)' =>
          /\ \A u \in Workers \ {v} : Unwritten(u)' => job'[u].stamp # job'[v].stamp
          /\ \A t \in RuleTables : \A row \in db'[t] : row.stamp # job'[v].stamp
          /\ \A u \in Workers, t \in RuleTables : job'[v].stamp \notin job'[u].gone[t]
    BY <2>1, <2>2, <2>3 DEF RowsHangTogether, FreshStamps
  <2>7. QED BY <2>1, <2>4, <2>5, <2>6 DEF FreshStamps
<1>9. OrderedReset'
  <2>1. ASSUME NEW v \in Workers PROVE OrderedJob(job[v])'
    BY <1>2, <1>7 DEF RowsHangTogether, OrderedReset, OrderedJob
  <2>2. QED BY <2>1 DEF OrderedReset
<1>10. QED BY <1>5, <1>6, <1>8, <1>9 DEF RowsHangTogether

-----------------------------------------------------------------------------
(* The step of the invariant, one action at a time. *)

LEMMA RowsStep == TypeOK /\ TypeOK' /\ RowsHangTogether /\ [Next]_vars => RowsHangTogether'
<1> SUFFICES ASSUME TypeOK, TypeOK', RowsHangTogether, [Next]_vars
             PROVE  RowsHangTogether'
  OBVIOUS
<1>1. ASSUME db' = db, job' = job, nextStamp' = nextStamp PROVE RowsHangTogether'
  BY <1>1 DEF RowsHangTogether, FreshStamps, Unwritten, OrderedReset, OrderedJob,
              NoOrphanEvidence, ExecutionsAreBacked
<1>2. ASSUME NEW w \in Workers, Request(w) \/ Step(w) \/ Crash(w)
      PROVE  RowsHangTogether'
  <2>0. /\ job[w] \in Job /\ job \in [Workers -> Job] /\ job'[w] \in Job
        /\ job[w].stamp < nextStamp /\ OrderedJob(job[w])
        /\ nextStamp \in Nat /\ job[w].stamp \in Nat
    BY DEF TypeOK, RowsHangTogether, FreshStamps, OrderedReset, Job
  <2>1. /\ NoJob \in Job /\ NoJob.pc \notin UnwrittenSteps /\ OrderedJob(NoJob)
        /\ NoJob.stamp = 0 /\ \A t \in RuleTables : NoJob.gone[t] = {}
    BY NoJobType DEF NoJob, NothingGone, UnwrittenSteps, OrderedJob, RuleTables, Tables,
                     ResetTables
  \* The rule tables stay as they are and w's job ends or leaves the audit.
  <2>2. ASSUME NEW j \in Job, job' = [job EXCEPT ![w] = j],
               \A t \in RuleTables : db'[t] = db[t], nextStamp' = nextStamp,
               j.stamp \in {0, job[w].stamp}, j.pc \notin UnwrittenSteps,
               \A t \in RuleTables : j.gone[t] \subseteq job[w].gone[t] \cup Stamps(t)
        PROVE  RowsHangTogether'
    <3>1. OrderedJob(j)
      BY <2>2 DEF OrderedJob, UnwrittenSteps, ResetTables
    <3>2. j.stamp < nextStamp
      BY <2>0, <2>2
    <3>3. QED BY <2>2, <3>1, <3>2, RowsKept
  <2>3. ASSUME Return(w), \A t \in RuleTables : db'[t] = db[t], nextStamp' = nextStamp
        PROVE  RowsHangTogether'
    BY <2>1, <2>2, <2>3 DEF Return
  <2>4. ASSUME NEW step \in Steps \ UnwrittenSteps, Goto(w, step),
               \A t \in RuleTables : db'[t] = db[t], nextStamp' = nextStamp
        PROVE  RowsHangTogether'
    <3> DEFINE j == [job[w] EXCEPT !.pc = step]
    <3>1. /\ j \in Job /\ j.stamp = job[w].stamp /\ j.pc = step /\ j.gone = job[w].gone
          /\ job' = [job EXCEPT ![w] = j]
      BY <2>0, <2>4 DEF Job, Goto
    <3>2. QED BY <2>2, <2>4, <3>1
  <2>5. CASE StartAudit(w)
    BY <2>5, RowsBegin DEF StartAudit, AfterDelete, Steps, ResetTables
  <2>6. CASE StartNormalize(w)
    BY <2>6, RowsBegin DEF StartNormalize, Steps
  <2>7. CASE StartReport(w)
    BY <2>7, RowsBegin DEF StartReport, Steps
  <2>8. CASE StartReview(w)
    <3>1. PICK i \in db["issues"], s \in Statuses, v \in Severities :
            job' = [job EXCEPT ![w] = [NoJob EXCEPT !.pc = "review_commit", !.copy = {i},
                                         !.edit = [status |-> s, severity |-> v]]]
      BY <2>8 DEF StartReview
    <3> DEFINE j == [NoJob EXCEPT !.pc = "review_commit", !.copy = {i},
                                  !.edit = [status |-> s, severity |-> v]]
    <3>2. /\ j.stamp = NoJob.stamp /\ j.gone = NoJob.gone /\ j.pc = "review_commit"
          /\ j = job'[w]
      BY <2>0, <2>1, <3>1 DEF Job
    <3>3. QED
      BY <2>0, <2>1, <2>2, <2>8, <3>1, <3>2 DEF StartReview, UnwrittenSteps, ResetTables
  <2>9. CASE ResetStatement(w)
    <3> DEFINE t == job[w].pc
               j == [job[w] EXCEPT !.gone[t] = Stamps(t), !.pc = AfterDelete[t]]
    <3>1. /\ t \in ResetTables /\ t \in Tables /\ Unwritten(w)
          /\ db' = db /\ nextStamp' = nextStamp
          /\ job' = [job EXCEPT ![w] = j]
      BY <2>0, <2>9 DEF ResetStatement, Delete, Unwritten, UnwrittenSteps, Tables
    <3>2. /\ j = job'[w] /\ j \in Job /\ j.stamp = job[w].stamp /\ j.pc = AfterDelete[t]
          /\ j.gone = [job[w].gone EXCEPT ![t] = Stamps(t)]
          /\ j.gone[t] = Stamps(t)
          /\ \A u \in Tables \ {t} : j.gone[u] = job[w].gone[u]
      BY <2>0, <3>1 DEF Job
    <3>3. \A u \in RuleTables : j.gone[u] \subseteq job[w].gone[u] \cup Stamps(u)
      BY <3>2 DEF RuleTables, Tables, ResetTables
    <3>4. OrderedJob(j)
      <4>1. CASE t = "issues"
        BY <3>2, <4>1 DEF OrderedJob, AfterDelete
      <4>2. CASE t = "evidence"
        BY <3>2, <4>2 DEF OrderedJob, AfterDelete, Stamps
      <4>3. CASE t = "executions"
        BY <2>0, <3>2, <4>3 DEF OrderedJob, AfterDelete, Stamps, Tables, ResetTables
      <4>4. CASE t = "reports"
        BY <2>0, <3>2, <4>4 DEF OrderedJob, AfterDelete, Tables, ResetTables
      <4>5. QED BY <3>1, <4>1, <4>2, <4>3, <4>4 DEF ResetTables
    <3>5. QED BY <2>0, <3>1, <3>2, <3>3, <3>4, RowsKept
  <2>10. CASE ResetCommit(w)
    BY <2>10, RowsReset
  <2>11. CASE NormalizeDelete(w) \/ NormalizeSelect(w)
    <3> DEFINE j == job'[w]
    <3>1. /\ job' = [job EXCEPT ![w] = j] /\ db' = db /\ nextStamp' = nextStamp
          /\ j.stamp = job[w].stamp /\ j.pc \in {"normalize_select", "normalize_commit"}
          /\ \A t \in RuleTables : j.gone[t] = job[w].gone[t]
          /\ Unwritten(w)
      <4>1. CASE NormalizeDelete(w)
        BY <2>0, <4>1 DEF NormalizeDelete, Delete, Job, RuleTables, Tables, ResetTables,
                          Unwritten, UnwrittenSteps
      <4>2. CASE NormalizeSelect(w)
        BY <2>0, <4>2 DEF NormalizeSelect, Job, Unwritten, UnwrittenSteps
      <4>3. QED BY <2>11, <4>1, <4>2
    <3>2. OrderedJob(j)
      BY <3>1 DEF OrderedJob
    <3>3. QED BY <2>0, <3>1, <3>2, RowsKept
  <2>12. CASE NormalizeCommit(w)
    <3>1. \A t \in RuleTables : db'[t] = db[t]
      BY <2>12 DEF NormalizeCommit, RuleTables, TypeOK, Tables, ResetTables
    <3>2. CASE ~ job[w].audit
      BY <2>3, <2>12, <3>1, <3>2 DEF NormalizeCommit
    <3>3. CASE job[w].audit
      <4> DEFINE j == [job[w] EXCEPT !.gone = NothingGone, !.pc = "rules"]
      <4>1. /\ job' = [job EXCEPT ![w] = j] /\ nextStamp' = nextStamp
            /\ j = job'[w] /\ j.stamp = job[w].stamp /\ j.pc = "rules"
            /\ \A t \in RuleTables : j.gone[t] = {}
            /\ Unwritten(w)
        BY <2>0, <2>12, <3>3 DEF NormalizeCommit, Job, NothingGone, RuleTables, Tables,
                                 ResetTables, Unwritten, UnwrittenSteps
      <4>2. OrderedJob(j)
        BY <4>1 DEF OrderedJob
      <4>3. QED BY <2>0, <3>1, <4>1, <4>2, RowsKept
    <3>4. QED BY <3>2, <3>3
  <2>13. CASE RuleCommit(w)
    BY <2>13, RowsWritten
  <2>14. CASE ReportDelete(w)
    <3> DEFINE j == [job[w] EXCEPT !.gone["reports"] = Stamps("reports"),
                                   !.pc = "report_select"]
    <3>1. /\ job' = [job EXCEPT ![w] = j] /\ db' = db /\ nextStamp' = nextStamp
          /\ j = job'[w] /\ j.stamp = job[w].stamp /\ j.pc = "report_select"
          /\ \A t \in RuleTables : j.gone[t] = job[w].gone[t]
      BY <2>0, <2>14 DEF ReportDelete, Delete, Job, RuleTables, Tables, ResetTables
    <3>2. QED BY <2>0, <2>2, <3>1 DEF UnwrittenSteps, ResetTables
  <2>15. CASE ReportSelect(w)
    <3> DEFINE j == [job[w] EXCEPT !.copy = db["issues"], !.pc = "report_commit"]
    <3>1. /\ job' = [job EXCEPT ![w] = j] /\ db' = db /\ nextStamp' = nextStamp
          /\ j = job'[w] /\ j.stamp = job[w].stamp /\ j.pc = "report_commit"
          /\ j.gone = job[w].gone
      BY <2>0, <2>15 DEF ReportSelect, Job
    <3>2. QED BY <2>0, <2>2, <3>1 DEF UnwrittenSteps, ResetTables
  <2>16. CASE ReportCommit(w)
    <3>1. \A t \in RuleTables : db'[t] = db[t]
      BY <2>16 DEF ReportCommit, RuleTables, TypeOK, Tables, ResetTables
    <3>2. "report_refresh" \in Steps \ UnwrittenSteps
      BY DEF Steps, UnwrittenSteps, ResetTables
    <3>3. QED BY <2>3, <2>4, <2>16, <3>1, <3>2 DEF ReportCommit
  <2>17. CASE ReportRefresh(w)
    <3>1. "export" \in Steps \ UnwrittenSteps
      BY DEF Steps, UnwrittenSteps, ResetTables
    <3>2. QED BY <2>3, <2>4, <2>17, <3>1 DEF ReportRefresh
  <2>18. CASE Export(w)
    <3>1. "link" \in Steps \ UnwrittenSteps
      BY DEF Steps, UnwrittenSteps, ResetTables
    <3>2. QED BY <2>4, <2>18, <3>1 DEF Export
  <2>19. CASE Link(w)
    BY <2>3, <2>19 DEF Link, RuleTables
  <2>20. CASE ReviewCommit(w)
    BY <2>20, RowsReviewed
  <2>21. CASE Crash(w)
    BY <2>3, <2>21 DEF Crash
  <2>22. QED
    BY <1>2, <2>5, <2>6, <2>7, <2>8, <2>9, <2>10, <2>11, <2>12, <2>13, <2>14, <2>15,
       <2>16, <2>17, <2>18, <2>19, <2>20, <2>21
    DEF Request, Step
<1>3. QED BY <1>1, <1>2 DEF Next, Reextract, vars

\* The rows of issues, evidence and execution results hang together at every
\* moment, whatever audits, reports, reviews and crashes interleave.
THEOREM RowsInvariant == Spec => []RowsHangTogether
<1>1. Init => RowsHangTogether
  BY DEF Init, RowsHangTogether, FreshStamps, Unwritten, UnwrittenSteps, OrderedReset,
         OrderedJob, NoOrphanEvidence, ExecutionsAreBacked, NoJob, NothingGone,
         RuleTables, Tables, ResetTables
<1>2. QED BY <1>1, RowsStep, TypeCorrect, PTL DEF Spec

\* Evidence never outlives its issue: the order of the reset's DELETEs suffices.
THEOREM EvidenceHasIssue == Spec => []NoOrphanEvidence
<1>1. RowsHangTogether => NoOrphanEvidence
  BY DEF RowsHangTogether
<1>2. QED BY <1>1, RowsInvariant, PTL

\* While an audit's execution results are there, they are complete and the
\* issues and evidence of that audit agree with them.
THEOREM ExecutionsBacked == Spec => []ExecutionsAreBacked
<1>1. RowsHangTogether => ExecutionsAreBacked
  BY DEF RowsHangTogether
<1>2. QED BY <1>1, RowsInvariant, PTL

-----------------------------------------------------------------------------
(* At most one report: the unique batch_id together with the DELETE. *)

LEMMA OneReportStep == TypeOK /\ AtMostOneReport /\ [Next]_vars => AtMostOneReport'
<1> SUFFICES ASSUME TypeOK, AtMostOneReport, [Next]_vars PROVE AtMostOneReport'
  OBVIOUS
<1>1. ASSUME db'["reports"] \subseteq db["reports"] PROVE AtMostOneReport'
  BY <1>1 DEF AtMostOneReport
<1>2. ASSUME NEW w \in Workers, ReportCommit(w) PROVE AtMostOneReport'
  BY <1>1, <1>2 DEF ReportCommit, AtMostOneReport, TypeOK, Tables, ResetTables
<1>3. ASSUME NEW w \in Workers, Link(w) PROVE AtMostOneReport'
  BY <1>3 DEF Link, AtMostOneReport, TypeOK, Tables, ResetTables
<1>4. ASSUME NEW w \in Workers, ResetCommit(w) PROVE AtMostOneReport'
  BY <1>1, <1>4 DEF ResetCommit, Survivors, Tables, ResetTables
<1>5. ASSUME NEW w \in Workers, RuleCommit(w) \/ NormalizeCommit(w) \/ ReviewCommit(w)
      PROVE  AtMostOneReport'
  <2>1. db'["reports"] = db["reports"]
    BY <1>5 DEF RuleCommit, NormalizeCommit, ReviewCommit, TypeOK, Tables, ResetTables
  <2>2. QED BY <1>1, <2>1
<1>6. ASSUME NEW w \in Workers,
             \/ Request(w) \/ Crash(w) \/ ResetStatement(w)
             \/ NormalizeDelete(w) \/ NormalizeSelect(w)
             \/ ReportDelete(w) \/ ReportSelect(w) \/ ReportRefresh(w) \/ Export(w)
      PROVE  db' = db
  BY <1>6 DEF Request, StartAudit, StartNormalize, StartReport, Begin, StartReview, Crash,
              ResetStatement, NormalizeDelete, NormalizeSelect, ReportDelete, ReportSelect,
              ReportRefresh, Export
<1>7. QED
  BY <1>1, <1>2, <1>3, <1>4, <1>5, <1>6 DEF Next, Step, Reextract, vars

\* A batch never has two reports, however many report and audit jobs race.
THEOREM OneReport == Spec => []AtMostOneReport
<1>1. Init => AtMostOneReport
  BY DEF Init, AtMostOneReport, Tables, ResetTables
<1>2. QED BY <1>1, OneReportStep, TypeCorrect, PTL DEF Spec

-----------------------------------------------------------------------------
(* When clients wait for each job (Overlap = FALSE), the job that runs knows   *)
(* the tables: nobody else has changed them since its last statement.          *)

\* At most one job runs.
Alone == \A v, w \in Workers : job[v].pc # "idle" /\ job[w].pc # "idle" => v = w

\* What the job of w knows of the tables and of the workbook: its reset dooms
\* all the rows that its DELETEs have seen, an audit past its reset meets empty
\* tables, a review has loaded a present row, a report is made of the present
\* issues, is the only one, and has its workbook.
Knows(w) ==
    /\ job[w].pc \in {"evidence", "executions", "reports", "reset_commit"} =>
         Stamps("issues") \subseteq job[w].gone["issues"]
    /\ job[w].pc \in {"executions", "reports", "reset_commit"} =>
         Stamps("evidence") \subseteq job[w].gone["evidence"]
    /\ job[w].pc \in {"reports", "reset_commit"} =>
         Stamps("executions") \subseteq job[w].gone["executions"]
    /\ job[w].pc = "reset_commit" => Stamps("reports") \subseteq job[w].gone["reports"]
    /\ job[w].pc \in {"normalize", "normalize_select", "normalize_commit"} /\ job[w].audit =>
         \A t \in ResetTables : db[t] = {}
    /\ job[w].pc = "rules" => \A t \in ResetTables : db[t] = {}
    /\ job[w].pc = "review_commit" => job[w].copy \subseteq db["issues"]
    /\ job[w].pc = "report_commit" => job[w].copy = db["issues"]
    /\ job[w].pc \in {"report_refresh", "export", "link"} =>
         db["reports"] \subseteq {NewReport(w)}
    /\ job[w].pc = "link" =>
         excel = {[stamp |-> job[w].stamp, items |-> Listed(job[w].copy)]}

\* The issues are those of one audit: a rule has at most one.
OneIssuePerRule == \A i, k \in db["issues"] : i.rule = k.rule => i = k

Agree == /\ EvidenceBacksIssues /\ ReportMatchesIssues /\ WorkbookMatchesReport
         /\ OneIssuePerRule

AloneInv == Alone /\ (\A w \in Workers : Knows(w)) /\ Agree

\* The list of issues, by rule, is the same for rows that differ in their
\* reviews only.
LEMMA ListedIgnoresReviews ==
    ASSUME NEW S, NEW T,
           \A i \in S : \E k \in T : SameIssue(i, k) /\ i.chain = k.chain,
           \A k \in T : \E i \in S : SameIssue(i, k) /\ i.chain = k.chain
    PROVE  {<<i.stamp, i.rule>> : i \in Listed(S)} = {<<k.stamp, k.rule>> : k \in Listed(T)}
<1>1. ManualBatch(S) <=> ManualBatch(T)
  BY DEF ManualBatch
<1>2. \A i \in Listed(S) : \E k \in Listed(T) : SameIssue(i, k)
  BY <1>1 DEF Listed, SameIssue
<1>3. \A k \in Listed(T) : \E i \in Listed(S) : SameIssue(i, k)
  BY <1>1 DEF Listed, SameIssue
<1>4. QED BY <1>2, <1>3 DEF SameIssue

\* A step of w, which runs alone: what is left to show of the invariant.
LEMMA AloneStep ==
    ASSUME TypeOK, AloneInv, ~Overlap, NEW w \in Workers, NEW j, job' = [job EXCEPT ![w] = j],
           MayStart(w) \/ job[w].pc # "idle", Knows(w)', Agree'
    PROVE  AloneInv'
<1>1. job'[w] = j /\ \A v \in Workers \ {w} : job'[v] = job[v]
  BY DEF TypeOK
<1>2. \A v \in Workers \ {w} : job[v].pc = "idle"
  BY DEF AloneInv, Alone, MayStart
<1>3. \A v \in Workers \ {w} : Knows(v)'
  BY <1>1, <1>2 DEF Knows
<1>4. Alone'
  BY <1>1, <1>2 DEF Alone
<1>5. QED BY <1>3, <1>4 DEF AloneInv

LEMMA AloneKept == TypeOK /\ AloneInv /\ ~Overlap /\ [Next]_vars => AloneInv'
<1> SUFFICES ASSUME TypeOK, AloneInv, ~Overlap, [Next]_vars PROVE AloneInv'
  OBVIOUS
<1>1. ASSUME UNCHANGED <<db, excel>> PROVE Agree'
  BY <1>1 DEF AloneInv, Agree, EvidenceBacksIssues, ReportMatchesIssues, WorkbookMatchesReport,
              OneIssuePerRule
<1>2. CASE Reextract \/ UNCHANGED vars
  <2>1. UNCHANGED <<db, excel, job>>
    BY <1>2 DEF Reextract, vars
  <2>2. \A w \in Workers : Knows(w)'
    BY <2>1 DEF AloneInv, Knows, Stamps, NewReport
  <2>3. QED BY <1>1, <2>1, <2>2 DEF AloneInv, Alone
<1>3. ASSUME NEW w \in Workers, Request(w) \/ Step(w) \/ Crash(w)
      PROVE  AloneInv'
  <2>0. job \in [Workers -> Job] /\ job[w] \in Job /\ Knows(w) /\ Agree
    BY DEF TypeOK, AloneInv
  <2>1. ASSUME Return(w), job[w].pc # "idle", Agree' PROVE AloneInv'
    <3>1. job'[w].pc = "idle" /\ job' = [job EXCEPT ![w] = NoJob]
      BY <2>0, <2>1 DEF Return, NoJob
    <3>2. Knows(w)'
      BY <3>1 DEF Knows
    <3>3. QED BY <2>1, <3>1, <3>2, AloneStep
  <2>2. ASSUME NEW audit \in BOOLEAN, NEW step \in {"issues", "normalize", "report_delete"},
               Begin(w, audit, step), step = "normalize" => ~audit
        PROVE  AloneInv'
    <3>1. /\ job' = [job EXCEPT ![w] = [NoJob EXCEPT !.pc = step, !.audit = audit,
                                                     !.stamp = nextStamp]]
          /\ MayStart(w) /\ UNCHANGED <<db, excel>>
      BY <2>2 DEF Begin
    <3>2. job'[w].pc = step /\ job'[w].audit = audit
      BY <2>0, <3>1 DEF NoJob
    <3>3. Knows(w)'
      BY <2>2, <3>2 DEF Knows
    <3>4. QED BY <1>1, <3>1, <3>3, AloneStep
  <2>3. CASE StartAudit(w)
    BY <2>2, <2>3 DEF StartAudit, AfterDelete
  <2>4. CASE StartNormalize(w)
    BY <2>2, <2>4 DEF StartNormalize
  <2>5. CASE StartReport(w)
    BY <2>2, <2>5 DEF StartReport
  <2>6. CASE StartReview(w)
    <3>1. PICK i \in db["issues"], s \in Statuses, v \in Severities :
            job' = [job EXCEPT ![w] = [NoJob EXCEPT !.pc = "review_commit", !.copy = {i},
                                         !.edit = [status |-> s, severity |-> v]]]
      BY <2>6 DEF StartReview
    <3>2. job'[w].pc = "review_commit" /\ job'[w].copy = {i} /\ db' = db
      BY <2>0, <2>6, <3>1 DEF NoJob, StartReview
    <3>3. Knows(w)'
      BY <3>1, <3>2 DEF Knows
    <3>4. QED BY <1>1, <2>6, <3>1, <3>3, AloneStep DEF StartReview
  <2>7. CASE ResetStatement(w)
    <3> DEFINE t == job[w].pc
    <3>1. /\ t \in ResetTables /\ t \in Tables /\ UNCHANGED <<db, excel>>
          /\ job' = [job EXCEPT ![w] = [job[w] EXCEPT !.gone[t] = Stamps(t),
                                                      !.pc = AfterDelete[t]]]
      BY <2>0, <2>7 DEF ResetStatement, Delete, Tables
    <3>2. /\ job'[w].pc = AfterDelete[t]
          /\ job'[w].gone = [job[w].gone EXCEPT ![t] = Stamps(t)]
          /\ \A u \in Tables : Stamps(u)' = Stamps(u)
      BY <2>0, <3>1 DEF Job, Stamps
    <3>3. t # "idle" /\ job[w].gone \in [Tables -> SUBSET Nat]
      BY <2>0, <3>1 DEF ResetTables, Job
    <3>4. Knows(w)'
      <4>1. CASE t = "issues"
        BY <3>1, <3>2, <3>3, <4>1 DEF Knows, AfterDelete
      <4>2. CASE t = "evidence"
        BY <2>0, <3>1, <3>2, <3>3, <4>2 DEF Knows, AfterDelete, Tables, ResetTables
      <4>3. CASE t = "executions"
        BY <2>0, <3>1, <3>2, <3>3, <4>3 DEF Knows, AfterDelete, Tables, ResetTables
      <4>4. CASE t = "reports"
        BY <2>0, <3>1, <3>2, <3>3, <4>4 DEF Knows, AfterDelete, Tables, ResetTables
      <4>5. QED BY <3>1, <4>1, <4>2, <4>3, <4>4 DEF ResetTables
    <3>5. QED BY <1>1, <3>1, <3>3, <3>4, AloneStep
  <2>8. CASE ResetCommit(w)
    <3>1. /\ job' = [job EXCEPT ![w] = [job[w] EXCEPT !.gone = NothingGone, !.pc = "normalize"]]
          /\ job[w].pc = "reset_commit" /\ excel' = excel
          /\ db' = [t \in Tables |-> Survivors(w, t)]
      BY <2>0, <2>8 DEF ResetCommit
    <3>2. \A t \in ResetTables : db'[t] = {}
      BY <2>0, <3>1 DEF Knows, Survivors, Stamps, Tables, ResetTables
    <3>3. Agree'
      BY <3>2 DEF Agree, EvidenceBacksIssues, ReportMatchesIssues, WorkbookMatchesReport,
                  OneIssuePerRule, ResetTables
    <3>4. job'[w].pc = "normalize"
      BY <2>0, <3>1 DEF Job
    <3>5. Knows(w)'
      BY <3>2, <3>4 DEF Knows
    <3>6. QED BY <3>1, <3>3, <3>5, AloneStep
  <2>9. CASE NormalizeDelete(w) \/ NormalizeSelect(w)
    <3>1. /\ job' = [job EXCEPT ![w] = job'[w]] /\ job'[w].audit = job[w].audit
          /\ job'[w].pc \in {"normalize_select", "normalize_commit"}
          /\ job[w].pc \in {"normalize", "normalize_select"} /\ UNCHANGED <<db, excel>>
      <4>1. CASE NormalizeDelete(w)
        BY <2>0, <4>1 DEF NormalizeDelete, Delete, Job
      <4>2. CASE NormalizeSelect(w)
        BY <2>0, <4>2 DEF NormalizeSelect, Job
      <4>3. QED BY <2>9, <4>1, <4>2
    <3>2. Knows(w)'
      BY <2>0, <3>1 DEF Knows
    <3>3. QED BY <1>1, <3>1, <3>2, AloneStep
  <2>10. CASE NormalizeCommit(w)
    <3>1. /\ job[w].pc = "normalize_commit" /\ excel' = excel
          /\ \A t \in ResetTables : db'[t] = db[t]
      BY <2>10 DEF NormalizeCommit, TypeOK, Tables, ResetTables
    <3>2. Agree'
      BY <2>0, <3>1 DEF Agree, EvidenceBacksIssues, ReportMatchesIssues, WorkbookMatchesReport,
                        OneIssuePerRule, ResetTables
    <3>3. CASE job[w].audit
      <4>1. job' = [job EXCEPT ![w] = [job[w] EXCEPT !.gone = NothingGone, !.pc = "rules"]]
        BY <2>0, <2>10, <3>3 DEF NormalizeCommit
      <4>2. job'[w].pc = "rules"
        BY <2>0, <4>1 DEF Job
      <4>3. Knows(w)'
        BY <2>0, <3>1, <3>3, <4>2 DEF Knows
      <4>4. QED BY <3>1, <3>2, <4>1, <4>3, AloneStep
    <3>4. CASE ~job[w].audit
      BY <2>1, <2>10, <3>1, <3>2, <3>4 DEF NormalizeCommit
    <3>5. QED BY <3>3, <3>4
  <2>11. CASE RuleCommit(w)
    <3> DEFINE s == job[w].stamp
               f == job[w].seen
    <3>1. /\ job[w].pc = "rules" /\ excel' = excel /\ Return(w)
          /\ db'["issues"] = NewIssues(s, f) /\ db'["evidence"] = NewEvidence(s, f)
          /\ db'["reports"] = {}
      BY <2>0, <2>11 DEF RuleCommit, Knows, TypeOK, Tables, ResetTables
    <3>2. ASSUME NEW i \in NewIssues(s, f), NEW file \in Files, file \in i.chain
          PROVE  [stamp |-> i.stamp, rule |-> i.rule, file |-> file] \in NewEvidence(s, f)
      BY <3>2 DEF NewIssues, NewEvidence
    <3>3. EvidenceBacksIssues' /\ OneIssuePerRule'
      BY <3>1, <3>2 DEF EvidenceBacksIssues, OneIssuePerRule, NewIssues
    <3>4. ReportMatchesIssues' /\ WorkbookMatchesReport'
      BY <3>1 DEF ReportMatchesIssues, WorkbookMatchesReport
    <3>5. QED BY <2>1, <3>1, <3>3, <3>4 DEF Agree
  <2>12. CASE ReportDelete(w)
    <3>1. /\ job' = [job EXCEPT ![w] = [job[w] EXCEPT !.gone["reports"] = Stamps("reports"),
                                                      !.pc = "report_select"]]
          /\ job[w].pc = "report_delete" /\ UNCHANGED <<db, excel>>
      BY <2>0, <2>12 DEF ReportDelete, Delete
    <3>2. job'[w].pc = "report_select"
      BY <2>0, <3>1 DEF Job
    <3>3. Knows(w)'
      BY <3>2 DEF Knows
    <3>4. QED BY <1>1, <3>1, <3>3, AloneStep
  <2>13. CASE ReportSelect(w)
    <3>1. /\ job' = [job EXCEPT ![w] = [job[w] EXCEPT !.copy = db["issues"],
                                                      !.pc = "report_commit"]]
          /\ job[w].pc = "report_select" /\ UNCHANGED <<db, excel>>
      BY <2>0, <2>13 DEF ReportSelect
    <3>2. job'[w].pc = "report_commit" /\ job'[w].copy = db["issues"]
      BY <2>0, <3>1 DEF Job
    <3>3. Knows(w)'
      BY <3>1, <3>2 DEF Knows
    <3>4. QED BY <1>1, <3>1, <3>3, AloneStep
  <2>14. CASE ReportCommit(w)
    <3>1. CASE Survivors(w, "reports") = {}
      <4>1. /\ job' = [job EXCEPT ![w] = [job[w] EXCEPT !.pc = "report_refresh"]]
            /\ job[w].pc = "report_commit" /\ excel' = excel
            /\ db'["reports"] = {NewReport(w)}
            /\ db'["issues"] = db["issues"] /\ db'["evidence"] = db["evidence"]
        BY <2>0, <2>14, <3>1 DEF ReportCommit, Goto, TypeOK, Tables, ResetTables
      <4>2. /\ job'[w].pc = "report_refresh" /\ job'[w].stamp = job[w].stamp
            /\ job'[w].copy = job[w].copy /\ job[w].copy = db["issues"]
        BY <2>0, <4>1 DEF Job, Knows
      <4>3. Knows(w)'
        BY <4>1, <4>2 DEF Knows, NewReport
      <4>4. Agree'
        BY <2>0, <4>1, <4>2 DEF Agree, EvidenceBacksIssues, ReportMatchesIssues,
                                WorkbookMatchesReport, OneIssuePerRule, NewReport
      <4>5. QED BY <4>1, <4>3, <4>4, AloneStep
    <3>2. CASE Survivors(w, "reports") # {}
      BY <1>1, <2>1, <2>14, <3>2 DEF ReportCommit
    <3>3. QED BY <3>1, <3>2
  <2>15. CASE ReportRefresh(w)
    <3>1. job[w].pc = "report_refresh" /\ UNCHANGED <<db, excel>>
      BY <2>15 DEF ReportRefresh
    <3>2. CASE Goto(w, "export")
      <4>1. job' = [job EXCEPT ![w] = [job[w] EXCEPT !.pc = "export"]]
        BY <2>0, <3>2 DEF Goto
      <4>2. job'[w].pc = "export" /\ job'[w].stamp = job[w].stamp /\ job'[w].copy = job[w].copy
        BY <2>0, <4>1 DEF Job
      <4>3. Knows(w)'
        BY <2>0, <3>1, <4>2 DEF Knows, NewReport
      <4>4. QED BY <1>1, <3>1, <4>1, <4>3, AloneStep
    <3>3. QED BY <1>1, <2>1, <2>15, <3>1, <3>2 DEF ReportRefresh
  <2>16. CASE Export(w)
    <3>1. /\ job[w].pc = "export" /\ db' = db
          /\ job' = [job EXCEPT ![w] = [job[w] EXCEPT !.pc = "link"]]
          /\ excel' = {[stamp |-> job[w].stamp, items |-> Listed(job[w].copy)]}
      BY <2>0, <2>16 DEF Export, Goto
    <3>2. job'[w].pc = "link" /\ job'[w].stamp = job[w].stamp /\ job'[w].copy = job[w].copy
      BY <2>0, <3>1 DEF Job
    <3>3. Knows(w)'
      BY <2>0, <3>1, <3>2 DEF Knows, NewReport
    <3>4. \A r \in db["reports"] : ~r.linked
      BY <2>0, <3>1 DEF Knows, NewReport
    <3>5. Agree'
      BY <2>0, <3>1, <3>4 DEF Agree, EvidenceBacksIssues, ReportMatchesIssues,
                              WorkbookMatchesReport, OneIssuePerRule
    <3>6. QED BY <3>1, <3>3, <3>5, AloneStep
  <2>17. CASE Link(w)
    <3>1. /\ job[w].pc = "link" /\ excel' = excel /\ Return(w)
          /\ db'["issues"] = db["issues"] /\ db'["evidence"] = db["evidence"]
          /\ db'["reports"] = {[r EXCEPT !.linked = r.linked \/ r.stamp = job[w].stamp] :
                                 r \in db["reports"]}
      BY <2>17 DEF Link, TypeOK, Tables, ResetTables
    <3>2. \A r \in db'["reports"] : \E old \in db["reports"] :
             r.stamp = old.stamp /\ r.items = old.items
      BY <3>1 DEF TypeOK, Report
    <3>3. \A r \in db'["reports"] : excel = {[stamp |-> r.stamp, items |-> r.items]}
      BY <2>0, <3>1, <3>2 DEF Knows, NewReport
    <3>4. Agree'
      BY <2>0, <3>1, <3>2, <3>3 DEF Agree, EvidenceBacksIssues, ReportMatchesIssues,
                                    WorkbookMatchesReport, OneIssuePerRule
    <3>5. QED BY <2>1, <3>1, <3>4
  <2>18. CASE ReviewCommit(w)
    <3>1. PICK c \in job[w].copy :
            db' = [db EXCEPT !["issues"] =
                     {IF SameIssue(i, c) THEN Reviewed(i, c, job[w].edit) ELSE i : i \in @}]
      BY <2>18 DEF ReviewCommit
    <3> DEFINE New(i) == IF SameIssue(i, c) THEN Reviewed(i, c, job[w].edit) ELSE i
    <3>2. job[w].edit \in [status : Statuses, severity : Severities]
      BY <2>0 DEF Job
    <3>3. \A i \in db["issues"] : /\ SameIssue(New(i), i) /\ New(i).rule = i.rule
                                 /\ New(i).chain = i.chain
      BY <3>2, ReviewedType DEF SameIssue, TypeOK
    <3>4. /\ db'["issues"] = {New(i) : i \in db["issues"]}
          /\ db'["reports"] = db["reports"] /\ db'["evidence"] = db["evidence"]
          /\ excel' = excel /\ Return(w) /\ job[w].pc # "idle"
      BY <2>18, <3>1 DEF ReviewCommit, TypeOK, Tables, ResetTables
    <3> HIDE DEF New
    <3>5. EvidenceBacksIssues' /\ OneIssuePerRule'
      BY <2>0, <3>3, <3>4 DEF Agree, EvidenceBacksIssues, OneIssuePerRule, SameIssue
    <3>6. {<<i.stamp, i.rule>> : i \in Listed(db'["issues"])}
            = {<<i.stamp, i.rule>> : i \in Listed(db["issues"])}
      <4>1. \A k \in db'["issues"] : \E i \in db["issues"] : SameIssue(k, i) /\ k.chain = i.chain
        BY <3>3, <3>4
      <4>2. \A i \in db["issues"] : \E k \in db'["issues"] : SameIssue(k, i) /\ k.chain = i.chain
        BY <3>3, <3>4
      <4>3. QED BY <4>1, <4>2, ListedIgnoresReviews
    <3>7. ReportMatchesIssues' /\ WorkbookMatchesReport'
      BY <2>0, <3>4, <3>6 DEF Agree, ReportMatchesIssues, WorkbookMatchesReport
    <3>8. QED BY <2>1, <3>4, <3>5, <3>7 DEF Agree
  <2>19. CASE Crash(w)
    BY <1>1, <2>1, <2>19 DEF Crash
  <2>20. QED
    BY <1>3, <2>3, <2>4, <2>5, <2>6, <2>7, <2>8, <2>9, <2>10, <2>11, <2>12, <2>13, <2>14,
       <2>15, <2>16, <2>17, <2>18, <2>19
    DEF Request, Step
<1>4. QED BY <1>2, <1>3 DEF Next

LEMMA AloneAlways == ~Overlap => (Spec => []AloneInv)
<1> SUFFICES ASSUME ~Overlap PROVE Spec => []AloneInv
  OBVIOUS
<1>1. Init => AloneInv
  BY DEF Init, AloneInv, Alone, Knows, Agree, NoJob, EvidenceBacksIssues, ReportMatchesIssues,
         WorkbookMatchesReport, OneIssuePerRule, Tables, ResetTables
<1>2. TypeOK /\ AloneInv /\ [Next]_vars => AloneInv'
  BY AloneKept
<1>3. QED BY <1>1, <1>2, TypeCorrect, PTL DEF Spec

\* With one job at a time, crashes included, the chain of each stored issue is
\* backed by its evidence rows (run_rule_engine, _reset_batch_audit_artifacts).
THEOREM ChainsBacked == ~Overlap => (Spec => []EvidenceBacksIssues)
<1>1. AloneInv => EvidenceBacksIssues
  BY DEF AloneInv, Agree
<1>2. QED BY <1>1, AloneAlways, PTL

\* With one job at a time a report, while there is one, lists the issues that
\* the issue list shows (generate_report and the reset).
THEOREM ReportAgrees == ~Overlap => (Spec => []ReportMatchesIssues)
<1>1. AloneInv => ReportMatchesIssues
  BY DEF AloneInv, Agree
<1>2. QED BY <1>1, AloneAlways, PTL

\* With one job at a time the workbook of a linked report is the one written
\* from its issues (build_report's two commits around export_report_excel).
THEOREM WorkbookAgrees == ~Overlap => (Spec => []WorkbookMatchesReport)
<1>1. AloneInv => WorkbookMatchesReport
  BY DEF AloneInv, Agree
<1>2. QED BY <1>1, AloneAlways, PTL

-----------------------------------------------------------------------------
(* With one job at a time an audit is idempotent. *)

LEMMA RuleCommitReplaces ==
    ASSUME TypeOK, AloneInv, NEW w \in Workers, RuleCommit(w)
    PROVE  OnlyAudit(job[w].stamp, db')
<1> DEFINE s == job[w].stamp
           f == job[w].seen
<1>1. /\ db'["issues"] = NewIssues(s, f) /\ db'["evidence"] = NewEvidence(s, f)
      /\ db'["executions"] = NewExecutions(s, f)
  BY DEF RuleCommit, AloneInv, Knows, TypeOK, Tables, ResetTables
<1>2. \A row \in NewIssues(s, f) \cup NewEvidence(s, f) \cup NewExecutions(s, f) : row.stamp = s
  BY DEF NewIssues, NewEvidence, NewExecutions
<1>3. {x.rule : x \in NewExecutions(s, f)} = Rules
  <2>1. \A x \in NewExecutions(s, f) : x.rule \in Rules
    BY DEF NewExecutions
  <2>2. ASSUME NEW r \in Rules PROVE \E x \in NewExecutions(s, f) : x.rule = r
    <3> DEFINE x == [stamp |-> s, rule |-> r, hit |-> Verdict[f][r].hit]
    <3>1. x \in NewExecutions(s, f) /\ x.rule = r
      BY DEF NewExecutions
    <3>2. QED BY <3>1
  <2>3. QED BY <2>1, <2>2
<1>4. QED BY <1>1, <1>2, <1>3 DEF OnlyAudit

\* When an audit of a client who waits answers, the tables hold its artifacts alone,
\* whatever earlier jobs left or died (run_batch_audit).
THEOREM AuditReplaces == ~Overlap => (Spec => AuditIdempotent)
<1> SUFFICES ASSUME ~Overlap PROVE Spec => AuditIdempotent
  OBVIOUS
<1>1. TypeOK /\ AloneInv /\ [Next]_vars
        => [\A w \in Workers : RuleCommit(w) => OnlyAudit(job[w].stamp, db')]_vars
  BY RuleCommitReplaces
<1>2. Spec => [](TypeOK /\ AloneInv)
  BY AloneAlways, TypeCorrect, PTL
<1>3. QED BY <1>1, <1>2, PTL DEF Spec, AuditIdempotent

-----------------------------------------------------------------------------
(* With one job at a time the jobs implement AuditBatch. *)

Finding(i) == [rule |-> i.rule, chain |-> i.chain, status |-> i.status, severity |-> i.severity]
FindingsOf(rows) == {Finding(i) : i \in rows}
Published == {FindingsOf(r.items) : r \in db["reports"]}

LEMMA FindingFields ==
    ASSUME NEW i
    PROVE  /\ Finding(i).rule = i.rule /\ Finding(i).chain = i.chain
           /\ Finding(i).status = i.status /\ Finding(i).severity = i.severity
BY DEF Finding

LEMMA FindingEdited ==
    ASSUME NEW i, NEW t, NEW u
    PROVE  [Finding(i) EXCEPT !.status = t, !.severity = u]
             = [rule |-> i.rule, chain |-> i.chain, status |-> t, severity |-> u]
<1> DEFINE R == [rule : {i.rule}, chain : {i.chain}, status : {i.status, t},
                 severity : {i.severity, u}]
           y == [Finding(i) EXCEPT !.status = t, !.severity = u]
<1>1. Finding(i) \in R
  BY DEF Finding
<1>2. y \in R /\ y.rule = i.rule /\ y.chain = i.chain /\ y.status = t /\ y.severity = u
  BY <1>1, FindingFields
<1> HIDE DEF y
<1>3. y = [rule |-> i.rule, chain |-> i.chain, status |-> t, severity |-> u]
  BY <1>2
<1>4. QED BY <1>3 DEF y

\* The filter for manual batches looks at rules and chains only.
LEMMA ListedFindings ==
    ASSUME NEW S PROVE Promise!Listed(FindingsOf(S)) = FindingsOf(Listed(S))
<1>1. Promise!ManualBatch(FindingsOf(S)) <=> ManualBatch(S)
  BY FindingFields DEF Promise!ManualBatch, ManualBatch, FindingsOf
<1>2. {i \in FindingsOf(S) : i.rule \notin Excluded} = FindingsOf({i \in S : i.rule \notin Excluded})
  BY FindingFields DEF FindingsOf
<1>3. QED BY <1>1, <1>2 DEF Promise!Listed, Listed

LEMMA PromiseStep ==
    TypeOK /\ AloneInv /\ ~Overlap /\ [Next]_vars
      => [Promise!Next]_<<FindingsOf(db["issues"]), Published>>
<1> DEFINE Goal == [Promise!Next]_<<FindingsOf(db["issues"]), Published>>
<1> SUFFICES ASSUME TypeOK, AloneInv, ~Overlap, [Next]_vars PROVE Goal
  OBVIOUS
<1>1. ASSUME db'["issues"] = db["issues"], db'["reports"] = db["reports"] PROVE Goal
  BY <1>1 DEF Published
<1>2. ASSUME NEW w \in Workers, ResetCommit(w) PROVE Goal
  <2>1. db'["issues"] = {} /\ db'["reports"] = {}
    BY <1>2 DEF ResetCommit, AloneInv, Knows, Survivors, Stamps, Tables, ResetTables
  <2>2. FindingsOf(db["issues"])' = {} /\ Published' = {}
    BY <2>1 DEF FindingsOf, Published
  <2>3. QED BY <2>2 DEF Promise!Next, Promise!Withdraw, FindingsOf, Finding, Published
<1>3. ASSUME NEW w \in Workers, RuleCommit(w) PROVE Goal
  <2> DEFINE f == job[w].seen
  <2>1. /\ db["issues"] = {} /\ db["reports"] = {} /\ db'["reports"] = {}
        /\ db'["issues"] = NewIssues(job[w].stamp, f)
        /\ f \in FactSets
    BY <1>3 DEF RuleCommit, AloneInv, Knows, TypeOK, Job, Tables, ResetTables
  <2>2. FindingsOf(NewIssues(job[w].stamp, f)) = Promise!Findings(f)
    <3>1. Promise!Grounded(f) = Grounded(f) /\ \A r : Promise!Chain(f, r) = Chain(f, r)
      BY Zenon DEF Promise!Grounded, Grounded, Promise!Cardinality, Cardinality,
                   Promise!Chain, Chain
    <3>2. \A i \in NewIssues(job[w].stamp, f) : Finding(i) \in Promise!Findings(f)
      BY <3>1 DEF Finding, NewIssues, Promise!Findings
    <3>3. ASSUME NEW x \in Promise!Findings(f)
          PROVE  \E i \in NewIssues(job[w].stamp, f) : x = Finding(i)
      <4>1. PICK r \in Grounded(f) :
              x = [rule |-> r, chain |-> Chain(f, r),
                   status |-> "PENDING", severity |-> "HIGH"]
        BY <3>1 DEF Promise!Findings
      <4> DEFINE i == [stamp |-> job[w].stamp, rule |-> r, chain |-> Chain(f, r),
                       status |-> "PENDING", severity |-> "HIGH"]
      <4>2. i \in NewIssues(job[w].stamp, f) /\ x = Finding(i)
        BY <4>1 DEF NewIssues, Finding
      <4>3. QED BY <4>2
    <3>4. QED BY <3>2, <3>3 DEF FindingsOf
  <2>3. /\ FindingsOf(db["issues"]) = {} /\ Published = {} /\ Published' = {}
        /\ FindingsOf(db["issues"])' = Promise!Findings(f)
    BY <2>1, <2>2 DEF FindingsOf, Published
  <2>4. QED BY <2>1, <2>3 DEF Promise!Next, Promise!Conclude, FindingsOf, Finding, Published
<1>4. ASSUME NEW w \in Workers, ReportCommit(w) PROVE Goal
  <2>1. CASE Survivors(w, "reports") = {}
    <3>1. /\ db'["issues"] = db["issues"] /\ db'["reports"] = {NewReport(w)}
          /\ NewReport(w).items = Listed(db["issues"])
      BY <1>4, <2>1 DEF ReportCommit, NewReport, AloneInv, Knows, TypeOK, Tables, ResetTables
    <3>2. Published' = {FindingsOf(Listed(db["issues"]))}
      BY <3>1 DEF Published
    <3>3. Published' = {Promise!Listed(FindingsOf(db["issues"]))}
      BY <3>2, ListedFindings
    <3>4. QED BY <3>1, <3>3 DEF Promise!Next, Promise!Publish, FindingsOf, Finding, Published
  <2>2. CASE Survivors(w, "reports") # {}
    BY <1>1, <1>4, <2>2 DEF ReportCommit
  <2>3. QED BY <2>1, <2>2
<1>5. ASSUME NEW w \in Workers, Link(w) PROVE Goal
  <2> DEFINE New(r) == [r EXCEPT !.linked = r.linked \/ r.stamp = job[w].stamp]
  <2>1. db'["issues"] = db["issues"] /\ db'["reports"] = {New(r) : r \in db["reports"]}
    BY <1>5 DEF Link, TypeOK, Tables, ResetTables
  <2>2. \A r \in db["reports"] : New(r).items = r.items
    BY DEF TypeOK, Report
  <2> HIDE DEF New
  <2>3. Published' = Published
    BY <2>1, <2>2 DEF Published
  <2>4. QED BY <2>1, <2>3
<1>6. ASSUME NEW w \in Workers, ReviewCommit(w) PROVE Goal
  <2>1. PICK c \in job[w].copy :
          db' = [db EXCEPT !["issues"] =
                   {IF SameIssue(i, c) THEN Reviewed(i, c, job[w].edit) ELSE i : i \in @}]
    BY <1>6 DEF ReviewCommit
  <2> DEFINE s == job[w].edit.status
             v == job[w].edit.severity
             new == Reviewed(c, c, job[w].edit)
  <2>2. /\ c \in db["issues"] /\ c \in Issue /\ db["issues"] \subseteq Issue
        /\ s \in Statuses /\ v \in Severities
    BY <1>6, <2>1 DEF ReviewCommit, AloneInv, Knows, TypeOK, Job
  <2>3. Finding(new) = [Finding(c) EXCEPT !.status = s, !.severity = v]
    <3>1. new.rule = c.rule /\ new.chain = c.chain /\ new.status = s /\ new.severity = v
      BY <2>2 DEF Reviewed, Issue
    <3>2. [Finding(c) EXCEPT !.status = s, !.severity = v]
            = [rule |-> c.rule, chain |-> c.chain, status |-> s, severity |-> v]
      BY FindingEdited
    <3>3. QED BY <3>1, <3>2 DEF Finding
  <2>4. \A i \in db["issues"] : SameIssue(i, c) <=> i = c
    BY <2>2 DEF AloneInv, Agree, OneIssuePerRule, SameIssue
  <2>5. db'["issues"] = (db["issues"] \ {c}) \cup {new} /\ db'["reports"] = db["reports"]
    BY <2>1, <2>2, <2>4 DEF TypeOK, Tables, ResetTables
  <2>6. \A i, k \in db["issues"] : Finding(i) = Finding(k) => i = k
    BY FindingFields DEF AloneInv, Agree, OneIssuePerRule
  <2> HIDE DEF new
  <2>7. FindingsOf((db["issues"] \ {c}) \cup {new})
          = (FindingsOf(db["issues"]) \ {Finding(c)}) \cup {Finding(new)}
    BY <2>2, <2>6 DEF FindingsOf
  <2>8. /\ Finding(c) \in FindingsOf(db["issues"])
        /\ FindingsOf(db["issues"])' = (FindingsOf(db["issues"]) \ {Finding(c)})
              \cup {[Finding(c) EXCEPT !.status = s, !.severity = v]}
        /\ Published' = Published
    BY <2>2, <2>3, <2>5, <2>7 DEF FindingsOf, Published
  <2>9. \E x \in FindingsOf(db["issues"]), t \in Statuses, u \in Severities :
           FindingsOf(db["issues"])' = (FindingsOf(db["issues"]) \ {x})
              \cup {[x EXCEPT !.status = t, !.severity = u]}
    BY <2>2, <2>8
  <2>10. Promise!Review
    BY <2>8, <2>9 DEF Promise!Review, FindingsOf, Finding, Published
  <2>11. QED BY <2>10 DEF Promise!Next
<1>7. ASSUME NEW w \in Workers, NormalizeCommit(w) PROVE Goal
  BY <1>1, <1>7 DEF NormalizeCommit, TypeOK, Tables, ResetTables
<1>8. ASSUME NEW w \in Workers,
             \/ Request(w) \/ Crash(w) \/ ResetStatement(w)
             \/ NormalizeDelete(w) \/ NormalizeSelect(w)
             \/ ReportDelete(w) \/ ReportSelect(w) \/ ReportRefresh(w) \/ Export(w)
      PROVE  Goal
  <2>1. db' = db
    BY <1>8 DEF Request, StartAudit, StartNormalize, StartReport, Begin, StartReview, Crash,
                ResetStatement, NormalizeDelete, NormalizeSelect, ReportDelete, ReportSelect,
                ReportRefresh, Export
  <2>2. QED BY <1>1, <2>1
<1>9. CASE Reextract \/ UNCHANGED vars
  BY <1>1, <1>9 DEF Reextract, vars
<1>10. QED
  BY <1>2, <1>3, <1>4, <1>5, <1>6, <1>7, <1>8, <1>9 DEF Next, Step

\* The audit, report and review jobs of clients who wait implement AuditBatch,
\* with crashes between the transactions of an audit or of a report.
THEOREM KeepsPromise == ~Overlap => (Spec => ImplementsPromise)
<1> SUFFICES ASSUME ~Overlap PROVE Spec => ImplementsPromise
  OBVIOUS
<1>1. Init => Promise!Init
  BY DEF Init, Promise!Init, Tables, ResetTables
<1>2. TypeOK /\ AloneInv /\ [Next]_vars => [Promise!Next]_<<FindingsOf(db["issues"]), Published>>
  BY PromiseStep
<1>3. Spec => [](TypeOK /\ AloneInv)
  BY AloneAlways, TypeCorrect, PTL
<1>4. Spec => Promise!Init /\ [][Promise!Next]_<<FindingsOf(db["issues"]), Published>>
  BY <1>1, <1>2, <1>3, PTL DEF Spec
<1>5. QED BY <1>4, PTL DEF ImplementsPromise, Promise!Spec, FindingsOf, Finding, Published
=============================================================================
