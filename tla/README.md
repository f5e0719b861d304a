# Verification of the document audit service

This directory holds TLA+ models of the service under `src/app` and of its web
page under `src/frontend/demo-ui`, the TLC configurations that model-check them
and theorems about them that TLAPS checks. A user uploads a batch of PDF files;
the service classifies each file, extracts structured data with a language
model, normalises the data into facts, evaluates audit rules on the facts,
stores issues with evidence, and writes a report that reviewers work on.

`PROJECT.json` maps every definition to the lines it models and lists the runs,
the hazards, the findings and the theorems.

## 1. The system

| component | source | state it keeps | operations |
|---|---|---|---|
| API | `app/api/*.py` | none; a database session per request | upload, trigger classify / extract / audit / report, review, reads |
| Celery tasks | `app/tasks/pipeline_tasks.py` | none; a session per task | the same jobs, and normalisation on its own |
| Batch and storage | `app/services/batch_service.py`, `app/storage/` | `AuditBatch`, `FileRecord`, file bytes | create a batch, store files |
| Classification | `app/services/classification_service.py` | `FileRecord.doc_type` and its evidence | classify a batch, with one coroutine per file |
| Extraction | `app/services/extraction_service.py` | `ExtractionRecord` | extract a batch, with one coroutine per file |
| Result cache | `app/services/result_cache.py` | JSON files by key | load, save |
| Provider | `app/llm/adapters/gemini_provider.py`, `app/llm/gemini_client.py` | none | classify, extract: routing, retries, escalation |
| Normalisation | `app/services/normalization_service.py` | `ProjectProfile`, `PersonMaster` | compute the facts of a batch |
| Rule engine | `app/rule_engine/` | `AuditIssue`, `EvidenceItem`, `RuleExecutionResult` | evaluate the rules, store issues |
| Report | `app/reports/`, `app/services/report_service.py` | `AuditReport`, one workbook per batch | generate, export, link |
| Review | `app/api/review.py` | review fields of `AuditIssue` | store a decision |
| Evaluation | `scripts/eval_v1_real_fast.py` | none; reads issues and records | map issues to expected assertions, report hits |
| Web page | `frontend/demo-ui/src/App.tsx` | React state of the wizard | upload, run a step, run all, refresh |

The components meet in the database (PostgreSQL at READ COMMITTED, which the
repository's README expects for production-like runs; the default of
`config.py:17` is SQLite), in the cache directory and in the report
directory. The API and the workers call the same service functions; nothing in
the code (no lock, status check or idempotency key) orders two jobs of a batch.

### What is hard in it

- *Jobs that overlap.* Two requests for one batch, or a request and a task,
  interleave statement by statement. An audit is three transactions, a report
  two with a file written in between.
- *Crashes.* A job may die at any statement; what it committed stays.
- *Repetition.* Every step may be run again, in any order, with another result
  of the classification; reviews, reports and records of the earlier run remain
  or go.
- *A provider that fails.* Timeouts, transport errors, empty and malformed
  answers, two keys and three models, and a cache that must serve the answers
  again under the right signature.
- *Concurrency in one job.* The coroutines of an extraction share a semaphore,
  and one that raises fails the job while the others run on.
- *Order of rows.* Files are selected without `ORDER BY` and folded into one
  accumulator of facts.
- *Files that several processes write.* The cache directory is shared by the
  API's processes and the workers; a save goes through a temporary file whose
  name is that of the key, and a batch's files are stored before the records that
  name them are committed.
- *Callbacks.* The wizard's handlers keep the batch of the render that created
  them and set the state of whatever the page shows later.

### What makes each part correct

| component | properties |
|---|---|
| Upload | an upload that fails before its commit leaves no record; a record's bytes are those of its file |
| Classification, cache | a row quotes an answer for its own file; a file keeps its first answer while jobs are alone with the batch; a damaged entry comes only of writers in two processes; a job ends |
| Audit, report, review | an audit replaces all its earlier results; evidence belongs to an issue; a report shows the issues; the workbook is the one of the report; a review is of a present issue |
| Provider | a call ends, within a budget; official requests are the second choice; what is cached is found again |
| Extraction | answers are not lost to a failing provider, whichever provider they are cached for; data comes from the file's own bytes; a job ends |
| Normalisation and rules | verdicts do not depend on the order of rows; hits have evidence; the rules on people mean what they say; evidence names its file |
| Evaluation | the mapping is one to one and stable; hits are about the files; more issues lose no hit |
| Wizard | steps run in order; the page shows what the server did for its batch; the buttons come back |

## 2. The modules

| module | models | composed with |
|---|---|---|
| `Intake` | the upload of a batch: records, storage | extended by `Classification` |
| `ResultCache` | the files of the cache, by system call | `INSTANCE`d by `Classification` |
| `AnswerBook` | what classification promises while jobs are alone with the batch (abstract) | refined by `Classification` |
| `Classification` | classification jobs, their coroutines, on `Intake`'s batch and `ResultCache`'s files | |
| `AuditRules` | guards between a hit and an issue, the manual-batch filter | extended by the next two |
| `AuditBatch` | what the audit subsystem promises (abstract) | refined by `AuditJobs` |
| `AuditJobs` | audit, normalisation, report and review jobs, by statement and commit | `INSTANCE AuditBatch` |
| `GeminiInvoke` | one call of the provider | |
| `Extraction` | extraction jobs, their coroutines, the cache as a set of entries | |
| `RuleFacts` | classification, extraction, normalisation and rules as the data they compute | |
| `Stepper` | the web page's wizard | |
| `Evaluation` | the evaluation of a batch against expected issues | |
| `X_proofs` | the theorems about module `X` | extend `X` |
| `Induction` | lemmas on natural numbers that the proofs use: least and greatest elements, induction | extended by `Evaluation_proofs`, `RuleFacts_proofs` |
| `MC*` | the constants of the TLC runs | |

Definitions named `X_something` beside a definition `X` are faults: plausible
bugs of the code that `X` models. No specification uses them; each is there so
that a property can be seen to fail when it takes the place of `X`.

### Intake, ResultCache and Classification

`Intake` is `upload_batch` for one batch. The batch is committed first
(`CreateBatch`), then all names are checked (`Reject`, `Accept`), each file is
stored under its base name (`Store`), and one commit adds the records
(`AddRecords`). `UploadFails` is a failure at any point before that commit; the
file being written may be cut. A failure after it (the refresh of the new rows, the
response) costs the client his answer and changes no state. Two files with one base name share a storage key, and the
property says what is still true then.

`ResultCache` has one action per system call: `OpenTemp` empties or creates
`<key>.tmp`, `WriteText` writes to whatever name the open file has by then,
`Rename` moves the temporary file to the entry, whoever wrote it. `writer[w].link`
follows the open file: after another process's rename it *is* the entry, and
after a second one it is unlinked. A text is whole, empty, cut so that it is not
JSON (a miss), or cut inside a character (which `load` does not catch, so the
job fails). `OpenTemp` twice and a rename show how one save empties another's
entry; a shorter text over a longer one leaves the end of the longer.

In `Classification` a job runs in the event loop of a process, `Home[j]`: jobs of
one process share its loop, processes share the cache's files and the database.
`task[j][f]` moves from one `await` to the next: the name, the lookup, the
semaphore, the call, the save. Within a process a save is not interrupted (it has
no `await`), so the guard `Resumed` waits while any coroutine of the process saves.
`Raises` is an exception no clause catches: `gather` raises and the client has an
error, while the job's other coroutines run on and fill the cache. `Commit` is the
loop and the commit after `gather`: the UPDATE names only the columns that differ
from what the session loaded (`Updated`), so overlapping jobs can mix the columns
of two answers.

Nothing in the code holds a request back, and `Start` has no guard that does:
neither while another job of the batch runs nor while coroutines of a failed job
go on. What differs is what can be promised. `Company` is what a job finds when it
starts: `"nothing"`, coroutines that a failed job `"left"`, or a job that is
`"running"`; `beside` is the worst company in the behaviour so far, and properties
are conditional on it (`Alone`) or on all jobs being of one process
(`OneProcess`). `Stop` is the end of a process, of the event loop of a Celery task
(`asyncio.run` cancels what is left of a failed job; a request to the API leaves it
running), or of the last coroutine left. The bound `MaxStarts` counts the jobs by
the worst company. That a name tells a type (`Told`) is a constant; the scoring of
names is left out, and so are the texts sent to the model.

### AuditJobs

`db` maps each table to its committed rows; `job[w]` is what worker `w`'s
session holds. An action is one statement or one commit: the four DELETEs of
`_reset_batch_audit_artifacts` (`ResetStatement`, in the order `AfterDelete`)
and their commit, the DELETE, the SELECT and the commit of the normalisation
(`NormalizeDelete`, `NormalizeSelect`, `NormalizeCommit`), `RuleCommit` (`run_rule_engine`
adds everything in one transaction), `ReportDelete` to `Link` for
`build_report`, and the load and the commit of `review_issue`. `Crash` ends a
job at any point: the open transaction rolls back.

READ COMMITTED is modelled by what each statement sees. The rows that one
commit inserts carry one *stamp*, standing for their fresh uuids; a DELETE
dooms the stamps it saw, and its commit removes those rows only. The unique
`batch_id` of the report table makes an INSERT fail when another report was
committed since the DELETE. Facts are a value of `FactSets` that `Reextract`
changes, and `Verdict` is any function from facts to hits and evidence:
`RuleFacts` says which function the code computes. `Files` are the references that
evidence items make; those in `Usable` have a file id, and the others (the id
`"unknown"` of a person without files) are dropped after the evidence of a hit has
been counted (`Grounded`, `Chain`), so an issue may have a shorter chain than its
rule requires.

A row lock that makes one transaction wait for another is not modelled: the
waiting statement then finds its row gone or changed, an outcome the model
reaches by ordering the two commits.

### GeminiInvoke

One call of `_invoke_json` with the loop of `generate_content_with_meta` in
it. `set` holds the settings and the size of the document, `phase` why the
present client was called: the route, an escalation for the quality of an
answer, the complex model, or an escalation for an error. An action is one
outcome of a request: `Retry`, `Exhausted`, `Rejected` (a status or a body that
is an error at once), `Garbled` (a body that is not JSON, which nothing
catches), `Answered`. An escalation for quality that fails reaches the clause
for errors, which calls the parse model once more: that is why the budget of
the parse model is twice `MaxRetries`.

### Extraction

`task[j][f]` is the coroutine of file `f` in job `j`. It moves from one `await`
to the next: lookup, local heuristics, semaphore, first call, semaphore again,
rescue call, raw rescue, done. `Commit` is the loop after `gather` and its
commit, which updates the record loaded at the start when it has the same
schema and adds one otherwise. `Raise` is an exception in a coroutine: the job
fails while the others go on and fill the cache. A payload is represented by
the providers whose data it merges and the files whose names its heuristics
used. The files are those whose name does not tell the type: the others are
never reclassified. The cache is enabled, as by default, and is a set of entries
here: how its files can be damaged is the question of `Classification`.

### RuleFacts

The facts that `normalize_batch_facts` computes from the latest record of each
file, and the ten logic types of `evaluate_rule`, as operators on a sequence of
documents; the sequence is the order of an unsorted SELECT, and the properties
quantify over all orders. `Classify` and `Extract` are whole jobs here: how
they interleave is the question of `Classification` and `Extraction`. `Classify` stores what
`Classified` makes of the answers: a name that tells the type decides without
the model (one keyword gives the confidence 0.75 that is asked for), and a type
without a schema becomes `unsupported_document`. A payload is a record of the
fields that rules read, a value is a member of a small set, and the conversions
are functions that tell apart what the code tells apart: `Normal`
(`_normalize_name`, `_normalize_id`, `_normalize_role`: `i1-` and `i1` are one id), `Text`
(spaces), `Day` (dates and non-dates), `Length` and `Generic` (lists).

### Stepper

An action is a handler of `App.tsx` from one `await` to the next. A handler
that runs steps keeps `run[r].batch`, the batch of its render; the steps, flags
and lists it sets are the page's. `served` is what the server has completed for
each batch; a request that fails may have been served.

### Evaluation

`Load` reads the rows of the audit, in any order as the SELECT has none, and
reduces the gold labels to the selection of files. `Map` is one turn of the loop
over the pairs, sorted by score: the sort is stable, so equal scores keep the
order of the rows. `Report` adds the assertions that `Bridged` finds in the
extracted facts. Scores are integers in parts of `Unit`, exact for sets of up to
six elements; the ratio of two texts is a constant function, so the properties
are about any similarity of words. The accuracy of fields, the filters of the
command line and the counters are left out.

## 3. The runs

A violation run stops at its counterexample.

| run | constants and bounds | distinct states | question |
|---|---|---|---|
| `classify` | 4 uploads of two files (a telling base name once and twice, a record of safety education, a text file), 2 processes, 1 signature, `Concurrency = 0`; 3 jobs alone, or 2 in other company | 115 277 | Are uploads whole, do answers belong to their files, is the first answer kept and are entries whole while jobs are alone, do jobs end whatever another does to the cache? |
| `classify_retry` | 1 process, 3 jobs, beside nothing or beside what a failed one left | | Is the answer of a repeated request kept? No. |
| `audit_exclusive` | 1 worker, 2 rules, 2 files, 3 fact sets, 5 stamps (4 jobs that insert), 3 statuses, 2 severities, `Overlap = FALSE` | 370 154 | Do the jobs keep `AuditBatch`'s promise when clients wait, with crashes anywhere? |
| `audit_overlap` | 2 workers, 3 jobs that insert, 2 statuses, `Overlap = TRUE` | 566 584 | What holds whatever interleaves? |
| `audit_twice` | as `audit_overlap` | | Is an audit idempotent when two overlap? No. |
| `gemini_invoke` | 2 attempts per client, all settings | 18 048 | Do calls end, within budget, by the routing rules, with answers that are found again? |
| `extract_repeated` | 2 files, 2 document types, one job at a time, 2 jobs, relay only | 213 878 | Are answers kept when jobs are repeated, is the cache free of the data of files with other bytes, do jobs end? Two keys (`Official`) are covered by the theorems only |
| `rule_facts` | 3 files, one with a telling name, 5 document types, 5 sets of answers, 13 rules, 2 extractions, all 6 orders | 5 811 | Are verdicts sound, whatever the order and history? |
| `evidence_pairs` | as `rule_facts`, 1 extraction | | Does evidence name its file? No. |
| `stepper` | 2 batches, 2 handlers, one thing at a time | 27 410 | Does the wizard do what it shows? |
| `stepper_upload` | the same, uploads at any time | | Does the strict order survive? No. |
| `evaluation` | 4 possible issues in every order of up to 3, 3 assertions, 3 sets of facts, 3 selections, 2 evaluations | 269 697 | Is the mapping stable, and does a fuller audit keep the hits? |

*Why the bounds are enough.* Two workers are the fewest that race, and the race
of the audit needs no third; three jobs that insert allow an audit, a second
that races it, and a report. Two rules separate the presence rule, which hits an
empty batch without evidence, from one whose evidence is short of what it
requires and then complete. Two attempts tell a retry from a last attempt. One
slot with two coroutines is the tightest semaphore; with a document type that
has a rescue prompt both slots of a nested wait would be needed. The issue of a
rule whose second item is unusable has a chain shorter than the rule requires. In
`classify` the setting 0 must still give one slot. Two processes are the fewest
that share a temporary file, two answers of different lengths the fewest that
leave a tail, and three jobs in turn allow an answer, a failure and a repetition.
The late answer of `classify_retry` needs two files, one to fail and one to go on.
Three issues and three assertions give the greedy mapping a chain: a pair that is passed over
for another that is passed over in its turn. Three files
are the fewest with which a person can have two documents of one kind and one
of another, and the names of the three are in another order than their ids, so
that sorting both is not the identity. Two batches are what one upload during a
run needs.

`CHECK_DEADLOCK FALSE` stands where the system really stops: the bound on
stamps or jobs is reached, the provider call has returned, or the user has
nothing left to do.

### Fairness

- `GeminiInvoke`: weak fairness of `Next`. Every request has a timeout
  (`httpx` with `timeout`), so the coroutine is resumed.
- `Extraction` (`FairSpec`): weak fairness of each coroutine and of the commit.
  The event loop resumes what is ready and the provider's calls end (the run of
  `GeminiInvoke`). `Start`, `Stop` and `Classify` are the users' and are not fair.
- `Classification` (`FairSpec`): weak fairness of each job: while something of it
  is ready, the event loop of its process gives it a turn. No order among the
  coroutines of a job is assumed. `Upload`, `Start` and `Stop` are not fair.
- `Stepper`: weak fairness of `Respond`, as the server answers or the connection
  fails. Nothing is assumed of the user.

### Findings

1. `audit_twice`: `audit_service.py:14` wants an audit to be idempotent; two
   at once both delete what was committed and both insert.
2. `classify_retry`: `docs/API_SPEC.md:42` calls the classification idempotent. When
   one coroutine raises, the request fails while another goes on; the repeated
   request asks the model again, commits its answer, and the late coroutine saves
   another one over it, which the next classification shows.
3. `evidence_pairs`: the ids and the names of a person's files are sorted apart,
   so the evidence of a rule on people can pair the id of one file with the name
   of another (`docs/ARCHITECTURE.md:32-33`).
4. `stepper_upload`: `frontend/demo-ui/README.md:19` promises a strict order; an
   upload during a run lets the old handler unlock steps of the new batch.

### Observations

Behaviour that the models contain and that no document contradicts in a way a
property could compare:

- The next audit deletes the review decisions with the issues. `AuditBatch` says
  so; `docs/SECURITY.md:30` asks for an immutable audit trail.
- A transport error whose text contains 413 is cached as the filename fallback, so
  later extractions do not ask the provider again (`extraction_service.py:1088-1122`).
- The raw rescue merges data of the official API into an answer that is cached under
  the relay's signature (`extraction_service.py:981-994`).
- An issue can have fewer evidence rows than its rule requires: unusable items are
  counted (`executor.py:282`) before they are dropped.
- A copy of a file under another name gets the data that was made from the first name.
- The wizard shows the issues or the report of an earlier batch when they are loaded
  late, after an upload (`App.tsx:487`).
- Two classifications of one batch that overlap can leave a row with the type of
  one answer and the evidence of the other, and two processes that save one key
  can leave a damaged entry. If it is cut inside a character, every later job of
  the file fails until the entry is removed.
- `eval_v1_real_fast.py:623` takes the predicted keys from the expected issues
  only, so the number of false positives that the release gate bounds
  (`docs/stage_default_profile.relay50_flashlite.md:59`) is always zero.
- When two scores tie, the order of an unsorted SELECT decides which assertion
  is hit.
- Two extractions that overlap both insert a record; `app/api/files.py:32` then
  shows either.

## 4. The theorems

Every theorem is for all values of the constants that satisfy the assumption of
its module: `IntakeConstants`, `ClassificationConstants`, `RuleConstants`,
`JobConstants`, `GeminiConstants`, `ExtractionConstants`, `FactConstants`,
`StepperConstants`, `EvaluationConstants`. They give constants their types and
TLC evaluates them in the runs. What a theorem needs besides is in its statement.
The last five theorems of `AuditJobs_proofs` and `AnswersKept` assume `~Overlap`:
the jobs of a batch wait for each other (in `Extraction`, not for the coroutines
that a failed job left); the three on the wizard's batch assume
`~UploadAnytime`. `CalmCacheIsWhole` has the condition `Alone \/ OneProcess`, and
`ImplementsBook` promises something while `Alone` holds (the passing run has two
processes, so that jobs of one process are covered by the theorem); `Alone` is a condition on
the behaviour so far, not on what `Start` may do, and it fails at the first job
that is started beside another *or beside coroutines that a failed job left*. The
other theorems hold for any number of overlapping jobs, which the runs cannot
reach.

**`AuditJobs_proofs`.** `TypeCorrect` is inductive as it stands. *Evidence is
never orphaned* is not: a reset deletes what each of its statements saw, so one
must know that a doomed issue's evidence is doomed too once the evidence
DELETE has run. That holds because the rows of one audit appear at one commit
and the issues are deleted before the evidence, and it in turn needs that an
audit that has not yet committed has a stamp nobody has seen. The invariant
`RowsHangTogether` is these parts: `FreshStamps`, `OrderedReset`,
`NoOrphanEvidence`, `ExecutionsAreBacked`. `RowsInvariant` proves it; its lemmas
go by what a step does to the rows: a step that leaves the rule tables alone
(`RowsKept`), the start of a job (`RowsBegin`), a DELETE or its commit
(`RowsReset`), the rule engine's commit (`RowsWritten`), a review
(`RowsReviewed`). `EvidenceHasIssue` and `ExecutionsBacked` are its corollaries.
`OneReport` rests on the unique constraint alone. Swapping
two DELETEs of the reset breaks both the proof and the run (the faults
`AfterDelete_evidenceFirst` and `AfterDelete_executionsFirst`).

With `~Overlap`, `AloneInv` says what the one job under way knows: its reset
dooms all rows its DELETEs saw, an audit past its reset meets empty tables and
then its own profile, a review has loaded a present row, a report is made of the
present issues. From it follow `ChainsBacked`, `ReportAgrees`, `WorkbookAgrees`,
`AuditReplaces`, and `KeepsPromise`: every statement of every job, crashes
included, maps to a step of `AuditBatch` or to a stutter.

**`GeminiInvoke_proofs`.** The bound on requests needs which clients were called
before the present one: `SentInPhase` says so for each phase, and `IInv` adds
the types. `InvokeTypes`, `RequestBound` and `OfficialComesSecond` follow.
`FoundAgain` and `RelayAnswersSomething` need `AnswerInPhase`: the complex model
is called under its own flag only, and an answer that leaves from the primary
is not one that wants a second opinion. `CallsRunOut` is the safety half of
`CallEnds`: every step lowers `StepsLeft`, which is `3 * MaxRetries` at first, as
the phases come in one order and each has its own attempts.

**`Extraction_proofs`.** `IInv` adds to the types what the cache, the tasks and
the records hold: no error payload in the cache (the 413 fallback is one of the
payloads that may be there), and names of files with the entry's content only.
The types are inductive, with or without overlap. `TypeCorrect` and
`DataFromCopies` follow. `AnswersKept` is for one job at a
time: a record with an answer never turns into one without. The reason is
spread over three places, and `StickInv` names them: the answer of an answered
record is in the cache, the records that the job under way has loaded are those
of the database, and no two records of a file share a birth. So a job that
repeats an answered file hits the cache, and the commit that writes its record
writes an answer. Files may share their contents and records their schema.
`ExtractionsRunOut` is the safety half of `JobsEnd`, with any number of files,
slots and overlapping jobs: each coroutine takes six steps at most
(`CoroutinesRunOut`), and while a job has not all its payloads one of its
coroutines waits for no other (`NoneIsStuck`), because a rescue waits for its slot
after the first slot is given back.

**`Classification_proofs`.** `IntakeInv` ties the storage to the files stored so
far (`StoredTo`): each key has the bytes of the last of them with that base name.
`TypeInv` is the types (`ClassificationTypes`), with the points at which a save
has its handle. `CacheInv` says that a text, wherever it lies, is a payload for
its key, and `FilesInv` that coroutines and rows hold payloads about their file.
`WholeUploads` and `AnswersBelong` follow, for any overlap, race or crash.
For `CalmCache`, `CalmInv` says of a behaviour in which jobs are alone, or of one
process, that one coroutine at most is saving, that it writes to a temporary file
which has its own text, and that entries are whole; the two cases have one
argument, as in the first one job is under way and in the second the loop does not
leave a save. `KeepsBook` is the refinement of `AnswerBook`: while `Alone` holds,
every step is a step of the book or a stutter, and a `Start` in company is the step
`Lapse`, after which nothing is promised. `BookInv` says what the job under way
knows of its files: while it asks about one nothing is known, and what a coroutine
returns is the known answer unless asking failed; and the session's rows are those
of the database, so that a commit shows one answer in both columns. So the theorem
covers any failure and the coroutines it leaves, until a client repeats the
request beside them; `classify_retry` shows that the promise does not survive that.
`ClassificationsRunOut` is the safety half of `JobsEnd`, with overlap and races
for the cache: five steps per coroutine, and a job under way can go on itself or
waits for the save of some job of its process, which can. It rests on `TypeInv` (who has a file
open, and for which payload) and on `AllPresent`: a job under way has all its
coroutines.

**`RuleFacts_proofs`.** `RecordsAlternate`: between two records of one schema of
a file there is one of another, for any history, which is why the record that
normalisation picks is determined. The other theorems are about what recursive
functions over a list of documents compute, for lists of any length.
`Induction` has the principle in a form the provers can use (`UpTo`: a set of
naturals that has 0 and is closed under successor up to `n` has all up to `n`),
and each recursive function is first shown to exist and to satisfy its equation.
`EvidenceOfHits`: once a file has a record, a rule of any logic that hits has
evidence. `ExactPeopleRules`: `Census` says what the accumulator of people holds
after each number of documents (`CensusGrows`); the rules on people are then
what they mean. `DefectsStay` is `MoreDocuments`: a list with at least the
documents of another has at least its defects. `OrderIsIgnored` uses it both ways,
as two orders have the same documents; for the rules on people it follows from
`ExactPeopleRules` (that on roles is the exception the property makes).

**`Stepper_proofs`.** `WizardTypes` holds with uploads at any time. With one
thing at a time, `OneAtATime` says which handler runs, that its batch is the
page's, that the steps shown are in order and that buttons and handlers agree;
`StepsInOrder`, `StatusTrue` and `ListsOfBatch` follow. `HandlersEnd` is the
safety half of `RunsEnd`, and it holds with uploads at any time: a disabled
button has a handler under way, one that loads still awaits a list, and each
answer brings its handler nearer to its end.

**`Evaluation_proofs`.** `IInv`: every pair that was handled comes before every
pair to do, and one that was passed over is below the threshold or shares a side
with an assigned pair that comes before. `StableMapping` follows for any issues,
gold labels and texts; `SharedFiles` from the arithmetic of the weights: however
similar two texts, the penalty keeps the score of files apart under the
threshold. `HitsKept`, that more issues lose no hit, compares two reports. By
`ReportInv` a report's mapping is greedy in the order of its pairs (`Settled`).
Of the old pairs whose assertion is no longer assigned to as good a pair, take the
first: it lost its issue to an earlier pair, whose assertion had an earlier pair
still in the old report (the order of equal scores is the same, or none are
equal) and no longer has it, so that this pair comes first: a contradiction.

*Model-checked only:* the liveness properties (`CallEnds`, `RunsEnd`, `JobsEnd` of
`Extraction` and of `Classification`), whose fairness and ENABLED are out of the
prover's reach. What they need of the code besides fairness is proved: a measure
that every step lowers, and a state in which something can be done. That the
guards named there amount to ENABLED is read off the actions, not proved. Every
invariant, action property and refinement of a passing run has its theorem.

## 5. Plan

Done: upload, result cache, classification, extraction, provider, facts and
rules, audit jobs, wizard, evaluation, each with theorems for all its safety
properties. Next:

1. Reads of the API: `files.py:32` takes the first extraction record of a file,
   which may be one of several.
2. The release gates over the files that evaluations write
   (`scripts/stage_release_check.py`).

## 6. What is not modelled

- *Prompts, schemas, the mock provider*: static text and data.
- *Text heuristics* (names from file names, key pages, rescue parsing): only
  whose name or whose answer they use matters here.
- *Workbook layout, localisation, wording of issues.*
- *S3* (an object is stored whole or not at all: `Intake`'s torn file is the local
  disk's), `alembic` migrations, configuration loading.
- *Rule drafting and approval* (`app/api/rules.py`): approved rules are written to
  `examples/approved_rules.json`, which the rule engine never loads: it reads
  `examples/rules_v2_high_value.json`.
- *`workflow_service.py`*: a sequence of the modelled jobs, called by scripts and
  the evaluation only.
- *The rest of the evaluation*: accuracy of fields, command line, counters;
  `eval_v1_real_gemini_round2.py`, an older copy of the mapping; `stage_release_check.py`
  and the other metrics: offline arithmetic over files.
- *The wizard's filters, selection and layout.*
