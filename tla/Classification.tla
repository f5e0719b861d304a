--------------------------- MODULE Classification ---------------------------
(***************************************************************************)
(* The classification of the batch that Intake uploads: classify_batch     *)
(* starts one coroutine per record; each looks at the name, then in the    *)
(* result cache, asks the model within a semaphore and saves the answer;   *)
(* when all have a payload one commit writes the rows. A job runs in the   *)
(* event loop of a process (uvicorn, which may run several jobs at once,   *)
(* or a Celery worker); the cache's files are those of ResultCache.        *)
(***************************************************************************)
EXTENDS Intake

CONSTANTS
    Told,         \* the type that a name tells with confidence, for such names
    ModelTypes,   \* the types that the model answers with
    Length,       \* the length of the text of an answer, by type
    Canonical,    \* normalize_doc_type of each type
    Education,    \* names of records of safety education
    Supported,    \* SUPPORTED_MVP_DOC_TYPES
    Candidates,   \* the signatures under which a payload is looked for, in order
    Jobs,         \* requests and tasks that classify
    Home,         \* the process that each runs in
    Concurrency,  \* the setting llm_classify_max_concurrency
    MaxStarts     \* bound: jobs of the batch, by the company they start in

\* What a job finds at work on the batch when it starts: nothing, coroutines that
\* a failed job left behind, or a job whose client has no answer yet.
Companies == {"nothing", "left", "running"}

ASSUME ClassificationConstants ==
    /\ Length \in [ModelTypes -> Nat \ {0}]
    /\ DOMAIN Told \subseteq Names /\ DOMAIN Candidates \subseteq Nat
    /\ Concurrency \in Nat /\ MaxStarts \in [Companies -> Nat]

VARIABLES
    entry, temp, writer,   \* the result cache
    row,        \* FileRecord: the columns that a classification sets
    job,        \* each job, with the rows as its session loaded them
    task,       \* the coroutine of each job for each record
    beside,     \* the worst company that a job has been started in
    starts      \* jobs started so far

Signatures == {Candidates[i] : i \in DOMAIN Candidates}

\* How a payload came about, the type in it, and the file it is about.
Payload(how, type, name, bytes) == [how |-> how, type |-> type, name |-> name, bytes |-> bytes]

Answers == {Payload("model", t, n, b) : t \in ModelTypes, n \in Names, b \in Bytes}

Cache == INSTANCE ResultCache WITH
    Keys <- Names \X Bytes \X Signatures,
    Payloads <- Answers,
    Size <- [p \in Answers |-> Length[p.type]],
    Writers <- Jobs

vars == <<request, upload, saved, storage, records, entry, temp, writer,
          row, job, task, beside, starts>>
uploaded == <<request, upload, saved, storage, records>>
cached == <<entry, temp, writer>>
started == <<beside, starts>>

\* evidence: the payload that classification_evidence quotes, and the cache hit.
NoRow == [type |-> "none", evidence |-> {}, hit |-> FALSE]
NoTask == [pc |-> "none", payload |-> {}, hit |-> FALSE]
NoJob == [pc |-> "idle", loaded |-> <<>>]

Files == DOMAIN request
Lengths == {Len(q) : q \in Requests}
MaxFiles == CHOOSE n \in Lengths : \A k \in Lengths : k <= n

Init ==
    /\ IntakeInit /\ Cache!CacheInit
    /\ row = [f \in Files |-> NoRow]
    /\ job = [j \in Jobs |-> NoJob]
    /\ task = [j \in Jobs |-> [f \in Files |-> NoTask]]
    /\ beside = "nothing" /\ starts = 0

-----------------------------------------------------------------------------
(* classify_batch: start, commit *)

Company == IF \E j \in Jobs : job[j].pc = "running" THEN "running"
           ELSE IF \A j \in Jobs : job[j].pc = "idle" THEN "nothing" ELSE "left"

Worst(S) == IF "running" \in S THEN "running" ELSE IF "left" \in S THEN "left" ELSE "nothing"

\* Nothing holds a request back: not a job of the batch that runs, nor what is
\* left of one that failed.
Start(j) ==
    /\ upload = "done" /\ job[j].pc = "idle"
    /\ beside' = Worst({beside, Company})
    /\ starts < MaxStarts[beside'] /\ starts' = starts + 1
    /\ job' = [job EXCEPT ![j] = [pc |-> "running", loaded |-> row]]
    /\ task' = [task EXCEPT ![j] = [f \in Files |-> [NoTask EXCEPT !.pc = "start"]]]
    /\ UNCHANGED <<uploaded, cached, row>>

\* The type that a row gets: aliases, records of safety education by their name,
\* and types without a schema.
StoredType(name, type) ==
    LET t == IF type \in DOMAIN Canonical THEN Canonical[type] ELSE type
        u == IF t = "training_record" /\ name \in Education
             THEN "safety_education_training_record" ELSE t
    IN  IF u \in Supported \cup {"classification_error"} THEN u ELSE "unsupported_document"

NewRow(j, f) ==
    LET p == CHOOSE p \in task[j][f].payload : TRUE
    IN  [type |-> StoredType(records[f].name, p.type), evidence |-> {p}, hit |-> task[j][f].hit]

\* A fault: the evidence is changed in place, which the session does not notice.
Updated_inPlace(j, f) ==
    LET new == NewRow(j, f)
        old == job[j].loaded[f]
    IN  [type |-> IF new.type = old.type THEN row[f].type ELSE new.type,
         evidence |-> IF old.evidence # {} THEN row[f].evidence ELSE new.evidence,
         hit |-> IF old.evidence # {} THEN row[f].hit ELSE new.hit]

\* The UPDATE names the columns that differ from what the session loaded.
Updated(j, f) ==
    LET new == NewRow(j, f)
        old == job[j].loaded[f]
    IN  [type |-> IF new.type = old.type THEN row[f].type ELSE new.type,
         evidence |-> IF <<new.evidence, new.hit>> = <<old.evidence, old.hit>>
                      THEN row[f].evidence ELSE new.evidence,
         hit |-> IF <<new.evidence, new.hit>> = <<old.evidence, old.hit>>
                 THEN row[f].hit ELSE new.hit]

Commit(j) ==
    /\ job[j].pc = "running" /\ \A f \in Files : task[j][f].pc = "done"
    /\ row' = [f \in Files |-> Updated(j, f)]
    /\ job' = [job EXCEPT ![j] = NoJob]
    /\ task' = [task EXCEPT ![j] = [f \in Files |-> NoTask]]
    /\ UNCHANGED <<uploaded, cached, started>>

\* The process dies (each of its jobs stops in a step of its own), the event loop
\* of a Celery task ends with the task, or the last coroutine that a failed job
\* left has returned.
Stop(j) ==
    /\ job[j].pc # "idle"
    /\ job' = [job EXCEPT ![j] = NoJob]
    /\ task' = [task EXCEPT ![j] = [f \in Files |-> NoTask]]
    /\ Cache!Abandon(j)
    /\ UNCHANGED <<uploaded, entry, temp, row, started>>

-----------------------------------------------------------------------------
(* _classify_payload: one coroutine, from one await to the next *)

Become(j, f, t) == task' = [task EXCEPT ![j][f] = t]
Return(j, f, p, hit) == Become(j, f, [pc |-> "done", payload |-> {p}, hit |-> hit])

\* The event loop resumes the coroutine: none of its process is inside a save.
Resumed(j, f, pc) ==
    /\ task[j][f].pc = pc
    /\ \A i \in Jobs : Home[i] = Home[j] => writer[i].link = "closed"

\* An exception that no clause catches: gather raises, the job answers with an
\* error; its other coroutines go on.
Raises(j, f) ==
    /\ Become(j, f, NoTask)
    /\ job' = [job EXCEPT ![j].pc = "failed"]

NameTells(f) == records[f].name \in DOMAIN Told

ByName(j, f) ==
    /\ Resumed(j, f, "start") /\ NameTells(f)
    /\ LET n == records[f].name
       IN  Return(j, f, Payload("name", Told[n], n, storage[records[f].key]), FALSE)
    /\ UNCHANGED <<uploaded, cached, row, job, started>>

\* A fault: a key without the name of the file.
Key_anyName(f, s) == <<CHOOSE n \in Names : TRUE, storage[records[f].key], s>>

\* build_result_cache_key: the stored bytes, the signature and the file's name.
Key(f, s) == <<records[f].name, storage[records[f].key], s>>

\* The candidates before the first entry that is whole or cannot be decoded are
\* misses; that one decides.
Deciding(f) ==
    LET stops == {i \in DOMAIN Candidates :
                    Cache!Load(Key(f, Candidates[i])) # {} \/ Cache!Poisoned(Key(f, Candidates[i]))}
    IN  {Key(f, Candidates[i]) : i \in {i \in stops : \A k \in stops : i <= k}}

Lookup(j, f) ==
    /\ Resumed(j, f, "start") /\ ~NameTells(f)
    /\ \/ /\ Deciding(f) = {}
          /\ Become(j, f, [task[j][f] EXCEPT !.pc = "wait"]) /\ UNCHANGED job
       \/ \E k \in Deciding(f), p \in Answers :
            p \in Cache!Load(k) /\ Return(j, f, p, TRUE) /\ UNCHANGED job
       \/ (\E k \in Deciding(f) : Cache!Poisoned(k)) /\ Raises(j, f)
    /\ UNCHANGED <<uploaded, cached, row, started>>

\* A fault: the setting is taken as it is.
Slots_asSet == Concurrency
Slots == IF Concurrency < 1 THEN 1 ELSE Concurrency

Acquire(j, f) ==
    /\ Resumed(j, f, "wait")
    /\ Cardinality({g \in Files : task[j][g].pc = "call"}) < Slots
    /\ Become(j, f, [task[j][f] EXCEPT !.pc = "call"])
    /\ UNCHANGED <<uploaded, cached, row, job, started>>

\* The model answers; the payload is saved under the signature of the model that
\* gave it, before the coroutine waits again.
Answered(j, f) ==
    /\ Resumed(j, f, "call")
    /\ \E t \in ModelTypes, s \in Signatures :
         LET p == Payload("model", t, records[f].name, storage[records[f].key])
         IN  /\ Become(j, f, [pc |-> "save", payload |-> {p}, hit |-> FALSE])
             /\ Cache!OpenTemp(j, Key(f, s), p)
    /\ UNCHANGED <<uploaded, row, job, started>>

Write(j) ==
    /\ Cache!WriteText(j)
    /\ UNCHANGED <<uploaded, row, job, task, started>>

Saved(j, f) ==
    /\ task[j][f].pc = "save"
    /\ Cache!Rename(j)
    /\ Become(j, f, [task[j][f] EXCEPT !.pc = "done"])
    /\ UNCHANGED <<uploaded, row, job, started>>

\* A fault: the temporary file stays open.
SaveFails_open(j, f) ==
    /\ task[j][f].pc = "save"
    /\ Raises(j, f)
    /\ UNCHANGED <<uploaded, cached, row, started>>

\* The directory, the disk or the rename (of a file that is gone, for one) fails:
\* no clause catches an OSError.
SaveFails(j, f) ==
    /\ task[j][f].pc = "save"
    /\ Cache!Abandon(j) /\ Raises(j, f)
    /\ UNCHANGED <<uploaded, entry, temp, row, started>>

ErrorPayload(f) ==
    Payload("error", "classification_error", records[f].name, storage[records[f].key])

\* An LLMProviderError becomes a payload, which is not saved.
Failed(j, f) ==
    /\ Resumed(j, f, "call")
    /\ Return(j, f, ErrorPayload(f), FALSE)
    /\ UNCHANGED <<uploaded, cached, row, job, started>>

\* The storage cannot be read, or the provider raises another exception.
Raise(j, f) ==
    /\ Resumed(j, f, "start") \/ Resumed(j, f, "call")
    /\ Raises(j, f)
    /\ UNCHANGED <<uploaded, cached, row, started>>

Step(j, f) ==
    \/ ByName(j, f) \/ Lookup(j, f) \/ Acquire(j, f) \/ Answered(j, f)
    \/ Saved(j, f) \/ SaveFails(j, f) \/ Failed(j, f) \/ Raise(j, f)

Upload ==
    /\ IntakeNext
    /\ UNCHANGED <<cached, row, job, task, started>>

Next ==
    \/ Upload
    \/ \E j \in Jobs : Start(j) \/ Commit(j) \/ Stop(j) \/ Write(j)
                       \/ \E f \in Files : Step(j, f)

Spec == Init /\ [][Next]_vars

\* The event loop of a process runs on while something is ready, and gives each
\* job its turn; the provider's calls end. No order among coroutines is assumed.
FairSpec ==
    /\ Spec
    /\ \A j \in Jobs : WF_vars(Commit(j) \/ Write(j) \/ \E f \in Files : Step(j, f))

-----------------------------------------------------------------------------
(* Correctness *)

Types == ModelTypes \cup Supported \cup {Told[n] : n \in DOMAIN Told} \cup
         {"classification_error", "unsupported_document"}
AnyPayload == [how : {"name", "model", "error"}, type : Types, name : Names, bytes : Bytes]
AtMostOne(S) == {{}} \cup {{x} : x \in S}
Text == [state : {"absent", "empty", "whole", "garbled", "undecodable"}, size : Nat,
         payload : AtMostOne(Answers)]
Row == [type : Types \cup {"none"}, evidence : AtMostOne(AnyPayload), hit : BOOLEAN]

\* Every variable has its type; a coroutine has a payload when it has one to save
\* or to return; a save is under way where a coroutine is saving.
TypeOK ==
    /\ request \in Requests /\ beside \in Companies /\ starts \in 0..MaxStarts[beside]
    /\ upload \in {"new", "created", "storing", "rejected", "failed", "done"}
    /\ entry \in [DOMAIN entry -> Text] /\ temp \in [DOMAIN entry -> Text]
    /\ row \in [Files -> Row]
    /\ \A j \in Jobs :
         /\ job[j].pc \in {"idle", "running", "failed"}
         /\ job[j].pc # "idle" => job[j].loaded \in [Files -> Row]
         /\ (writer[j].link # "closed") = (\E f \in Files : task[j][f].pc = "save")
         /\ \A f \in Files : (task[j][f].pc \in {"save", "done"}) = (task[j][f].payload # {})

\* Whatever overlaps, dies or races for a temporary file: what a row quotes, and
\* what a coroutine returns, was answered for this name and these bytes.
AnswersAreOfTheFile ==
    \A f \in Files :
      \A p \in row[f].evidence \cup UNION {task[j][f].payload : j \in Jobs} :
        p.name = records[f].name /\ p.bytes = storage[records[f].key]

\* No job was ever started beside another or beside what a failed one left.
Alone == beside = "nothing"

OneProcess == \A i, j \in Jobs : Home[i] = Home[j]

\* Wherever a process dies in a save, no entry is ever damaged and no temporary
\* file is renamed away under its writer, as long as no job is started beside
\* another or its remains, or, however they overlap, all are of one process.
CalmCacheIsWhole ==
    Alone \/ OneProcess =>
             /\ \A k \in DOMAIN entry : entry[k].state \in {"absent", "whole"}
             /\ \A j \in Jobs : writer[j].link \in {"closed", "temp"}

\* Every job that starts ends, whatever it finds in the cache.
JobsEnd == \A j \in Jobs : job[j].pc = "running" ~> job[j].pc # "running"

\* The files that ask the model and share their key with no other.
Own(f) == Alone /\ f \in DOMAIN records /\ OnlyOne(f) /\ ~NameTells(f)

\* The answer that a lookup would find now.
Known(f) == UNION {Cache!Load(k) : k \in Deciding(f)}

Outcome(how) == Payload(how, "none", "none", "none")

\* What a row says to its reader.
Shown(f) == {IF row[f].type # StoredType(records[f].name, p.type) THEN Outcome("mixed")
               ELSE IF p.how = "error" THEN Outcome("error") ELSE p : p \in row[f].evidence}

\* One answer per file: once the model has answered, the row is that answer from
\* job to job, whatever fails, and its columns are of one answer; until a job is
\* started beside another or beside coroutines that a failed one left.
Book == INSTANCE AnswerBook WITH
    Files <- 1..MaxFiles,
    Answers <- Answers,
    Error <- Outcome("error"),
    alone <- Alone,
    known <- [f \in 1..MaxFiles |-> IF Own(f) THEN Known(f) ELSE {}],
    row <- [f \in 1..MaxFiles |-> IF Own(f) THEN Shown(f) ELSE {}]
ImplementsBook == Book!Spec

\* "Triggers classification workflow (idempotent)": the answer that the file shows
\* is shown again by every later classification, though clients repeat a request
\* that was answered with an error; they do not repeat one without an answer.
AnswersSurviveRetries ==
    [][\A f \in DOMAIN records :
         beside # "running" /\ OnlyOne(f) /\ ~NameTells(f) /\ Shown(f) \cap Answers # {}
           => Shown(f)' = Shown(f)]_vars
=============================================================================
