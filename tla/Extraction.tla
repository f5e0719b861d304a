----------------------------- MODULE Extraction -----------------------------
(***************************************************************************)
(* The extraction of one batch: extract_batch starts one coroutine per     *)
(* file, each looks in the result cache, asks the provider within a        *)
(* semaphore, tries to rescue a weak answer and falls back on heuristics;  *)
(* when all have a payload the job upserts one record per file.            *)
(* Classification appears as the document types it commits in between.     *)
(*                                                                         *)
(* The data of a payload is represented by where it comes from: the        *)
(* providers whose answers it merges, and the file whose name it uses.     *)
(***************************************************************************)
EXTENDS Naturals, FiniteSets, Sequences

CONSTANTS
    Files,      \* the batch's files
    Content,    \* the bytes of each file
    DocTypes,   \* document types with a schema
    Tier,       \* "low": never sent to the provider; "rescue": has a rescue prompt
    Guarded,    \* <<file, type>>: large, over the provider's threshold, not forced
    Official,   \* an official API key is configured
    Jobs,       \* HTTP requests and Celery workers that can extract
    Slots,      \* llm_extract_max_concurrency, at least 1
    MaxClock,   \* bound: extraction jobs start before this time
    Overlap     \* FALSE: a job starts when every earlier one has answered

ASSUME ExtractionConstants ==
    /\ Tier \in [DocTypes -> {"low", "plain", "rescue"}]
    /\ DOMAIN Content = Files
    /\ Guarded \subseteq Files \X DocTypes
    /\ Official \in BOOLEAN /\ Overlap \in BOOLEAN
    /\ Slots \in Nat \ {0} /\ MaxClock \in Nat

Providers == IF Official THEN {"relay", "official"} ELSE {"relay"}

\* provider_model_signatures_for_file: where a cached payload is looked for.
Candidates == IF Official THEN <<"official", "relay">> ELSE <<"relay">>

\* made: the branch of _extract_payload; by: providers whose data it merges;
\* named: the files whose name it uses.
Payload == [made : {"local", "model", "413", "error"}, by : SUBSET Providers,
            named : SUBSET Files]

\* The payload of a call that failed.
ErrorPayload == [made |-> "error", by |-> {}, named |-> {}]

NoTask == [pc |-> "none", type |-> "none", by |-> {}, meta |-> "relay",
           quality |-> "empty", payload |-> ErrorPayload]

VARIABLES
    docType,    \* FileRecord.doc_type of each file
    rows,       \* extraction records; born identifies one of a file's records
    cache,      \* files of the result cache
    job,        \* each job: is it running, and the latest record of each file as loaded
    task,       \* the coroutine of each job for each file
    clock       \* updated_at of the next commit

vars == <<docType, rows, cache, job, task, clock>>

NoJob == [pc |-> "idle", existing |-> {}]

Init ==
    /\ docType = [f \in Files |-> "none"]
    /\ rows = {} /\ cache = {}
    /\ job = [j \in Jobs |-> NoJob]
    /\ task = [j \in Jobs |-> [f \in Files |-> NoTask]]
    /\ clock = 1

-----------------------------------------------------------------------------
(* The result cache *)

\* A fault: a key without the file's content.
CachedUnder_anyContent(f, t, s) == {e \in cache : e.type = t /\ e.signature = s}

\* The key holds the content, the document type and the signature.
CachedUnder(f, t, s) ==
    {e \in cache : e.content = Content[f] /\ e.type = t /\ e.signature = s}

\* What the lookup finds: the entry of the first candidate that has one.
Cached(f, t) ==
    LET found == {k \in DOMAIN Candidates : CachedUnder(f, t, Candidates[k]) # {}}
    IN  UNION {CachedUnder(f, t, Candidates[k]) : k \in {k \in found : \A l \in found : k <= l}}

Save(f, t, s, p) ==
    cache' = (cache \ CachedUnder(f, t, s)) \cup
             {[content |-> Content[f], type |-> t, signature |-> s, payload |-> p]}

-----------------------------------------------------------------------------
(* extract_batch: start, commit *)

Latest(f) == {r \in rows : r.file = f /\ \A q \in rows : q.file = f => q.at <= r.at}

Quiet == Overlap \/ \A j \in Jobs : job[j].pc # "running"

\* A fault: files without a document type are not skipped.
Start_anyType(j) ==
    /\ Quiet /\ job[j].pc = "idle" /\ clock <= MaxClock
    /\ \E chosen \in SUBSET Files \ {{}} :
        task' = [task EXCEPT ![j] = [f \in Files |->
                   IF f \in chosen THEN [NoTask EXCEPT !.pc = "start", !.type = docType[f]]
                                  ELSE NoTask]]
    /\ job' = [job EXCEPT ![j] = [pc |-> "running", existing |->
                 {[file |-> r.file, born |-> r.born, schema |-> r.schema] :
                    r \in UNION {Latest(f) : f \in Files}}]]
    /\ UNCHANGED <<docType, rows, cache, clock>>

\* Of the files with a schema, all or those that the call's filters leave.
Start(j) ==
    /\ Quiet /\ job[j].pc = "idle" /\ clock <= MaxClock
    /\ \E chosen \in SUBSET {f \in Files : docType[f] \in DocTypes} \ {{}} :
        task' = [task EXCEPT ![j] = [f \in Files |->
                   IF f \in chosen THEN [NoTask EXCEPT !.pc = "start", !.type = docType[f]]
                                  ELSE NoTask]]
    /\ job' = [job EXCEPT ![j] = [pc |-> "running", existing |->
                 {[file |-> r.file, born |-> r.born, schema |-> r.schema] :
                    r \in UNION {Latest(f) : f \in Files}}]]
    /\ UNCHANGED <<docType, rows, cache, clock>>

Tasks(j) == {f \in Files : task[j][f].pc # "none"}

\* A fault: a loaded record is updated whatever its schema.
Upserted_anySchema(j, f) ==
    LET t == task[j][f]
        loaded == {x \in job[j].existing : x.file = f}
    IN  [file |-> f, schema |-> t.type, made |-> t.payload.made, by |-> t.payload.by,
         named |-> t.payload.named, at |-> clock,
         born |-> IF loaded = {} THEN clock ELSE (CHOOSE x \in loaded : TRUE).born]

\* The record that file f gets: the loaded one, when it has the schema of the
\* payload, or a new one.
Upserted(j, f) ==
    LET t == task[j][f]
        loaded == {x \in job[j].existing : x.file = f /\ x.schema = t.type}
    IN  [file |-> f, schema |-> t.type, made |-> t.payload.made, by |-> t.payload.by,
         named |-> t.payload.named, at |-> clock,
         born |-> IF loaded = {} THEN clock ELSE (CHOOSE x \in loaded : TRUE).born]

\* All coroutines returned: one transaction writes all the records.
Commit(j) ==
    /\ job[j].pc = "running" /\ \A f \in Tasks(j) : task[j][f].pc = "done"
    /\ rows' = {r \in rows : \A f \in Tasks(j) : r.file # f \/ r.born # Upserted(j, f).born}
                 \cup {Upserted(j, f) : f \in Tasks(j)}
    /\ clock' = clock + 1
    /\ job' = [job EXCEPT ![j] = NoJob]
    /\ task' = [task EXCEPT ![j] = [f \in Files |-> NoTask]]
    /\ UNCHANGED <<docType, cache>>

\* The process dies, or Celery's event loop cancels what a failed job left.
Stop(j) ==
    /\ job[j].pc # "idle"
    /\ job' = [job EXCEPT ![j] = NoJob]
    /\ task' = [task EXCEPT ![j] = [f \in Files |-> NoTask]]
    /\ UNCHANGED <<docType, rows, cache, clock>>

\* A classification job commits: any document types, with or without a schema.
\* The files are those whose name does not tell the type; the model's answer
\* changes when the last one was an error, or came from another model or version.
Classify ==
    /\ Quiet
    /\ docType' \in [Files -> DocTypes \cup {"unsupported_document"}] \ {docType}
    /\ UNCHANGED <<rows, cache, job, task, clock>>

-----------------------------------------------------------------------------
(* _extract_payload: one coroutine, from one await to the next *)

Become(j, f, t) == task' = [task EXCEPT ![j][f] = t]

\* The coroutine returns payload p.
Done(j, f, p) ==
    Become(j, f, [NoTask EXCEPT !.pc = "done", !.type = task[j][f].type, !.payload = p])

\* Heuristics that start from the file name, cached for the first candidate.
Heuristic(j, f, made) ==
    LET p == [made |-> made, by |-> {}, named |-> {f}]
    IN  Save(f, task[j][f].type, Candidates[1], p) /\ Done(j, f, p)

\* A cached payload, whoever it was made for.
Hit(j, f) ==
    /\ task[j][f].pc = "start"
    /\ \E e \in Cached(f, task[j][f].type) : Done(j, f, e.payload)
    /\ UNCHANGED <<docType, rows, cache, job, clock>>

\* Not sent to the provider: a low-value type, or a guarded large file.
IsLocal(f, t) == Tier[t] = "low" \/ (~Official /\ <<f, t>> \in Guarded)

\* Weak extraction, key-page strategy or filename fallback; all use the name.
Local(j, f) ==
    LET t == task[j][f].type IN
    /\ task[j][f].pc = "start" /\ Cached(f, t) = {} /\ IsLocal(f, t)
    /\ Heuristic(j, f, "local")
    /\ UNCHANGED <<docType, rows, job, clock>>

Miss(j, f) ==
    LET t == task[j][f].type IN
    /\ task[j][f].pc = "start" /\ Cached(f, t) = {} /\ ~IsLocal(f, t)
    /\ Become(j, f, [task[j][f] EXCEPT !.pc = "wait"])
    /\ UNCHANGED <<docType, rows, cache, job, clock>>

\* A fault: the rescue waits for a slot inside the slot of the first call.
InSlot_nested == {"call", "rescue_wait", "rescue"}

InSlot == {"call", "rescue"}

Acquire(j, f) ==
    /\ task[j][f].pc \in {"wait", "rescue_wait"}
    /\ Cardinality({g \in Files : task[j][g].pc \in InSlot}) < Slots
    /\ Become(j, f, [task[j][f] EXCEPT !.pc = IF @ = "wait" THEN "call" ELSE "rescue"])
    /\ UNCHANGED <<docType, rows, cache, job, clock>>

\* The coroutine of f has the provider's data d: heuristics on the name fill in
\* for data that is empty, and the payload is saved for the provider in d.meta.
Finish(j, f, d) ==
    LET p == [made |-> "model", by |-> d.by, named |-> IF d.quality = "empty" THEN {f} ELSE {}]
    IN  Save(f, d.type, d.meta, p) /\ Done(j, f, p)

\* _is_weak_extraction; only types with a rescue prompt are told apart.
IsWeak(d) == Tier[d.type] = "rescue" /\ d.quality # "full"

\* The merge of an answer of provider p into the data d.
Merged(d, p) == {[d EXCEPT !.by = @ \cup {p}, !.quality = q] : q \in {d.quality, "weak", "full"}}

\* The first answer.
Answer(j, f) ==
    /\ task[j][f].pc = "call"
    /\ \E p \in Providers, q \in {"empty", "weak", "full"} :
        LET d == [task[j][f] EXCEPT !.by = IF q = "empty" THEN {} ELSE {p},
                                    !.meta = p, !.quality = q]
        IN  IF IsWeak(d) THEN Become(j, f, [d EXCEPT !.pc = "rescue_wait"]) /\ UNCHANGED cache
                         ELSE Finish(j, f, d)
    /\ UNCHANGED <<docType, rows, job, clock>>

\* A transport error whose text contains 413, whatever it is about: the filename
\* fallback takes the answer's place, in the record and in the cache, where every
\* later job finds it before it asks.
TooLarge(j, f) ==
    /\ task[j][f].pc = "call"
    /\ Heuristic(j, f, "413")
    /\ UNCHANGED <<docType, rows, job, clock>>

\* Any other LLMProviderError: an error payload, not cached.
Failed(j, f) ==
    /\ task[j][f].pc = "call"
    /\ Done(j, f, ErrorPayload)
    /\ UNCHANGED <<docType, rows, cache, job, clock>>

\* The second call answers: data or none; or fails with a provider error.
RescueAnswer(j, f) ==
    LET old == task[j][f] IN
    /\ old.pc = "rescue"
    /\ \E d \in {old} \cup UNION {Merged([old EXCEPT !.meta = p], p) : p \in Providers} :
         IF IsWeak(d) THEN Become(j, f, [d EXCEPT !.pc = "raw"]) /\ UNCHANGED cache
                      ELSE Finish(j, f, d)
    /\ UNCHANGED <<docType, rows, job, clock>>

\* _raw_rescue_extract asks the official client, whatever its key, outside the
\* semaphore, and leaves the meta of the data alone; every failure is no data.
RawAnswer(j, f) ==
    LET old == task[j][f] IN
    /\ old.pc = "raw"
    /\ \E d \in {old} \cup UNION {Merged(old, p) : p \in Providers \ {"relay"}} : Finish(j, f, d)
    /\ UNCHANGED <<docType, rows, job, clock>>

\* An exception of another kind: gather raises, the job answers with an error
\* and writes nothing; its other coroutines go on.
Raise(j, f) ==
    /\ task[j][f].pc \in {"start", "call", "rescue", "raw"}
    /\ Become(j, f, NoTask)
    /\ job' = [job EXCEPT ![j].pc = "failed"]
    /\ UNCHANGED <<docType, rows, cache, clock>>

Step(j, f) ==
    \/ Hit(j, f) \/ Local(j, f) \/ Miss(j, f) \/ Acquire(j, f)
    \/ Answer(j, f) \/ TooLarge(j, f) \/ Failed(j, f)
    \/ RescueAnswer(j, f) \/ RawAnswer(j, f) \/ Raise(j, f)

Next ==
    \/ Classify
    \/ \E j \in Jobs : Start(j) \/ Commit(j) \/ Stop(j) \/ \E f \in Files : Step(j, f)

Spec == Init /\ [][Next]_vars

\* The event loop resumes every coroutine, and the provider's calls end.
FairSpec ==
    /\ Spec
    /\ \A j \in Jobs : WF_vars(Commit(j)) /\ \A f \in Files : WF_vars(Step(j, f))

-----------------------------------------------------------------------------
(* Correctness *)

Task == [pc : {"none", "start", "wait", "call", "rescue_wait", "rescue", "raw", "done"},
         type : DocTypes \cup {"none"}, by : SUBSET Providers, meta : {"relay", "official"},
         quality : {"empty", "weak", "full"}, payload : Payload]

Loaded == [file : Files, born : 1..clock - 1, schema : DocTypes]

\* Every variable has its type; a record is no younger than its last update, a
\* loaded one was committed before, and no task or cache entry is of a type
\* without a schema.
TypeOK ==
    /\ docType \in [Files -> DocTypes \cup {"none", "unsupported_document"}]
    /\ \A r \in rows : /\ r.file \in Files /\ r.schema \in DocTypes /\ r.born \in 1..r.at
                       /\ r.at \in 1..clock - 1 /\ r.named \subseteq Files
    /\ \A e \in cache : e.type \in DocTypes /\ e.payload \in Payload
    /\ job \in [Jobs -> [pc : {"idle", "running", "failed"}, existing : SUBSET Loaded]]
    /\ task \in [Jobs -> [Files -> Task]]
    /\ \A j \in Jobs : \A f \in Tasks(j) : task[j][f].type \in DocTypes
    /\ clock \in Nat \ {0}

\* A record uses the name of a file only if that file has the same bytes. It may
\* be another file: the cache key has no file name, so a copy gets the data made
\* from the name of the first.
DataComesFromACopy ==
    \A r \in rows : \A f \in r.named : Content[f] = Content[r.file]

\* A file keeps, for each schema, an answer it got (or what stands for one): an
\* extraction that is repeated while the provider is down finds it in the cache,
\* whichever provider it is cached for and whoever rescued it.
AnswersStick ==
    [][\A r \in rows : r.made # "error" =>
         \E q \in rows' : /\ q.file = r.file /\ q.schema = r.schema /\ q.born = r.born
                          /\ q.made # "error"]_vars

\* Every job that starts ends.
JobsEnd == \A j \in Jobs : job[j].pc = "running" ~> job[j].pc # "running"
=============================================================================
