-------------------------- MODULE Extraction_proofs --------------------------
(***************************************************************************)
(* Theorems about Extraction, for any files, document types, providers and *)
(* number of jobs, whether or not the jobs overlap.                        *)
(***************************************************************************)
EXTENDS Extraction, Induction

\* The lookup finds an entry of the same bytes and document type.
LEMMA CachedEntry ==
    ASSUME NEW f, NEW t, NEW e \in Cached(f, t)
    PROVE  e \in cache /\ e.content = Content[f] /\ e.type = t
BY DEF Cached, CachedUnder

\* A save adds one entry.
LEMMA SavedEntry ==
    ASSUME NEW f, NEW t, NEW s, NEW p, Save(f, t, s, p), NEW e \in cache'
    PROVE  e \in cache \/ e = [content |-> Content[f], type |-> t, signature |-> s, payload |-> p]
BY DEF Save

\* The payloads that a coroutine makes or finds.
LEMMA NoTaskType == NoTask \in Task /\ ErrorPayload \in Payload
BY DEF NoTask, Task, ErrorPayload, Payload, Providers

LEMMA MetaType == Candidates[1] \in {"relay", "official"} /\ Providers \subseteq {"relay", "official"}
BY DEF Candidates, Providers

-----------------------------------------------------------------------------
(* The invariant *)

\* The data uses no name but that of a file with the bytes of f.
Copies(f, p) == \A g \in p.named : Content[g] = Content[f]

\* A cache entry that a coroutine of f may leave.
GoodEntry(e, f) ==
    /\ e.content = Content[f] /\ e.type \in DocTypes
    /\ e.payload \in Payload /\ e.payload.made # "error" /\ Copies(f, e.payload)

\* Names travel from a coroutine to the cache, from there to a coroutine of any
\* file with the same bytes, and at the commit to a record.
IInv ==
    /\ TypeOK
    /\ \A e \in cache : e.payload.made # "error"
    /\ \A e \in cache : \A g \in e.payload.named : Content[g] = e.content
    /\ \A j \in Jobs : \A f \in Files : Copies(f, task[j][f].payload)
    /\ DataComesFromACopy

LEMMA Follows == IInv => TypeOK /\ DataComesFromACopy
BY DEF IInv

LEMMA InitHolds == Init => IInv
<1> SUFFICES ASSUME Init PROVE IInv
  OBVIOUS
<1>1. task \in [Jobs -> [Files -> Task]] /\ job \in [Jobs -> [pc : {"idle", "running", "failed"}, existing : SUBSET Loaded]]
  BY NoTaskType DEF Init, NoJob
<1>2. \A j \in Jobs : \A f \in Files : task[j][f] = NoTask
  BY DEF Init
<1>3. \A j \in Jobs : Tasks(j) = {}
  BY <1>2 DEF Tasks, NoTask
<1>4. TypeOK
  BY <1>1, <1>3 DEF Init, TypeOK
<1>5. \A f \in Files : Copies(f, NoTask.payload)
  BY DEF Copies, NoTask, ErrorPayload
<1>6. QED BY <1>2, <1>4, <1>5 DEF Init, IInv, DataComesFromACopy

-----------------------------------------------------------------------------
(* The steps of a coroutine *)

\* What every step of a coroutine amounts to.
Effect(j, f) ==
    /\ \E t \in Task : /\ task' = [task EXCEPT ![j][f] = t]
                       /\ t.pc # "none" => t.type \in DocTypes
                       /\ Copies(f, t.payload)
    /\ \A e \in cache' : e \in cache \/ GoodEntry(e, f)
    /\ job' = job \/ job' = [job EXCEPT ![j].pc = "failed"]
    /\ UNCHANGED <<docType, rows, clock>>

\* A coroutine that returns.
LEMMA DoneTask ==
    ASSUME NEW j \in Jobs, NEW f \in Files, task[j][f].type \in DocTypes,
           NEW p \in Payload, Copies(f, p), Done(j, f, p)
    PROVE  \E t \in Task : /\ task' = [task EXCEPT ![j][f] = t]
                           /\ t.pc # "none" => t.type \in DocTypes
                           /\ Copies(f, t.payload)
<1> DEFINE t == [NoTask EXCEPT !.pc = "done", !.type = task[j][f].type, !.payload = p]
<1>1. t \in Task /\ t.type \in DocTypes /\ t.payload = p
  BY NoTaskType DEF Task, NoTask
<1>2. task' = [task EXCEPT ![j][f] = t]
  BY DEF Done, Become
<1>3. QED BY <1>1, <1>2

\* Heuristics on the file's own name.
LEMMA HeuristicEffect ==
    ASSUME NEW j \in Jobs, NEW f \in Files, task[j][f].type \in DocTypes,
           NEW made \in {"local", "413"}, Heuristic(j, f, made),
           UNCHANGED <<docType, rows, job, clock>>
    PROVE  Effect(j, f)
<1> DEFINE p == [made |-> made, by |-> {}, named |-> {f}]
<1>1. p \in Payload /\ p.made # "error" /\ Copies(f, p)
  BY DEF Payload, Copies
<1>2. Save(f, task[j][f].type, Candidates[1], p) /\ Done(j, f, p)
  BY DEF Heuristic
<1> HIDE DEF p
<1>3. \A e \in cache' : e \in cache \/ GoodEntry(e, f)
  BY <1>1, <1>2, SavedEntry DEF GoodEntry
<1>4. QED BY <1>1, <1>2, <1>3, DoneTask DEF Effect

\* The end of a call.
LEMMA FinishEffect ==
    ASSUME NEW j \in Jobs, NEW f \in Files, task[j][f].type \in DocTypes,
           NEW d \in Task, d.type \in DocTypes, Finish(j, f, d),
           UNCHANGED <<docType, rows, job, clock>>
    PROVE  Effect(j, f)
<1> DEFINE p == [made |-> "model", by |-> d.by, named |-> IF d.quality = "empty" THEN {f} ELSE {}]
<1>1. p \in Payload /\ p.made # "error" /\ Copies(f, p)
  BY DEF Payload, Copies, Task
<1>2. Save(f, d.type, d.meta, p) /\ Done(j, f, p)
  BY DEF Finish
<1> HIDE DEF p
<1>3. \A e \in cache' : e \in cache \/ GoodEntry(e, f)
  BY <1>1, <1>2, SavedEntry DEF GoodEntry
<1>4. QED BY <1>1, <1>2, <1>3, DoneTask DEF Effect

\* A merge keeps the type of the data.
LEMMA MergedType ==
    ASSUME NEW d \in Task, NEW p \in Providers, NEW m \in Merged(d, p)
    PROVE  m \in Task /\ m.type = d.type /\ m.payload = d.payload
<1>1. PICK q \in {d.quality, "weak", "full"} : m = [d EXCEPT !.by = @ \cup {p}, !.quality = q]
  BY DEF Merged
<1>2. d.by \cup {p} \in SUBSET Providers /\ q \in {"empty", "weak", "full"}
  BY <1>1 DEF Task
<1>3. QED BY <1>1, <1>2 DEF Task

\* A task that becomes another with the cache as it is.
LEMMA BecomeEffect ==
    ASSUME NEW j \in Jobs, NEW f \in Files, NEW t \in Task, Become(j, f, t),
           t.pc # "none" => t.type \in DocTypes, Copies(f, t.payload),
           UNCHANGED <<docType, rows, cache, clock>>,
           job' = job \/ job' = [job EXCEPT ![j].pc = "failed"]
    PROVE  Effect(j, f)
BY DEF Become, Effect

LEMMA StepEffect == ASSUME IInv, NEW j \in Jobs, NEW f \in Files, Step(j, f) PROVE Effect(j, f)
<1> DEFINE old == task[j][f]
<1>1. old \in Task /\ (old.pc # "none" => old.type \in DocTypes) /\ Copies(f, old.payload)
  BY DEF IInv, TypeOK, Tasks
<1>2. CASE Hit(j, f)
  <2>1. old.type \in DocTypes
    BY <1>1, <1>2 DEF Hit
  <2>2. PICK e \in Cached(f, old.type) : Done(j, f, e.payload)
    BY <1>2 DEF Hit
  <2>3. e \in cache /\ e.content = Content[f]
    BY <2>2, CachedEntry
  <2>4. e.payload \in Payload /\ Copies(f, e.payload)
    BY <2>3 DEF IInv, TypeOK, Copies
  <2>5. UNCHANGED <<docType, rows, cache, job, clock>>
    BY <1>2 DEF Hit
  <2>6. QED BY <2>1, <2>2, <2>4, <2>5, DoneTask DEF Effect
<1>3. CASE Local(j, f)
  <2>1. old.type \in DocTypes /\ Heuristic(j, f, "local") /\ UNCHANGED <<docType, rows, job, clock>>
    BY <1>1, <1>3 DEF Local
  <2>2. QED BY <2>1, HeuristicEffect
<1>4. CASE Miss(j, f)
  <2> DEFINE t == [old EXCEPT !.pc = "wait"]
  <2>1. t \in Task /\ t.type \in DocTypes /\ t.payload = old.payload
    BY <1>1, <1>4 DEF Miss, Task
  <2>2. Become(j, f, t) /\ UNCHANGED <<docType, rows, cache, job, clock>>
    BY <1>4 DEF Miss
  <2>3. QED BY <1>1, <2>1, <2>2, BecomeEffect
<1>5. CASE Acquire(j, f)
  <2> DEFINE t == [old EXCEPT !.pc = IF @ = "wait" THEN "call" ELSE "rescue"]
  <2>1. t \in Task /\ t.type \in DocTypes /\ t.payload = old.payload
    BY <1>1, <1>5 DEF Acquire, Task
  <2>2. Become(j, f, t) /\ UNCHANGED <<docType, rows, cache, job, clock>>
    BY <1>5 DEF Acquire
  <2>3. QED BY <1>1, <2>1, <2>2, BecomeEffect
<1>6. CASE Answer(j, f)
  <2>1. old.type \in DocTypes /\ UNCHANGED <<docType, rows, job, clock>>
    BY <1>1, <1>6 DEF Answer
  <2>2. PICK p \in Providers, q \in {"empty", "weak", "full"} :
          LET d == [old EXCEPT !.by = IF q = "empty" THEN {} ELSE {p}, !.meta = p, !.quality = q]
          IN  IF IsWeak(d) THEN Become(j, f, [d EXCEPT !.pc = "rescue_wait"]) /\ UNCHANGED cache
                           ELSE Finish(j, f, d)
    BY <1>6 DEF Answer
  <2> DEFINE d == [old EXCEPT !.by = IF q = "empty" THEN {} ELSE {p}, !.meta = p, !.quality = q]
  <2>3. d \in Task /\ d.type \in DocTypes /\ d.payload = old.payload
    BY <1>1, <2>1, MetaType DEF Task
  <2>4. CASE IsWeak(d)
    <3> DEFINE t == [d EXCEPT !.pc = "rescue_wait"]
    <3>1. t \in Task /\ t.type \in DocTypes /\ t.payload = old.payload
      BY <2>3 DEF Task
    <3>2. Become(j, f, t) /\ UNCHANGED cache
      BY <2>2, <2>4
    <3>3. QED BY <1>1, <2>1, <3>1, <3>2, BecomeEffect
  <2>5. CASE ~IsWeak(d)
    <3>1. Finish(j, f, d)
      BY <2>2, <2>5
    <3> HIDE DEF d
    <3>2. QED BY <2>1, <2>3, <3>1, FinishEffect
  <2>6. QED BY <2>4, <2>5
<1>7. CASE TooLarge(j, f)
  <2>1. old.type \in DocTypes /\ Heuristic(j, f, "413") /\ UNCHANGED <<docType, rows, job, clock>>
    BY <1>1, <1>7 DEF TooLarge
  <2>2. QED BY <2>1, HeuristicEffect
<1>8. CASE Failed(j, f)
  <2>1. old.type \in DocTypes /\ Done(j, f, ErrorPayload) /\ UNCHANGED <<docType, rows, cache, job, clock>>
    BY <1>1, <1>8 DEF Failed
  <2>2. Copies(f, ErrorPayload) /\ ErrorPayload \in Payload
    BY NoTaskType DEF Copies, ErrorPayload
  <2>3. QED BY <2>1, <2>2, DoneTask DEF Effect
<1>9. CASE RescueAnswer(j, f)
  <2>1. old.type \in DocTypes /\ UNCHANGED <<docType, rows, job, clock>>
    BY <1>1, <1>9 DEF RescueAnswer
  <2>2. PICK d \in {old} \cup UNION {Merged([old EXCEPT !.meta = p], p) : p \in Providers} :
          IF IsWeak(d) THEN Become(j, f, [d EXCEPT !.pc = "raw"]) /\ UNCHANGED cache
                       ELSE Finish(j, f, d)
    BY <1>9 DEF RescueAnswer
  <2>3. d \in Task /\ d.type = old.type /\ d.payload = old.payload
    <3>1. CASE d = old
      BY <1>1, <3>1
    <3>2. CASE d # old
      <4>1. PICK p \in Providers : d \in Merged([old EXCEPT !.meta = p], p)
        BY <2>2, <3>2
      <4> DEFINE o == [old EXCEPT !.meta = p]
      <4>2. o \in Task /\ o.type = old.type /\ o.payload = old.payload
        BY <1>1, MetaType DEF Task
      <4> HIDE DEF o
      <4>3. QED BY <4>1, <4>2, MergedType DEF o
    <3>3. QED BY <3>1, <3>2
  <2>4. CASE IsWeak(d)
    <3> DEFINE t == [d EXCEPT !.pc = "raw"]
    <3>1. t \in Task /\ t.type = old.type /\ t.payload = old.payload
      BY <2>3 DEF Task
    <3>2. QED BY <1>1, <2>1, <2>2, <2>4, <3>1, BecomeEffect
  <2>5. CASE ~IsWeak(d)
    BY <2>1, <2>2, <2>3, <2>5, FinishEffect
  <2>6. QED BY <2>4, <2>5
<1>10. CASE RawAnswer(j, f)
  <2>1. old.type \in DocTypes /\ UNCHANGED <<docType, rows, job, clock>>
    BY <1>1, <1>10 DEF RawAnswer
  <2>2. PICK d \in {old} \cup UNION {Merged(old, p) : p \in Providers \ {"relay"}} : Finish(j, f, d)
    BY <1>10 DEF RawAnswer
  <2>3. d \in Task /\ d.type = old.type
    BY <1>1, <2>2, MergedType
  <2>4. QED BY <2>1, <2>2, <2>3, FinishEffect
<1>11. CASE Raise(j, f)
  <2>1. Become(j, f, NoTask) /\ job' = [job EXCEPT ![j].pc = "failed"]
        /\ UNCHANGED <<docType, rows, cache, clock>>
    BY <1>11 DEF Raise
  <2>2. NoTask.pc = "none" /\ Copies(f, NoTask.payload)
    BY DEF NoTask, Copies, ErrorPayload
  <2>3. QED BY <2>1, <2>2, NoTaskType, BecomeEffect
<1>12. QED
  BY <1>2, <1>3, <1>4, <1>5, <1>6, <1>7, <1>8, <1>9, <1>10, <1>11 DEF Step

-----------------------------------------------------------------------------
(* Every step keeps the invariant. *)

LEMMA EffectKeeps == ASSUME IInv, NEW j \in Jobs, NEW f \in Files, Effect(j, f) PROVE IInv'
<1>1. PICK t \in Task : /\ task' = [task EXCEPT ![j][f] = t]
                        /\ t.pc # "none" => t.type \in DocTypes
                        /\ Copies(f, t.payload)
  BY DEF Effect
<1>2. TypeOK
  BY DEF IInv
<1>3. UNCHANGED <<docType, rows, clock>> /\ \A e \in cache' : e \in cache \/ GoodEntry(e, f)
  BY DEF Effect
<1>4. /\ task' \in [Jobs -> [Files -> Task]]
      /\ \A k \in Jobs, g \in Files : task'[k][g] = IF k = j /\ g = f THEN t ELSE task[k][g]
  BY <1>1, <1>2 DEF TypeOK
<1>5. job' \in [Jobs -> [pc : {"idle", "running", "failed"}, existing : SUBSET Loaded]]
  <2>1. CASE job' = job
    BY <1>2, <2>1 DEF TypeOK
  <2>2. CASE job' = [job EXCEPT ![j].pc = "failed"]
    BY <1>2, <2>2 DEF TypeOK
  <2>3. QED BY <2>1, <2>2 DEF Effect
<1>6. (job \in [Jobs -> [pc : {"idle", "running", "failed"}, existing : SUBSET Loaded]])'
  BY <1>3, <1>5 DEF Loaded
<1>7. \A k \in Jobs : \A g \in Tasks(k)' : task'[k][g].type \in DocTypes
  BY <1>1, <1>2, <1>4 DEF TypeOK, Tasks
<1>8. \A e \in cache' : e.type \in DocTypes /\ e.payload \in Payload /\ e.payload.made # "error"
                        /\ \A g \in e.payload.named : Content[g] = e.content
  BY <1>2, <1>3 DEF IInv, TypeOK, GoodEntry, Copies
<1>9. TypeOK'
  BY <1>2, <1>3, <1>4, <1>6, <1>7, <1>8 DEF TypeOK
<1>10. \A k \in Jobs : \A g \in Files : Copies(g, task'[k][g].payload)
  BY <1>1, <1>4 DEF IInv
<1>11. DataComesFromACopy'
  BY <1>3 DEF IInv, DataComesFromACopy
<1>12. QED BY <1>8, <1>9, <1>10, <1>11 DEF IInv, Copies

LEMMA StartKeeps == ASSUME IInv, NEW j \in Jobs, Start(j) PROVE IInv'
<1>1. TypeOK
  BY DEF IInv
<1>2. PICK chosen \in SUBSET {f \in Files : docType[f] \in DocTypes} \ {{}} :
        task' = [task EXCEPT ![j] = [f \in Files |->
                   IF f \in chosen THEN [NoTask EXCEPT !.pc = "start", !.type = docType[f]]
                                  ELSE NoTask]]
  BY DEF Start
<1>3. UNCHANGED <<docType, rows, cache, clock>>
      /\ job' = [job EXCEPT ![j] = [pc |-> "running", existing |->
                  {[file |-> r.file, born |-> r.born, schema |-> r.schema] :
                     r \in UNION {Latest(f) : f \in Files}}]]
  BY DEF Start
<1>4. \A f \in chosen : /\ [NoTask EXCEPT !.pc = "start", !.type = docType[f]] \in Task
                        /\ [NoTask EXCEPT !.pc = "start", !.type = docType[f]].type \in DocTypes
                        /\ [NoTask EXCEPT !.pc = "start", !.type = docType[f]].payload = NoTask.payload
  BY NoTaskType DEF Task, NoTask
<1>5. \A k \in Jobs, g \in Files :
        \/ task'[k][g] = task[k][g]
        \/ task'[k][g] = NoTask
        \/ /\ task'[k][g] \in Task /\ task'[k][g].type \in DocTypes
           /\ task'[k][g].payload = NoTask.payload
  BY <1>1, <1>2, <1>4 DEF TypeOK
<1>6. task' \in [Jobs -> [Files -> Task]]
  BY <1>1, <1>2, <1>4, NoTaskType DEF TypeOK
<1>7. {[file |-> r.file, born |-> r.born, schema |-> r.schema] :
         r \in UNION {Latest(f) : f \in Files}} \subseteq Loaded
  <2>1. SUFFICES ASSUME NEW r \in UNION {Latest(f) : f \in Files}
        PROVE  [file |-> r.file, born |-> r.born, schema |-> r.schema] \in Loaded
    OBVIOUS
  <2>2. r \in rows
    BY DEF Latest
  <2>3. r.file \in Files /\ r.schema \in DocTypes /\ r.born \in 1..r.at /\ r.at \in 1..clock - 1
    BY <1>1, <2>2 DEF TypeOK
  <2>4. r.born \in 1..clock - 1
    BY <1>1, <2>3 DEF TypeOK
  <2>5. QED BY <2>3, <2>4 DEF Loaded
<1>8. job' \in [Jobs -> [pc : {"idle", "running", "failed"}, existing : SUBSET Loaded]]
  BY <1>1, <1>3, <1>7 DEF TypeOK
<1>9. ASSUME NEW k \in Jobs, NEW g \in Tasks(k)'
      PROVE  task'[k][g].type \in DocTypes
  <2>1. g \in Files /\ task'[k][g].pc # "none"
    BY DEF Tasks
  <2>2. task'[k][g] # NoTask
    BY <2>1 DEF NoTask
  <2>3. CASE task'[k][g] = task[k][g]
    BY <1>1, <2>1, <2>3 DEF TypeOK, Tasks
  <2>4. QED BY <1>5, <2>1, <2>2, <2>3
<1>10. TypeOK'
  BY <1>1, <1>3, <1>6, <1>8, <1>9 DEF TypeOK, Loaded
<1>11. \A k \in Jobs : \A g \in Files : Copies(g, task'[k][g].payload)
  BY <1>5 DEF IInv, Copies, NoTask, ErrorPayload
<1>12. QED BY <1>3, <1>10, <1>11 DEF IInv, DataComesFromACopy, Copies

\* The tasks of a job that ends are gone.
LEMMA EndedTasks ==
    ASSUME IInv, NEW j \in Jobs, task' = [task EXCEPT ![j] = [f \in Files |-> NoTask]]
    PROVE  /\ task' \in [Jobs -> [Files -> Task]]
           /\ \A k \in Jobs : \A g \in Tasks(k)' : task'[k][g].type \in DocTypes
           /\ \A k \in Jobs : \A g \in Files : Copies(g, task'[k][g].payload)
<1>1. TypeOK
  BY DEF IInv
<1>2. task' \in [Jobs -> [Files -> Task]]
  BY <1>1, NoTaskType DEF TypeOK
<1>3. \A k \in Jobs, g \in Files : task'[k][g] = task[k][g] \/ task'[k][g] = NoTask
  BY <1>1 DEF TypeOK
<1>4. \A k \in Jobs : \A g \in Tasks(k)' : task'[k][g].type \in DocTypes
  BY <1>1, <1>3 DEF TypeOK, Tasks, NoTask
<1>5. \A k \in Jobs : \A g \in Files : Copies(g, task'[k][g].payload)
  BY <1>3 DEF IInv, Copies, NoTask, ErrorPayload
<1>6. QED BY <1>2, <1>4, <1>5

LEMMA CommitKeeps == ASSUME IInv, NEW j \in Jobs, Commit(j) PROVE IInv'
<1>1. TypeOK
  BY DEF IInv
<1>2. /\ rows' = {r \in rows : \A f \in Tasks(j) : r.file # f \/ r.born # Upserted(j, f).born}
                   \cup {Upserted(j, f) : f \in Tasks(j)}
      /\ clock' = clock + 1 /\ job' = [job EXCEPT ![j] = NoJob]
      /\ task' = [task EXCEPT ![j] = [f \in Files |-> NoTask]]
      /\ UNCHANGED <<docType, cache>>
  BY DEF Commit
<1>3. ASSUME NEW f \in Tasks(j)
      PROVE  LET r == Upserted(j, f) IN
             /\ r.file = f /\ r.schema \in DocTypes /\ r.born \in 1..r.at
             /\ r.at = clock /\ r.named = task[j][f].payload.named
  <2> DEFINE loaded == {x \in job[j].existing : x.file = f /\ x.schema = task[j][f].type}
             r == Upserted(j, f)
  <2>1. f \in Files /\ task[j][f].type \in DocTypes
    BY <1>1 DEF TypeOK, Tasks
  <2>2. /\ r.file = f /\ r.schema = task[j][f].type /\ r.at = clock
        /\ r.named = task[j][f].payload.named
        /\ r.born = IF loaded = {} THEN clock ELSE (CHOOSE x \in loaded : TRUE).born
    BY DEF Upserted
  <2>3. r.born \in 1..clock
    <3>1. CASE loaded = {}
      BY <1>1, <2>2, <3>1 DEF TypeOK
    <3>2. CASE loaded # {}
      <4>1. (CHOOSE x \in loaded : TRUE) \in Loaded
        BY <1>1, <3>2 DEF TypeOK
      <4>2. r.born \in 1..clock - 1
        BY <2>2, <3>2, <4>1 DEF Loaded
      <4>3. QED BY <1>1, <4>2 DEF TypeOK
    <3>3. QED BY <3>1, <3>2
  <2>4. QED BY <2>1, <2>2, <2>3
<1>4. \A r \in rows' : /\ r.file \in Files /\ r.schema \in DocTypes /\ r.born \in 1..r.at
                       /\ r.at \in 1..clock' - 1 /\ r.named \subseteq Files
                       /\ Copies(r.file, r)
  <2>1. SUFFICES ASSUME NEW r \in rows'
        PROVE  /\ r.file \in Files /\ r.schema \in DocTypes /\ r.born \in 1..r.at
               /\ r.at \in 1..clock' - 1 /\ r.named \subseteq Files
               /\ Copies(r.file, r)
    OBVIOUS
  <2>2. CASE r \in rows
    <3>1. r.at \in 1..clock' - 1
      BY <1>1, <1>2, <2>2 DEF TypeOK
    <3>2. QED BY <1>1, <2>2, <3>1 DEF IInv, TypeOK, DataComesFromACopy, Copies
  <2>3. CASE \E f \in Tasks(j) : r = Upserted(j, f)
    <3>1. PICK f \in Tasks(j) : r = Upserted(j, f)
      BY <2>3
    <3>2. f \in Files /\ task[j][f].payload \in Payload /\ Copies(f, task[j][f].payload)
      BY <1>1, <3>1 DEF IInv, TypeOK, Tasks, Task
    <3>3. clock \in 1..clock' - 1
      BY <1>1, <1>2 DEF TypeOK
    <3>4. QED BY <1>3, <3>1, <3>2, <3>3 DEF Payload, Copies
  <2>4. QED BY <1>2, <2>2, <2>3
<1>5. (job \in [Jobs -> [pc : {"idle", "running", "failed"}, existing : SUBSET Loaded]])'
  <2>1. Loaded \subseteq Loaded'
    BY <1>1, <1>2 DEF Loaded, TypeOK
  <2>2. job' \in [Jobs -> [pc : {"idle", "running", "failed"}, existing : SUBSET Loaded]]
    BY <1>1, <1>2 DEF TypeOK, NoJob
  <2>3. QED BY <2>1, <2>2
<1>6. TypeOK'
  <2>1. clock' \in Nat \ {0} /\ docType' = docType /\ cache' = cache
    BY <1>1, <1>2 DEF TypeOK
  <2>2. /\ task' \in [Jobs -> [Files -> Task]]
        /\ \A k \in Jobs : \A g \in Tasks(k)' : task'[k][g].type \in DocTypes
    BY <1>2, EndedTasks
  <2>3. QED BY <1>1, <1>4, <1>5, <2>1, <2>2 DEF TypeOK
<1>7. \A k \in Jobs : \A g \in Files : Copies(g, task'[k][g].payload)
  BY <1>2, EndedTasks
<1>8. QED BY <1>2, <1>4, <1>6, <1>7 DEF IInv, DataComesFromACopy, Copies

LEMMA StopKeeps == ASSUME IInv, NEW j \in Jobs, Stop(j) PROVE IInv'
<1>1. TypeOK
  BY DEF IInv
<1>2. /\ job' = [job EXCEPT ![j] = NoJob]
      /\ task' = [task EXCEPT ![j] = [f \in Files |-> NoTask]]
      /\ UNCHANGED <<docType, rows, cache, clock>>
  BY DEF Stop
<1>3. job' \in [Jobs -> [pc : {"idle", "running", "failed"}, existing : SUBSET Loaded]]
  BY <1>1, <1>2 DEF TypeOK, NoJob
<1>4. TypeOK'
  BY <1>1, <1>2, <1>3, EndedTasks DEF TypeOK, Loaded
<1>5. QED BY <1>2, <1>4, EndedTasks DEF IInv, DataComesFromACopy, Copies

\* Classification writes document types only.
LEMMA ClassifyKeeps == ASSUME IInv, Classify \/ UNCHANGED vars PROVE IInv'
<1>1. UNCHANGED <<rows, cache, job, task, clock>>
      /\ (docType' = docType \/ docType' \in [Files -> DocTypes \cup {"unsupported_document"}])
  BY DEF Classify, vars
<1>2. TypeOK'
  BY <1>1 DEF IInv, TypeOK, Tasks, Loaded
<1>3. QED BY <1>1, <1>2 DEF IInv, DataComesFromACopy, Copies

LEMMA Inductive == Spec => []IInv
<1>1. IInv /\ [Next]_vars => IInv'
  BY StartKeeps, CommitKeeps, StopKeeps, ClassifyKeeps, StepEffect, EffectKeeps DEF Next
<1>2. QED BY <1>1, InitHolds, PTL DEF Spec

\* Every variable of extract_batch and _extract_payload keeps its type, and no
\* record is of a document type without a schema, however jobs overlap.
THEOREM TypeCorrect == Spec => []TypeOK
BY Inductive, Follows, PTL

\* extract_batch writes into no record data that _extract_payload made from the
\* name of a file with other bytes, though jobs share the cache.
THEOREM DataFromCopies == Spec => []DataComesFromACopy
BY Inductive, Follows, PTL

-----------------------------------------------------------------------------
(* One job at a time *)

\* The cache has an answer for the file as a document of type t.
Entry(f, t) == \E k \in DOMAIN Candidates : CachedUnder(f, t, Candidates[k]) # {}

Answered(r) == r.made # "error"

\* A job under way has loaded records that are still there. Where a record holds
\* an answer the cache does too, so the coroutine of its file cannot miss it.
StickInv ==
    /\ \A i, j \in Jobs : job[i].pc = "running" /\ job[j].pc = "running" => i = j
    /\ \A q, r \in rows : q.file = r.file /\ q.born = r.born => q = r
    /\ \A r \in rows : Answered(r) => Entry(r.file, r.schema)
    /\ \A j \in Jobs : job[j].pc = "running" => \A x \in job[j].existing :
         \E r \in rows : r.file = x.file /\ r.born = x.born /\ r.schema = x.schema
    /\ \A j \in Jobs : job[j].pc = "running" => \A f \in Tasks(j) :
         (\E r \in rows : r.file = f /\ r.schema = task[j][f].type /\ Answered(r)) =>
            /\ task[j][f].pc \in {"start", "done"}
            /\ task[j][f].pc = "done" => Answered(task[j][f].payload)
    /\ \A j \in Jobs : \A f \in Tasks(j) :
         task[j][f].pc = "done" /\ Answered(task[j][f].payload) => Entry(f, task[j][f].type)
    /\ \A j \in Jobs, f \in Files : task[j][f].meta \in Providers

LEMMA Signed == \A p \in Providers : \E k \in DOMAIN Candidates : Candidates[k] = p
<1>1. CASE Official
  <2>1. Candidates = <<"official", "relay">> /\ Providers = {"relay", "official"}
    BY <1>1 DEF Candidates, Providers
  <2>2. QED BY <2>1
<1>2. CASE ~Official
  <2>1. Candidates = <<"relay">> /\ Providers = {"relay"}
    BY <1>2 DEF Candidates, Providers
  <2>2. QED BY <2>1
<1>3. QED BY <1>1, <1>2

\* An entry under some candidate is found.
LEMMA EntryFound == ASSUME NEW f, NEW t, Entry(f, t) PROVE Cached(f, t) # {}
<1> DEFINE found == {k \in DOMAIN Candidates : CachedUnder(f, t, Candidates[k]) # {}}
<1>1. found # {} /\ found \in SUBSET Nat
  BY DEF Entry, Candidates
<1>2. Cached(f, t) = UNION {CachedUnder(f, t, Candidates[k]) : k \in {k \in found : \A l \in found : k <= l}}
  BY DEF Cached
<1>3. \A k \in found : CachedUnder(f, t, Candidates[k]) # {}
  OBVIOUS
<1> HIDE DEF found
<1>4. PICK k \in found : \A l \in found : k <= l
  BY <1>1, LeastNat
<1>5. QED BY <1>2, <1>3, <1>4

\* A save under the signature of a candidate is found there, and replaces an entry
\* of the same key only.
LEMMA SaveEntry ==
    ASSUME NEW f, NEW t, NEW s, NEW p, Save(f, t, s, p)
    PROVE  /\ \A g, u : Entry(g, u) => Entry(g, u)'
           /\ (\E k \in DOMAIN Candidates : Candidates[k] = s) => Entry(f, t)'
<1> DEFINE new == [content |-> Content[f], type |-> t, signature |-> s, payload |-> p]
<1>1. new \in cache' /\ \A e \in cache : e \in cache' \/ (e.content = Content[f] /\ e.type = t /\ e.signature = s)
  BY DEF Save, CachedUnder
<1>2. new.content = Content[f] /\ new.type = t /\ new.signature = s
  OBVIOUS
<1> HIDE DEF new
<1>3. ASSUME NEW k \in DOMAIN Candidates, Candidates[k] = s PROVE Entry(f, t)'
  <2>1. new \in {e \in cache' : e.content = Content[f] /\ e.type = t /\ e.signature = Candidates[k]}
    BY <1>1, <1>2, <1>3
  <2>2. QED BY <2>1 DEF Entry, CachedUnder
<1>4. ASSUME NEW g, NEW u, Entry(g, u) PROVE Entry(g, u)'
  <2>1. PICK k \in DOMAIN Candidates, e \in cache :
          e.content = Content[g] /\ e.type = u /\ e.signature = Candidates[k]
    BY <1>4 DEF Entry, CachedUnder
  <2>2. \E d \in cache' : d.content = Content[g] /\ d.type = u /\ d.signature = Candidates[k]
    BY <1>1, <1>2, <2>1
  <2>3. QED BY <2>2 DEF Entry, CachedUnder
<1>5. QED BY <1>3, <1>4

\* What a step of a coroutine leaves: where the cache has an answer, the answer.
Sticks(j, f) ==
    /\ \E t \in Task :
         /\ task' = [task EXCEPT ![j][f] = t] /\ t.meta \in Providers
         /\ t.pc # "none" => t.type = task[j][f].type
         /\ t.pc = "done" /\ Answered(t.payload) => Entry(f, t.type)'
         /\ \/ task[j][f].pc # "start" \/ ~Entry(f, task[j][f].type)
            \/ t.pc = "done" /\ Answered(t.payload)
            \/ job' = [job EXCEPT ![j].pc = "failed"]
    /\ \A g, u : Entry(g, u) => Entry(g, u)'
    /\ job' = job \/ job' = [job EXCEPT ![j].pc = "failed"]
    /\ task[j][f].pc \notin {"none", "done"} /\ UNCHANGED <<docType, rows, clock>>

LEMMA MergedMeta == ASSUME NEW d \in Task, NEW p, NEW m \in Merged(d, p) PROVE m.meta = d.meta
<1>1. PICK q : m = [d EXCEPT !.by = @ \cup {p}, !.quality = q]
  BY DEF Merged
<1>2. QED BY <1>1 DEF Task

\* A coroutine that saves what it returns.
LEMMA SavedSticks ==
    ASSUME NEW j \in Jobs, NEW f \in Files, NEW p \in Payload, Answered(p),
           NEW s \in Providers, Save(f, task[j][f].type, s, p), Done(j, f, p),
           task[j][f].type \in DocTypes, task[j][f].pc \notin {"none", "done"},
           UNCHANGED <<docType, rows, job, clock>>
    PROVE  Sticks(j, f)
<1> DEFINE t == [NoTask EXCEPT !.pc = "done", !.type = task[j][f].type, !.payload = p]
<1>1. t \in Task /\ t.pc = "done" /\ t.type = task[j][f].type /\ t.payload = p /\ t.meta \in Providers
  BY NoTaskType DEF Task, NoTask, Providers
<1>2. task' = [task EXCEPT ![j][f] = t]
  BY DEF Done, Become
<1>3. PICK u : u = task[j][f].type
  OBVIOUS
<1>4. Save(f, u, s, p) /\ \E k \in DOMAIN Candidates : Candidates[k] = s
  BY <1>3, Signed
<1>5. Entry(f, u)' /\ \A g, v : Entry(g, v) => Entry(g, v)'
  BY <1>4, SaveEntry
<1> HIDE DEF t
<1>6. PICK new \in Task : new = t
  BY <1>1
<1>7. Entry(f, new.type)' /\ new.pc = "done" /\ new.type = task[j][f].type /\ Answered(new.payload)
      /\ new.meta \in Providers /\ task' = [task EXCEPT ![j][f] = new]
  BY <1>1, <1>2, <1>3, <1>5, <1>6
<1>8. QED BY <1>5, <1>7 DEF Sticks

\* A coroutine that goes on, or ends without an answer.
LEMMA MovedSticks ==
    ASSUME NEW j \in Jobs, NEW f \in Files, NEW t \in Task, Become(j, f, t),
           t.meta \in Providers, t.pc # "none" => t.type = task[j][f].type,
           t.pc # "done" \/ ~Answered(t.payload),
           task[j][f].pc # "start" \/ ~Entry(f, task[j][f].type) \/ job' = [job EXCEPT ![j].pc = "failed"],
           job' = job \/ job' = [job EXCEPT ![j].pc = "failed"],
           task[j][f].pc \notin {"none", "done"}, UNCHANGED <<docType, rows, cache, clock>>
    PROVE  Sticks(j, f)
<1>1. \A g, u : Entry(g, u)' <=> Entry(g, u)
  BY DEF Entry, CachedUnder
<1>2. QED BY <1>1 DEF Sticks, Become

LEMMA FinishSticks ==
    ASSUME NEW j \in Jobs, NEW f \in Files, NEW d \in Task, d.type = task[j][f].type,
           d.meta \in Providers, d.type \in DocTypes, Finish(j, f, d),
           task[j][f].pc \notin {"none", "done"}, UNCHANGED <<docType, rows, job, clock>>
    PROVE  Sticks(j, f)
<1> DEFINE p == [made |-> "model", by |-> d.by, named |-> IF d.quality = "empty" THEN {f} ELSE {}]
<1>1. p \in Payload /\ Answered(p)
  BY DEF Payload, Task, Answered
<1>2. Save(f, task[j][f].type, d.meta, p) /\ Done(j, f, p)
  BY DEF Finish
<1> HIDE DEF p
<1>3. QED BY <1>1, <1>2, SavedSticks

LEMMA HeuristicSticks ==
    ASSUME NEW j \in Jobs, NEW f \in Files, task[j][f].type \in DocTypes,
           NEW made \in {"local", "413"}, Heuristic(j, f, made),
           task[j][f].pc \notin {"none", "done"}, UNCHANGED <<docType, rows, job, clock>>
    PROVE  Sticks(j, f)
<1> DEFINE p == [made |-> made, by |-> {}, named |-> {f}]
<1>1. p \in Payload /\ Answered(p)
  BY DEF Payload, Answered
<1>2. Save(f, task[j][f].type, Candidates[1], p) /\ Done(j, f, p)
  BY DEF Heuristic
<1>3. Candidates[1] \in Providers
  BY DEF Candidates, Providers
<1> HIDE DEF p
<1>4. QED BY <1>1, <1>2, <1>3, SavedSticks

LEMMA StepSticks ==
    ASSUME IInv, StickInv, NEW j \in Jobs, NEW f \in Files, Step(j, f)
    PROVE  Sticks(j, f)
<1> DEFINE old == task[j][f]
<1>1. /\ old \in Task /\ (old.pc # "none" => old.type \in DocTypes) /\ old.meta \in Providers
      /\ old.pc \notin {"none", "done"}
  <2>1. old \in Task /\ (old.pc # "none" => old.type \in DocTypes) /\ old.meta \in Providers
    BY DEF IInv, TypeOK, Tasks, StickInv
  <2>2. old.pc \notin {"none", "done"}
    BY DEF Step, Hit, Local, Miss, Acquire, Answer, TooLarge, Failed, RescueAnswer, RawAnswer, Raise
  <2>3. QED BY <2>1, <2>2
<1>2. CASE Hit(j, f)
  <2>1. PICK e \in Cached(f, old.type) : Done(j, f, e.payload)
    BY <1>2 DEF Hit
  <2>2. e \in cache /\ e.payload \in Payload /\ Answered(e.payload)
    BY <2>1, CachedEntry DEF IInv, TypeOK, Answered
  <2> DEFINE t == [NoTask EXCEPT !.pc = "done", !.type = old.type, !.payload = e.payload]
  <2>3. t \in Task /\ t.pc = "done" /\ t.type = old.type /\ t.payload = e.payload /\ t.meta \in Providers
    BY <1>1, <2>2, NoTaskType DEF Task, NoTask, Providers
  <2>4. task' = [task EXCEPT ![j][f] = t] /\ UNCHANGED <<docType, rows, cache, job, clock>>
    BY <1>2, <2>1 DEF Hit, Done, Become
  <2>5. Entry(f, old.type)
    <3>1. PICK k \in DOMAIN Candidates : e \in CachedUnder(f, old.type, Candidates[k])
      BY <2>1 DEF Cached
    <3>2. QED BY <3>1 DEF Entry
  <2>6. \A g, u : Entry(g, u)' <=> Entry(g, u)
    BY <2>4 DEF Entry, CachedUnder
  <2> HIDE DEF t
  <2>7. QED BY <1>1, <2>2, <2>3, <2>4, <2>5, <2>6 DEF Sticks
<1>3. CASE Local(j, f)
  BY <1>1, <1>3, HeuristicSticks DEF Local
<1>4. CASE Miss(j, f)
  <2> DEFINE t == [old EXCEPT !.pc = "wait"]
  <2>1. t \in Task /\ t.type = old.type /\ t.pc = "wait" /\ t.meta = old.meta
    BY <1>1 DEF Task
  <2>2. Become(j, f, t) /\ UNCHANGED <<docType, rows, cache, job, clock>> /\ Cached(f, old.type) = {}
    BY <1>4 DEF Miss
  <2>3. ~Entry(f, old.type)
    BY <2>2, EntryFound
  <2> HIDE DEF t
  <2>4. QED BY <1>1, <2>1, <2>2, <2>3, MovedSticks
<1>5. CASE Acquire(j, f)
  <2> DEFINE t == [old EXCEPT !.pc = IF @ = "wait" THEN "call" ELSE "rescue"]
  <2>1. t \in Task /\ t.type = old.type /\ t.pc \in {"call", "rescue"} /\ t.meta = old.meta
    BY <1>1 DEF Task
  <2>2. Become(j, f, t) /\ UNCHANGED <<docType, rows, cache, job, clock>> /\ old.pc # "start"
    BY <1>5 DEF Acquire
  <2> HIDE DEF t
  <2>3. QED BY <1>1, <2>1, <2>2, MovedSticks
<1>6. CASE Answer(j, f)
  <2>1. UNCHANGED <<docType, rows, job, clock>> /\ old.pc = "call"
    BY <1>6 DEF Answer
  <2>2. PICK p \in Providers, q \in {"empty", "weak", "full"} :
          LET d == [old EXCEPT !.by = IF q = "empty" THEN {} ELSE {p}, !.meta = p, !.quality = q]
          IN  IF IsWeak(d) THEN Become(j, f, [d EXCEPT !.pc = "rescue_wait"]) /\ UNCHANGED cache
                           ELSE Finish(j, f, d)
    BY <1>6 DEF Answer
  <2> DEFINE d == [old EXCEPT !.by = IF q = "empty" THEN {} ELSE {p}, !.meta = p, !.quality = q]
  <2>3. d \in Task /\ d.type = old.type /\ d.meta \in Providers
    BY <1>1, MetaType DEF Task
  <2>4. CASE IsWeak(d)
    <3> DEFINE t == [d EXCEPT !.pc = "rescue_wait"]
    <3>1. t \in Task /\ t.type = old.type /\ t.meta \in Providers /\ t.pc = "rescue_wait"
      BY <2>3 DEF Task
    <3>2. Become(j, f, t) /\ UNCHANGED cache
      BY <2>2, <2>4
    <3> HIDE DEF t, d
    <3>3. QED BY <1>1, <2>1, <3>1, <3>2, MovedSticks
  <2>5. CASE ~IsWeak(d)
    <3>1. Finish(j, f, d)
      BY <2>2, <2>5
    <3> HIDE DEF d
    <3>2. QED BY <1>1, <2>1, <2>3, <3>1, FinishSticks
  <2>6. QED BY <2>4, <2>5
<1>7. CASE TooLarge(j, f)
  BY <1>1, <1>7, HeuristicSticks DEF TooLarge
<1>8. CASE Failed(j, f)
  <2> DEFINE t == [NoTask EXCEPT !.pc = "done", !.type = old.type, !.payload = ErrorPayload]
  <2>1. t \in Task /\ t.type = old.type /\ t.meta \in Providers /\ ~Answered(t.payload)
    BY <1>1, NoTaskType DEF Task, NoTask, Providers, ErrorPayload, Answered
  <2>2. Become(j, f, t) /\ UNCHANGED <<docType, rows, cache, job, clock>> /\ old.pc # "start"
    BY <1>8 DEF Failed, Done
  <2> HIDE DEF t
  <2>3. QED BY <1>1, <2>1, <2>2, MovedSticks
<1>9. CASE RescueAnswer(j, f)
  <2>1. UNCHANGED <<docType, rows, job, clock>> /\ old.pc = "rescue"
    BY <1>9 DEF RescueAnswer
  <2>2. PICK d \in {old} \cup UNION {Merged([old EXCEPT !.meta = p], p) : p \in Providers} :
          IF IsWeak(d) THEN Become(j, f, [d EXCEPT !.pc = "raw"]) /\ UNCHANGED cache
                       ELSE Finish(j, f, d)
    BY <1>9 DEF RescueAnswer
  <2>3. d \in Task /\ d.type = old.type /\ d.meta \in Providers
    <3>1. CASE d = old
      BY <1>1, <3>1
    <3>2. CASE d # old
      <4>1. PICK p \in Providers : d \in Merged([old EXCEPT !.meta = p], p)
        BY <2>2, <3>2
      <4> DEFINE o == [old EXCEPT !.meta = p]
      <4>2. o \in Task /\ o.type = old.type /\ o.meta = p
        BY <1>1, MetaType DEF Task
      <4>3. d \in Task /\ d.type = o.type
        BY <4>1, <4>2, MergedType
      <4>4. d.meta = o.meta
        BY <4>1, <4>2, MergedMeta
      <4>5. QED BY <4>2, <4>3, <4>4
    <3>3. QED BY <3>1, <3>2
  <2>4. CASE IsWeak(d)
    <3> DEFINE t == [d EXCEPT !.pc = "raw"]
    <3>1. t \in Task /\ t.type = old.type /\ t.meta \in Providers /\ t.pc = "raw"
      BY <2>3 DEF Task
    <3>2. Become(j, f, t) /\ UNCHANGED cache
      BY <2>2, <2>4
    <3> HIDE DEF t
    <3>3. QED BY <1>1, <2>1, <3>1, <3>2, MovedSticks
  <2>5. CASE ~IsWeak(d)
    BY <1>1, <2>1, <2>2, <2>3, <2>5, FinishSticks
  <2>6. QED BY <2>4, <2>5
<1>10. CASE RawAnswer(j, f)
  <2>1. UNCHANGED <<docType, rows, job, clock>> /\ old.pc = "raw"
    BY <1>10 DEF RawAnswer
  <2>2. PICK d \in {old} \cup UNION {Merged(old, p) : p \in Providers \ {"relay"}} : Finish(j, f, d)
    BY <1>10 DEF RawAnswer
  <2>3. d \in Task /\ d.type = old.type /\ d.meta = old.meta
    BY <1>1, <2>2, MergedType, MergedMeta
  <2>4. QED BY <1>1, <2>1, <2>2, <2>3, FinishSticks
<1>11. CASE Raise(j, f)
  <2>1. Become(j, f, NoTask) /\ job' = [job EXCEPT ![j].pc = "failed"]
        /\ UNCHANGED <<docType, rows, cache, clock>>
    BY <1>11 DEF Raise
  <2>2. NoTask.pc = "none" /\ NoTask.meta \in Providers
    BY DEF NoTask, Providers
  <2>3. QED BY <1>1, <2>1, <2>2, NoTaskType, MovedSticks
<1>12. QED
  BY <1>2, <1>3, <1>4, <1>5, <1>6, <1>7, <1>8, <1>9, <1>10, <1>11 DEF Step

LEMMA StickStep ==
    ASSUME IInv, StickInv, NEW j \in Jobs, NEW f \in Files, Step(j, f)
    PROVE  StickInv'
<1>0. TypeOK /\ Sticks(j, f)
  BY StepSticks DEF IInv
<1>1. PICK t \in Task :
         /\ task' = [task EXCEPT ![j][f] = t] /\ t.meta \in Providers
         /\ t.pc # "none" => t.type = task[j][f].type
         /\ t.pc = "done" /\ Answered(t.payload) => Entry(f, t.type)'
         /\ \/ task[j][f].pc # "start" \/ ~Entry(f, task[j][f].type)
            \/ t.pc = "done" /\ Answered(t.payload)
            \/ job' = [job EXCEPT ![j].pc = "failed"]
  BY <1>0 DEF Sticks
<1>2. /\ \A g, u : Entry(g, u) => Entry(g, u)'
      /\ job' = job \/ job' = [job EXCEPT ![j].pc = "failed"]
      /\ task[j][f].pc \notin {"none", "done"} /\ UNCHANGED <<docType, rows, clock>>
  BY <1>0 DEF Sticks
<1>3. \A i \in Jobs, g \in Files : task'[i][g] = IF i = j /\ g = f THEN t ELSE task[i][g]
  BY <1>0, <1>1 DEF TypeOK
<1>4. \A i \in Jobs : /\ job'[i].pc = "running" => job[i].pc = "running" /\ job'[i].existing = job[i].existing
                      /\ i = j /\ job' # job => job'[i].pc = "failed"
  BY <1>0, <1>2 DEF TypeOK
<1>5. \A i \in Jobs : \A g \in Tasks(i)' : g \in Tasks(i) /\ task'[i][g].type = task[i][g].type
  BY <1>1, <1>2, <1>3 DEF Tasks
<1>6. \A r \in rows' : Answered(r) => Entry(r.file, r.schema)'
  BY <1>2 DEF StickInv
<1>7. ASSUME NEW i \in Jobs, NEW g \in Tasks(i)', job'[i].pc = "running",
             \E r \in rows' : r.file = g /\ r.schema = task'[i][g].type /\ Answered(r)
      PROVE  /\ task'[i][g].pc \in {"start", "done"}
             /\ task'[i][g].pc = "done" => Answered(task'[i][g].payload)
  <2>1. /\ task[i][g].pc \in {"start", "done"}
        /\ task[i][g].pc = "done" => Answered(task[i][g].payload)
        /\ Entry(g, task[i][g].type)
    BY <1>2, <1>4, <1>5, <1>7 DEF StickInv
  <2>2. CASE i = j /\ g = f
    <3>1. job' # [job EXCEPT ![j].pc = "failed"]
      <4>1. [job EXCEPT ![j].pc = "failed"][j].pc = "failed"
        BY <1>0 DEF TypeOK
      <4>2. QED BY <1>7, <2>2, <4>1
    <3>2. t.pc = "done" /\ Answered(t.payload)
      BY <1>1, <1>2, <2>1, <2>2, <3>1
    <3>3. g \in Files
      BY DEF Tasks
    <3>4. QED BY <1>3, <2>2, <3>2, <3>3
  <2>3. CASE i # j \/ g # f
    <3>1. g \in Files
      BY DEF Tasks
    <3>2. task'[i][g] = task[i][g]
      BY <1>3, <2>3, <3>1
    <3>3. QED BY <2>1, <3>2
  <2>4. QED BY <2>2, <2>3
<1>8. ASSUME NEW i \in Jobs, NEW g \in Tasks(i)', task'[i][g].pc = "done", Answered(task'[i][g].payload),
             NEW type, type = task'[i][g].type
      PROVE  Entry(g, type)'
  <2>1. g \in Files
    BY DEF Tasks
  <2>2. CASE i = j /\ g = f
    <3>1. task'[i][g] = t
      BY <1>3, <2>1, <2>2
    <3>2. QED BY <1>1, <1>8, <2>2, <3>1
  <2>3. CASE i # j \/ g # f
    <3>1. task'[i][g] = task[i][g]
      BY <1>3, <2>1, <2>3
    <3>2. Entry(g, type)
      BY <1>5, <1>8, <3>1 DEF StickInv
    <3>3. QED BY <1>2, <3>2
  <2>4. QED BY <2>2, <2>3
<1>9. \A i \in Jobs, g \in Files : task'[i][g].meta \in Providers
  BY <1>1, <1>3 DEF StickInv
<1>10. \A i, k \in Jobs : job'[i].pc = "running" /\ job'[k].pc = "running" => i = k
  BY <1>4 DEF StickInv
<1>11. \A i \in Jobs : job'[i].pc = "running" => \A x \in job'[i].existing :
         \E r \in rows' : r.file = x.file /\ r.born = x.born /\ r.schema = x.schema
  BY <1>2, <1>4 DEF StickInv
<1>12. \A q, r \in rows' : q.file = r.file /\ q.born = r.born => q = r
  BY <1>2 DEF StickInv
<1>13. \A i \in Jobs : job'[i].pc = "running" => \A g \in Tasks(i)' :
         (\E r \in rows' : r.file = g /\ r.schema = task'[i][g].type /\ Answered(r)) =>
            /\ task'[i][g].pc \in {"start", "done"}
            /\ task'[i][g].pc = "done" => Answered(task'[i][g].payload)
  BY <1>7
<1>14. \A i \in Jobs : \A g \in Tasks(i)' :
         task'[i][g].pc = "done" /\ Answered(task'[i][g].payload) => Entry(g, task[i][g].type)'
  BY <1>8
<1>15. QED BY <1>6, <1>9, <1>10, <1>11, <1>12, <1>13, <1>14 DEF StickInv

\* The entries, and the coroutines that remain, of a step that takes a job's
\* coroutines away or starts them.
LEMMA EntryStays == ASSUME UNCHANGED cache PROVE \A g, u : Entry(g, u)' <=> Entry(g, u)
  BY DEF Entry, CachedUnder

LEMMA StickStart ==
    ASSUME IInv, StickInv, ~Overlap, NEW j \in Jobs, Start(j)
    PROVE  StickInv'
<1>0. TypeOK /\ UNCHANGED <<docType, rows, cache, clock>> /\ \A i \in Jobs : job[i].pc # "running"
  BY DEF IInv, Start, Quiet
<1>1. PICK chosen \in SUBSET {f \in Files : docType[f] \in DocTypes} \ {{}} :
        task' = [task EXCEPT ![j] = [f \in Files |->
                   IF f \in chosen THEN [NoTask EXCEPT !.pc = "start", !.type = docType[f]]
                                  ELSE NoTask]]
  BY DEF Start
<1>2. \A f : [NoTask EXCEPT !.pc = "start", !.type = docType[f]].pc = "start"
             /\ [NoTask EXCEPT !.pc = "start", !.type = docType[f]].meta = "relay"
  BY DEF NoTask
<1>3. \A i \in Jobs, g \in Files : \/ i # j /\ task'[i][g] = task[i][g]
                                   \/ i = j /\ task'[i][g].pc \in {"start", "none"} /\ task'[i][g].meta = "relay"
  BY <1>0, <1>1, <1>2 DEF TypeOK, NoTask
<1>4. job' = [job EXCEPT ![j] = [pc |-> "running", existing |->
                 {[file |-> r.file, born |-> r.born, schema |-> r.schema] :
                    r \in UNION {Latest(f) : f \in Files}}]]
  BY DEF Start
<1>5. \A i \in Jobs \ {j} : job'[i] = job[i]
  BY <1>0, <1>4 DEF TypeOK
<1>6. job'[j].existing = {[file |-> r.file, born |-> r.born, schema |-> r.schema] :
                            r \in UNION {Latest(f) : f \in Files}}
  BY <1>0, <1>4 DEF TypeOK
<1>7. \A x \in job'[j].existing : \E r \in rows : r.file = x.file /\ r.born = x.born /\ r.schema = x.schema
  BY <1>6 DEF Latest
<1>8. \A g, u : Entry(g, u)' <=> Entry(g, u)
  BY <1>0, EntryStays
<1>9. \A i \in Jobs : job'[i].pc = "running" => i = j
  BY <1>0, <1>5
<1>10. \A i, k \in Jobs : job'[i].pc = "running" /\ job'[k].pc = "running" => i = k
  BY <1>9
<1>11. \A i \in Jobs : job'[i].pc = "running" => \A g \in Tasks(i)' : task'[i][g].pc = "start"
  BY <1>3, <1>9 DEF Tasks
<1>12. \A i \in Jobs : \A g \in Tasks(i)' : task'[i][g].pc = "done" => task'[i][g] = task[i][g] /\ g \in Tasks(i)
  BY <1>3 DEF Tasks
<1>13. \A i \in Jobs, g \in Files : task'[i][g].meta \in Providers
  BY <1>3 DEF StickInv, Providers
<1>14. \A r \in rows' : Answered(r) => Entry(r.file, r.schema)'
  BY <1>0, <1>8 DEF StickInv
<1>15. \A i \in Jobs : \A g \in Tasks(i)' :
         task'[i][g].pc = "done" /\ Answered(task'[i][g].payload) => Entry(g, task[i][g].type)'
  <2>1. SUFFICES ASSUME NEW i \in Jobs, NEW g \in Tasks(i)', task'[i][g].pc = "done",
                        Answered(task'[i][g].payload), NEW type, type = task'[i][g].type
                 PROVE  Entry(g, type)'
    OBVIOUS
  <2>2. Entry(g, type)
    BY <1>12, <2>1 DEF StickInv
  <2>3. QED BY <1>8, <2>2
<1>16. \A i \in Jobs : job'[i].pc = "running" => \A x \in job'[i].existing :
          \E r \in rows' : r.file = x.file /\ r.born = x.born /\ r.schema = x.schema
  BY <1>0, <1>7, <1>9
<1>17. \A q, r \in rows' : q.file = r.file /\ q.born = r.born => q = r
  BY <1>0 DEF StickInv
<1>18. QED BY <1>10, <1>11, <1>13, <1>14, <1>15, <1>16, <1>17 DEF StickInv

\* A job that ends takes its coroutines with it.
LEMMA StickEnd ==
    ASSUME IInv, StickInv, NEW j \in Jobs, UNCHANGED cache,
           job' = [job EXCEPT ![j] = NoJob], task' = [task EXCEPT ![j] = [f \in Files |-> NoTask]],
           rows' = rows \/ job[j].pc = "running",
           \A q, r \in rows' : q.file = r.file /\ q.born = r.born => q = r,
           \A r \in rows' : Answered(r) => Entry(r.file, r.schema)
    PROVE  StickInv'
<1>0. TypeOK
  BY DEF IInv
<1>1. \A i \in Jobs : job'[i].pc = "running" => i # j /\ job'[i] = job[i]
  BY <1>0 DEF TypeOK, NoJob
<1>2. \A i \in Jobs, g \in Files : task'[i][g] = IF i = j THEN NoTask ELSE task[i][g]
  BY <1>0 DEF TypeOK
<1>3. \A i \in Jobs : \A g \in Tasks(i)' : i # j /\ g \in Tasks(i) /\ task'[i][g] = task[i][g]
  BY <1>2 DEF Tasks, NoTask
<1>4. \A i \in Jobs : job'[i].pc = "running" => rows' = rows
  BY <1>1 DEF StickInv
<1>5. \A g, u : Entry(g, u)' <=> Entry(g, u)
  BY EntryStays
<1>6. \A i, k \in Jobs : job'[i].pc = "running" /\ job'[k].pc = "running" => i = k
  BY <1>1 DEF StickInv
<1>7. \A r \in rows' : Answered(r) => Entry(r.file, r.schema)'
  BY <1>5
<1>8. \A i \in Jobs : job'[i].pc = "running" => \A x \in job'[i].existing :
         \E r \in rows' : r.file = x.file /\ r.born = x.born /\ r.schema = x.schema
  BY <1>1, <1>4 DEF StickInv
<1>9. \A i \in Jobs : job'[i].pc = "running" => \A g \in Tasks(i)' :
         (\E r \in rows' : r.file = g /\ r.schema = task'[i][g].type /\ Answered(r)) =>
            /\ task'[i][g].pc \in {"start", "done"}
            /\ task'[i][g].pc = "done" => Answered(task'[i][g].payload)
  BY <1>1, <1>3, <1>4 DEF StickInv
<1>10. \A i \in Jobs : \A g \in Tasks(i)' :
         task'[i][g].pc = "done" /\ Answered(task'[i][g].payload) => Entry(g, task[i][g].type)'
  <2>1. SUFFICES ASSUME NEW i \in Jobs, NEW g \in Tasks(i)', task'[i][g].pc = "done",
                        Answered(task'[i][g].payload), NEW type, type = task'[i][g].type
                 PROVE  Entry(g, type)'
    OBVIOUS
  <2>2. Entry(g, type)
    BY <1>3, <2>1 DEF StickInv
  <2>3. QED BY <1>5, <2>2
<1>11. \A i \in Jobs, g \in Files : task'[i][g].meta \in Providers
  BY <1>2 DEF StickInv, NoTask, Providers
<1>12. QED BY <1>6, <1>7, <1>8, <1>9, <1>10, <1>11 DEF StickInv

\* The record that a commit writes in the place of one with an answer, and the
\* ones that stay.
LEMMA CommitRows ==
    ASSUME IInv, StickInv, NEW j \in Jobs, Commit(j)
    PROVE  /\ \A q, r \in rows' : q.file = r.file /\ q.born = r.born => q = r
           /\ \A r \in rows' : Answered(r) => Entry(r.file, r.schema)
           /\ \A r \in rows : Answered(r) =>
                \E q \in rows' : q.file = r.file /\ q.schema = r.schema /\ q.born = r.born /\ Answered(q)
<1>1. /\ rows' = {r \in rows : \A f \in Tasks(j) : r.file # f \/ r.born # Upserted(j, f).born}
                   \cup {Upserted(j, f) : f \in Tasks(j)}
      /\ job[j].pc = "running" /\ \A f \in Tasks(j) : task[j][f].pc = "done"
  BY DEF Commit
<1>2. \A f : /\ Upserted(j, f).file = f /\ Upserted(j, f).schema = task[j][f].type
             /\ Upserted(j, f).made = task[j][f].payload.made
  BY DEF Upserted
<1>3. \A f : Answered(Upserted(j, f)) <=> Answered(task[j][f].payload)
  BY <1>2 DEF Answered
<1>4. \A q, r \in rows' : q.file = r.file /\ q.born = r.born => q = r
  BY <1>1, <1>2 DEF StickInv
<1>5. \A r \in rows' : Answered(r) => Entry(r.file, r.schema)
  BY <1>1, <1>2, <1>3 DEF StickInv
<1>6. ASSUME NEW r \in rows, Answered(r), NEW f \in Tasks(j), r.file = f, r.born = Upserted(j, f).born
      PROVE  r.schema = task[j][f].type
  <2> DEFINE loaded == {x \in job[j].existing : x.file = f /\ x.schema = task[j][f].type}
  <2>1. Upserted(j, f).born = IF loaded = {} THEN clock ELSE (CHOOSE x \in loaded : TRUE).born
    BY DEF Upserted
  <2>2. r.born # clock
    <3>1. clock \in Nat /\ r.at \in 1..clock - 1 /\ r.born \in 1..r.at
      BY DEF IInv, TypeOK
    <3>2. QED BY <3>1
  <2>3. loaded # {}
    BY <1>6, <2>1, <2>2
  <2>4. PICK x \in loaded : x.born = r.born
    BY <1>6, <2>1, <2>3
  <2>5. PICK q \in rows : q.file = x.file /\ q.born = x.born /\ q.schema = x.schema
    BY <1>1, <2>4 DEF StickInv
  <2>6. q = r
    BY <1>6, <2>4, <2>5 DEF StickInv
  <2>7. QED BY <2>4, <2>5, <2>6
<1>7. ASSUME NEW r \in rows, Answered(r)
      PROVE  \E q \in rows' : q.file = r.file /\ q.schema = r.schema /\ q.born = r.born /\ Answered(q)
  <2>1. CASE \A f \in Tasks(j) : r.file # f \/ r.born # Upserted(j, f).born
    BY <1>1, <1>7, <2>1
  <2>2. CASE \E f \in Tasks(j) : r.file = f /\ r.born = Upserted(j, f).born
    <3>1. PICK f \in Tasks(j) : r.file = f /\ r.born = Upserted(j, f).born
      BY <2>2
    <3>2. r.schema = task[j][f].type
      BY <1>6, <1>7, <3>1
    <3>3. Answered(task[j][f].payload)
      BY <1>1, <1>7, <3>1, <3>2 DEF StickInv
    <3>4. QED BY <1>1, <1>2, <1>3, <3>1, <3>2, <3>3
  <2>3. QED BY <2>1, <2>2
<1>8. QED BY <1>4, <1>5, <1>7

LEMMA StickKept ==
    ASSUME IInv, StickInv, ~Overlap, [Next]_vars
    PROVE  StickInv'
<1>1. CASE Classify \/ UNCHANGED vars
  <2>1. UNCHANGED <<rows, cache, job, task>>
    BY <1>1 DEF Classify, vars
  <2>2. QED BY <2>1 DEF StickInv, Tasks, Entry, CachedUnder
<1>2. ASSUME NEW j \in Jobs, Commit(j) PROVE StickInv'
  <2>1. /\ UNCHANGED cache /\ job' = [job EXCEPT ![j] = NoJob]
        /\ task' = [task EXCEPT ![j] = [f \in Files |-> NoTask]] /\ job[j].pc = "running"
    BY <1>2 DEF Commit
  <2>2. QED BY <1>2, <2>1, CommitRows, StickEnd
<1>3. ASSUME NEW j \in Jobs, Stop(j) PROVE StickInv'
  <2>1. /\ UNCHANGED <<rows, cache>> /\ job' = [job EXCEPT ![j] = NoJob]
        /\ task' = [task EXCEPT ![j] = [f \in Files |-> NoTask]]
    BY <1>3 DEF Stop
  <2>2. \A q, r \in rows' : q.file = r.file /\ q.born = r.born => q = r
    BY <2>1 DEF StickInv
  <2>3. \A r \in rows' : Answered(r) => Entry(r.file, r.schema)
    BY <2>1 DEF StickInv
  <2>4. QED BY <2>1, <2>2, <2>3, StickEnd
<1>4. QED BY <1>1, <1>2, <1>3, StickStart, StickStep DEF Next

\* With one job at a time a record keeps its answer: an extraction that is
\* repeated finds it in the cache (extract_batch, _extract_payload).
THEOREM AnswersKept == ~Overlap => (Spec => AnswersStick)
<1> SUFFICES ASSUME ~Overlap PROVE Spec => AnswersStick
  OBVIOUS
<1>1. Init => StickInv
  <2> SUFFICES ASSUME Init PROVE StickInv
    OBVIOUS
  <2>1. /\ rows = {} /\ job = [j \in Jobs |-> NoJob]
        /\ task = [j \in Jobs |-> [f \in Files |-> NoTask]]
    BY DEF Init
  <2>2. \A j \in Jobs : Tasks(j) = {} /\ job[j].pc = "idle" /\ \A f \in Files : task[j][f].meta \in Providers
    BY <2>1 DEF Tasks, NoTask, NoJob, Providers
  <2>3. QED BY <2>1, <2>2 DEF StickInv
<1> DEFINE Keep == \A r \in rows : r.made # "error" =>
                     \E q \in rows' : /\ q.file = r.file /\ q.schema = r.schema /\ q.born = r.born
                                      /\ q.made # "error"
<1>2. ASSUME IInv, StickInv, [Next]_vars PROVE Keep
  <2>1. CASE rows' = rows
    BY <2>1
  <2>2. CASE \E j \in Jobs : Commit(j)
    <3>1. PICK j \in Jobs : Commit(j)
      BY <2>2
    <3>2. \A r \in rows : Answered(r) =>
             \E q \in rows' : q.file = r.file /\ q.schema = r.schema /\ q.born = r.born /\ Answered(q)
      BY <1>2, <3>1, CommitRows
    <3>3. QED BY <3>2 DEF Answered
  <2>3. rows' = rows \/ \E j \in Jobs : Commit(j)
    <3>1. ASSUME NEW j \in Jobs, NEW f \in Files, Step(j, f) PROVE rows' = rows
      BY <1>2, <3>1, StepSticks DEF Sticks
    <3>2. QED BY <1>2, <3>1 DEF Next, vars, Classify, Start, Stop
  <2>4. QED BY <2>1, <2>2, <2>3
<1>3. IInv /\ StickInv /\ [Next]_vars => StickInv'
  BY StickKept
<1> HIDE DEF Keep
<1>4. IInv /\ StickInv /\ [Next]_vars => [Keep]_vars
  BY <1>2
<1>5. Spec => [][Keep]_vars
  BY <1>1, <1>3, <1>4, Inductive, PTL DEF Spec
<1>6. QED BY <1>5, PTL DEF AnswersStick, Keep

-----------------------------------------------------------------------------
(* Jobs run out of steps and do not get stuck.  JobsEnd needs fairness; what   *)
(* it needs of the code is that no coroutine goes round in circles and that    *)
(* the semaphore leaves none waiting for ever.                                 *)

\* The awaits that a coroutine can still come to.
StepsLeft(t) ==
    CASE t.pc = "start" -> 6 [] t.pc = "wait" -> 5 [] t.pc = "call" -> 4
      [] t.pc = "rescue_wait" -> 3 [] t.pc = "rescue" -> 2 [] t.pc = "raw" -> 1
      [] OTHER -> 0

\* While a job is under way, whatever changes in its coroutines brings one of
\* them nearer to its end and leaves the others where they are.
CoroutinesRunOut ==
    [][\A j \in Jobs : job[j].pc # "idle" /\ job'[j].pc # "idle" /\ task'[j] # task[j] =>
         \E f \in Files : /\ StepsLeft(task'[j][f]) < StepsLeft(task[j][f])
                          /\ \A g \in Files \ {f} : task'[j][g] = task[j][g]]_vars

SlotFree(j) == Cardinality({g \in Files : task[j][g].pc \in InSlot}) < Slots

\* The coroutine is not waiting for another one.
Ready(j, f) ==
    \/ task[j][f].pc \in {"start", "call", "rescue", "raw"}
    \/ task[j][f].pc \in {"wait", "rescue_wait"} /\ SlotFree(j)

\* The job can commit (or has failed and left nothing), or a coroutine of it can
\* go on: that a coroutine waits for its rescue outside its first slot is
\* why the slots cannot all be held by coroutines that wait for one.
NoneIsStuck ==
    \A j \in Jobs : (\A f \in Tasks(j) : task[j][f].pc = "done") \/ \E f \in Tasks(j) : Ready(j, f)

LEMMA NeverStuck == IInv => NoneIsStuck
<1> SUFFICES ASSUME IInv, NEW j \in Jobs, NEW f \in Tasks(j), task[j][f].pc # "done"
             PROVE  \E g \in Tasks(j) : Ready(j, g)
  BY DEF NoneIsStuck
<1>1. f \in Files /\ task[j][f].pc # "none" /\ task[j][f] \in Task
  BY DEF Tasks, IInv, TypeOK
<1>2. task[j][f].pc \in {"start", "call", "rescue", "raw", "wait", "rescue_wait"}
  BY <1>1 DEF Task
<1>3. CASE \E g \in Files : task[j][g].pc \in InSlot
  BY <1>3 DEF InSlot, Tasks, Ready
<1>4. CASE ~\E g \in Files : task[j][g].pc \in InSlot
  <2>1. Cardinality({g \in Files : task[j][g].pc \in InSlot}) = 0
    <3>1. {g \in Files : task[j][g].pc \in InSlot} = {}
      BY <1>4
    <3>2. QED BY <3>1, FS_EmptySet
  <2>2. SlotFree(j)
    BY <2>1, ExtractionConstants DEF SlotFree
  <2>3. QED BY <1>2, <2>2 DEF Ready
<1>5. QED BY <1>3, <1>4

\* A coroutine that takes the state t, which is nearer to the end.
LEMMA NearerTo ==
    ASSUME IInv, NEW j \in Jobs, NEW f \in Files, NEW t, Become(j, f, t),
           StepsLeft(t) < StepsLeft(task[j][f])
    PROVE  /\ StepsLeft(task'[j][f]) < StepsLeft(task[j][f])
           /\ \A g \in Files \ {f} : task'[j][g] = task[j][g]
           /\ \A i \in Jobs \ {j} : task'[i] = task[i]
<1>1. task \in [Jobs -> [Files -> Task]]
  BY DEF IInv, TypeOK
<1>2. task' = [task EXCEPT ![j][f] = t]
  BY DEF Become
<1>3. task'[j][f] = t
  BY <1>1, <1>2
<1>4. QED BY <1>1, <1>2, <1>3

\* One that returns, from wherever it was.
LEMMA DoneIsLast ==
    ASSUME NEW j \in Jobs, NEW f \in Files, NEW p, Done(j, f, p)
    PROVE  \E t : Become(j, f, t) /\ StepsLeft(t) = 0
<1> DEFINE t == [NoTask EXCEPT !.pc = "done", !.type = task[j][f].type, !.payload = p]
<1>1. t.pc = "done"
  BY DEF NoTask
<1>2. StepsLeft(t) = 0
  BY <1>1 DEF StepsLeft
<1>3. Become(j, f, t)
  BY DEF Done
<1>4. QED BY <1>2, <1>3

\* Every step of a coroutine is one nearer to its end: one case per action.
LEMMA StepNearer ==
    ASSUME IInv, NEW j \in Jobs, NEW f \in Files, Step(j, f)
    PROVE  \E t : Become(j, f, t) /\ StepsLeft(t) < StepsLeft(task[j][f])
<1> DEFINE pc == task[j][f].pc
<1>0. task[j][f] \in Task
  BY DEF IInv, TypeOK
<1>a. /\ pc = "start" => StepsLeft(task[j][f]) = 6
      /\ pc = "wait" => StepsLeft(task[j][f]) = 5
      /\ pc = "call" => StepsLeft(task[j][f]) = 4
      /\ pc = "rescue_wait" => StepsLeft(task[j][f]) = 3
      /\ pc = "rescue" => StepsLeft(task[j][f]) = 2
      /\ pc = "raw" => StepsLeft(task[j][f]) = 1
  BY DEF StepsLeft
<1>b. ASSUME NEW p, Done(j, f, p), pc \in {"start", "call", "rescue", "raw"}
      PROVE  \E t : Become(j, f, t) /\ StepsLeft(t) < StepsLeft(task[j][f])
  BY <1>a, <1>b, DoneIsLast
<1>c. ASSUME NEW d \in Task, NEW s, Become(j, f, [d EXCEPT !.pc = s]),
             \/ pc = "start" /\ s = "wait"
             \/ pc = "wait" /\ s = "call"
             \/ pc = "rescue_wait" /\ s = "rescue"
             \/ pc = "call" /\ s = "rescue_wait"
             \/ pc = "rescue" /\ s = "raw"
      PROVE  \E t : Become(j, f, t) /\ StepsLeft(t) < StepsLeft(task[j][f])
  <2> DEFINE t == [d EXCEPT !.pc = s]
  <2>1. t.pc = s
    BY <1>c DEF Task
  <2> HIDE DEF t
  <2>2. StepsLeft(t) < StepsLeft(task[j][f])
    BY <1>a, <1>c, <2>1 DEF StepsLeft
  <2>3. QED BY <1>c, <2>2 DEF t
<1>1. CASE Hit(j, f)
  BY <1>1, <1>b DEF Hit
<1>2. CASE Local(j, f)
  BY <1>2, <1>b DEF Local, Heuristic
<1>3. CASE Miss(j, f)
  BY <1>0, <1>3, <1>c DEF Miss
<1>4. CASE Acquire(j, f)
  <2>1. CASE pc = "wait"
    <3>1. Become(j, f, [task[j][f] EXCEPT !.pc = "call"])
      BY <1>4, <2>1 DEF Acquire
    <3>2. QED BY <1>0, <1>c, <2>1, <3>1
  <2>2. CASE pc = "rescue_wait"
    <3>1. Become(j, f, [task[j][f] EXCEPT !.pc = "rescue"])
      BY <1>4, <2>2 DEF Acquire
    <3>2. QED BY <1>0, <1>c, <2>2, <3>1
  <2>3. QED BY <1>4, <2>1, <2>2 DEF Acquire
<1>5. CASE Answer(j, f)
  <2>1. PICK p \in Providers, q \in {"empty", "weak", "full"} :
          LET d == [task[j][f] EXCEPT !.by = IF q = "empty" THEN {} ELSE {p},
                                      !.meta = p, !.quality = q]
          IN  \/ Become(j, f, [d EXCEPT !.pc = "rescue_wait"])
              \/ Finish(j, f, d)
    BY <1>5 DEF Answer
  <2> DEFINE d == [task[j][f] EXCEPT !.by = IF q = "empty" THEN {} ELSE {p},
                                     !.meta = p, !.quality = q]
  <2>2. pc = "call"
    BY <1>5 DEF Answer
  <2>3. d \in Task
    <3>1. p \in {"relay", "official"} /\ p \in Providers
      BY MetaType
    <3>2. QED BY <1>0, <3>1 DEF Task
  <2>4. Become(j, f, [d EXCEPT !.pc = "rescue_wait"]) \/ Finish(j, f, d)
    BY <2>1
  <2> HIDE DEF d
  <2>5. QED BY <1>b, <1>c, <2>2, <2>3, <2>4 DEF Finish
<1>6. CASE TooLarge(j, f)
  BY <1>6, <1>b DEF TooLarge, Heuristic
<1>7. CASE Failed(j, f)
  BY <1>7, <1>b DEF Failed
<1>8. CASE RescueAnswer(j, f)
  <2>1. pc = "rescue"
    BY <1>8 DEF RescueAnswer
  <2>2. PICK d \in {task[j][f]} \cup UNION {Merged([task[j][f] EXCEPT !.meta = p], p) : p \in Providers} :
          Become(j, f, [d EXCEPT !.pc = "raw"]) \/ Finish(j, f, d)
    BY <1>8 DEF RescueAnswer
  <2>3. d \in Task
    <3>1. ASSUME NEW p \in Providers, d \in Merged([task[j][f] EXCEPT !.meta = p], p) PROVE d \in Task
      <4>1. [task[j][f] EXCEPT !.meta = p] \in Task
        BY <1>0, MetaType DEF Task
      <4>2. QED BY <3>1, <4>1, MergedType
    <3>2. QED BY <1>0, <2>2, <3>1
  <2>4. QED BY <1>b, <1>c, <2>1, <2>2, <2>3 DEF Finish
<1>9. CASE RawAnswer(j, f)
  BY <1>9, <1>b DEF RawAnswer, Finish
<1>10. CASE Raise(j, f)
  <2>1. StepsLeft(NoTask) = 0
    BY DEF StepsLeft, NoTask
  <2>2. QED BY <1>a, <1>10, <2>1 DEF Raise
<1>11. QED BY <1>1, <1>2, <1>3, <1>4, <1>5, <1>6, <1>7, <1>8, <1>9, <1>10 DEF Step

\* extract_batch and _extract_payload come to an end whatever the number of
\* files, jobs and slots: a coroutine takes six steps at most, and as long as a
\* job has not all its payloads one of its coroutines waits for no other.
THEOREM ExtractionsRunOut == Spec => []NoneIsStuck /\ CoroutinesRunOut
<1> DEFINE Nearer == \A j \in Jobs : job[j].pc # "idle" /\ job'[j].pc # "idle" /\ task'[j] # task[j] =>
                       \E f \in Files : /\ StepsLeft(task'[j][f]) < StepsLeft(task[j][f])
                                        /\ \A g \in Files \ {f} : task'[j][g] = task[j][g]
<1>1. ASSUME IInv, Next PROVE Nearer
  <2>1. CASE Classify
    BY <2>1 DEF Classify
  <2>2. ASSUME NEW j \in Jobs, Start(j) \/ Commit(j) \/ Stop(j) PROVE Nearer
    <3>1. job \in [Jobs -> [pc : {"idle", "running", "failed"}, existing : SUBSET Loaded]]
          /\ task \in [Jobs -> [Files -> Task]]
      BY <1>1 DEF IInv, TypeOK
    <3>2. \A i \in Jobs \ {j} : task'[i] = task[i]
      BY <2>2, <3>1 DEF Start, Commit, Stop
    <3>3. job[j].pc = "idle" \/ job'[j].pc = "idle"
      <4>1. CASE Start(j)
        BY <4>1 DEF Start
      <4>2. CASE job' = [job EXCEPT ![j] = NoJob]
        BY <3>1, <4>2 DEF NoJob
      <4>3. QED BY <2>2, <4>1, <4>2 DEF Commit, Stop
    <3>4. QED BY <3>2, <3>3
  <2>3. ASSUME NEW j \in Jobs, NEW f \in Files, Step(j, f) PROVE Nearer
    <3>1. /\ StepsLeft(task'[j][f]) < StepsLeft(task[j][f])
          /\ \A g \in Files \ {f} : task'[j][g] = task[j][g]
          /\ \A i \in Jobs \ {j} : task'[i] = task[i]
      BY <1>1, <2>3, StepNearer, NearerTo
    <3>2. QED BY <3>1
  <2>4. QED BY <1>1, <2>1, <2>2, <2>3 DEF Next
<1> HIDE DEF Nearer
<1>2. IInv /\ [Next]_vars => [Nearer]_vars
  BY <1>1
<1>3. Spec => [][Nearer]_vars
  BY <1>2, Inductive, PTL DEF Spec
<1>4. QED BY <1>3, NeverStuck, Inductive, PTL DEF CoroutinesRunOut, Nearer
=============================================================================
