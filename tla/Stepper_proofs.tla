--------------------------- MODULE Stepper_proofs ---------------------------
(***************************************************************************)
(* The wizard keeps its types whatever the user does; and a user who       *)
(* uploads and runs steps one at a time sees the steps of a batch run in   *)
(* order, a status that is true, and the lists of the batch, for any       *)
(* number of batches and handlers.                                         *)
(***************************************************************************)
EXTENDS Stepper, TLAPS

Statuses == {"idle", "running", "done", "failed"}
Run == [pc : {"none", "request", "load"}, batch : Batches \cup {NoBatch},
        step : Steps \cup {NoStep}, all : BOOLEAN, pending : SUBSET Lists]

\* A handler has a batch and a step.
Types ==
    /\ TypeOK
    /\ \A r \in Runs : run[r].pc # "none" => run[r].step \in Steps /\ run[r].batch \in Batches

LEMMA NoRunType == NoRun \in Run /\ NoRun.pc = "none"
  BY DEF NoRun, Run

LEMMA TypesStart == Init => Types
<1> SUFFICES ASSUME Init PROVE Types
  OBVIOUS
<1>1. \A r \in Runs : run[r] = NoRun
  BY DEF Init
<1>2. run \in [Runs -> Run]
  BY NoRunType DEF Init
<1>3. QED BY <1>1, <1>2, NoRunType DEF Init, Types, TypeOK, Run, InitialSteps

\* What the handler of a request leaves.
LEMMA RequestTypes ==
    ASSUME Types, NEW r \in Runs, NEW b \in Batches, NEW s \in Steps, NEW all \in BOOLEAN,
           NEW status \in [Steps -> Statuses], Request(r, b, s, all, status)
    PROVE  /\ run' \in [Runs -> Run] /\ steps' \in [Steps -> Statuses] /\ runningStep' \in Steps
           /\ \A q \in Runs : run'[q].pc # "none" => run'[q].step \in Steps /\ run'[q].batch \in Batches
           /\ run'[r].pc = "request" /\ run'[r].batch = b /\ run'[r].step = s /\ run'[r].all = all
           /\ \A q \in Runs \ {r} : run'[q] = run[q]
<1> DEFINE new == [NoRun EXCEPT !.pc = "request", !.batch = b, !.step = s, !.all = all]
<1>1. new \in Run /\ new.pc = "request" /\ new.batch = b /\ new.step = s /\ new.all = all
  BY DEF NoRun, Run
<1>2. run \in [Runs -> Run]
  BY DEF Types, TypeOK, Run
<1>3. run' = [run EXCEPT ![r] = new] /\ steps' = [status EXCEPT ![s] = "running"] /\ runningStep' = s
  BY DEF Request
<1> HIDE DEF new
<1>4. run' \in [Runs -> Run] /\ run'[r] = new /\ \A q \in Runs \ {r} : run'[q] = run[q]
  BY <1>1, <1>2, <1>3
<1>5. steps' \in [Steps -> Statuses]
  BY <1>3 DEF Statuses
<1>6. QED BY <1>1, <1>3, <1>4, <1>5 DEF Types

LEMMA FinishTypes ==
    ASSUME Types, NEW r \in Runs, NEW status \in [Steps -> Statuses], Finish(r, status)
    PROVE  /\ run' \in [Runs -> Run] /\ steps' = status /\ runningStep' = NoStep
           /\ runningAll' = (runningAll /\ ~run[r].all)
           /\ run'[r].pc = "none" /\ \A q \in Runs \ {r} : run'[q] = run[q]
           /\ \A q \in Runs : run'[q].pc # "none" => run'[q].step \in Steps /\ run'[q].batch \in Batches
<1>1. run \in [Runs -> Run]
  BY DEF Types, TypeOK, Run
<1>2. run' = [run EXCEPT ![r] = NoRun]
  BY DEF Finish
<1>3. run' \in [Runs -> Run] /\ run'[r] = NoRun /\ \A q \in Runs \ {r} : run'[q] = run[q]
  BY <1>1, <1>2, NoRunType
<1>4. QED BY <1>3, NoRunType DEF Finish, Types

LEMMA ProceedTypes ==
    ASSUME Types, NEW r \in Runs, run[r].pc # "none",
           NEW status \in [Steps -> Statuses], Proceed(r, status)
    PROVE  /\ run' \in [Runs -> Run] /\ steps' \in [Steps -> Statuses]
           /\ runningStep' \in Steps \cup {NoStep} /\ runningAll' \in BOOLEAN
           /\ \A q \in Runs : run'[q].pc # "none" => run'[q].step \in Steps /\ run'[q].batch \in Batches
<1>1. run[r].step \in Steps /\ run[r].batch \in Batches /\ runningAll \in BOOLEAN
  BY DEF Types, TypeOK
<1>2. CASE run[r].all /\ run[r].step < Report
  <2>1. run[r].step + 1 \in Steps
    BY <1>1, <1>2 DEF Steps, Report
  <2>2. Request(r, run[r].batch, run[r].step + 1, TRUE, status) /\ runningAll' = runningAll
    BY <1>2 DEF Proceed
  <2>3. QED BY <1>1, <2>1, <2>2, RequestTypes
<1>3. CASE ~(run[r].all /\ run[r].step < Report)
  <2>1. Finish(r, status)
    BY <1>3 DEF Proceed
  <2>2. QED BY <2>1, FinishTypes
<1>4. QED BY <1>2, <1>3

LEMMA TypesStep == Types /\ [Next]_vars => Types'
<1> SUFFICES ASSUME Types, [Next]_vars PROVE Types'
  OBVIOUS
<1>1. /\ batch \in created \cup {NoBatch} /\ created \subseteq Batches
      /\ uploading \in BOOLEAN /\ runningAll \in BOOLEAN
      /\ steps \in [Steps -> Statuses] /\ runningStep \in Steps \cup {NoStep}
      /\ run \in [Runs -> Run]
      /\ shown \in [Lists -> Batches \cup {NoBatch}] /\ refresh \in [Lists -> Batches \cup {NoBatch}]
      /\ loading \in [Lists -> BOOLEAN] /\ served \in [Batches -> SUBSET Steps]
  BY DEF Types, TypeOK, Run, Statuses
<1>2. CASE Upload \/ Uploaded \/ UploadFailed
  <2>1. UNCHANGED <<run, refresh, loading, served>> /\ uploading' \in BOOLEAN
    BY <1>2 DEF Upload, Uploaded, UploadFailed
  <2>2. batch' \in created' \cup {NoBatch} /\ created' \subseteq Batches
    BY <1>1, <1>2 DEF Upload, Uploaded, UploadFailed
  <2>3. /\ steps' \in [Steps -> Statuses] /\ runningStep' \in Steps \cup {NoStep}
        /\ runningAll' \in BOOLEAN /\ shown' \in [Lists -> Batches \cup {NoBatch}]
    <3>1. CASE Upload \/ UploadFailed
      BY <1>1, <3>1 DEF Upload, UploadFailed
    <3>2. CASE Uploaded
      BY <3>2 DEF Uploaded, InitialSteps, Statuses
    <3>3. QED BY <1>2, <3>1, <3>2
  <2>4. QED BY <1>1, <2>1, <2>2, <2>3 DEF Types, TypeOK, Run, Statuses
<1>3. ASSUME NEW r \in Runs, RunStep(r) \/ RunAll(r) PROVE Types'
  <2>1. batch \in Batches /\ Current \subseteq Steps
    BY <1>1, <1>3 DEF RunStep, RunAll, MayRun, Current, First
  <2>2. PICK s \in Steps, all \in BOOLEAN, status \in {steps, InitialSteps} : Request(r, batch, s, all, status)
    <3>1. CASE RunStep(r)
      BY <2>1, <3>1 DEF RunStep
    <3>2. CASE RunAll(r)
      <4>1. 1 \in Steps
        BY DEF Steps
      <4>2. CASE Current # {}
        BY <2>1, <3>2, <4>2 DEF RunAll
      <4>3. CASE Current = {}
        BY <3>2, <4>1, <4>3 DEF RunAll
      <4>4. QED BY <4>2, <4>3
    <3>3. QED BY <1>3, <3>1, <3>2
  <2>3. status \in [Steps -> Statuses]
    BY <1>1, <2>2 DEF InitialSteps, Statuses
  <2>4. /\ run' \in [Runs -> Run] /\ steps' \in [Steps -> Statuses] /\ runningStep' \in Steps
        /\ \A q \in Runs : run'[q].pc # "none" => run'[q].step \in Steps /\ run'[q].batch \in Batches
    BY <2>1, <2>2, <2>3, RequestTypes
  <2>5. runningAll' \in BOOLEAN /\ UNCHANGED <<page, shown, loading, refresh, served>>
    BY <1>1, <1>3 DEF RunStep, RunAll
  <2>6. QED BY <1>1, <2>4, <2>5 DEF Types, TypeOK, page, Run, Statuses
<1>4. ASSUME NEW r \in Runs, Answered(r) PROVE Types'
  <2> DEFINE s == run[r].step
             status == [steps EXCEPT ![s] = "done"]
  <2>1. s \in Steps /\ run[r].batch \in Batches /\ run[r].pc = "request"
    BY <1>4 DEF Answered, Types
  <2>2. status \in [Steps -> Statuses]
    BY <1>1 DEF Statuses
  <2>3. served' \in [Batches -> SUBSET Steps]
    BY <1>1, <1>4, <2>1 DEF Answered, Serve
  <2>4. UNCHANGED <<page, shown, refresh>>
    BY <1>4 DEF Answered
  <2>5. CASE Loads(s) = {}
    <3>1. Proceed(r, status) /\ UNCHANGED loading
      BY <1>4, <2>5 DEF Answered
    <3> HIDE DEF status
    <3>2. /\ run' \in [Runs -> Run] /\ steps' \in [Steps -> Statuses]
          /\ runningStep' \in Steps \cup {NoStep} /\ runningAll' \in BOOLEAN
          /\ \A q \in Runs : run'[q].pc # "none" => run'[q].step \in Steps /\ run'[q].batch \in Batches
      BY <2>1, <2>2, <3>1, ProceedTypes
    <3>3. QED BY <1>1, <2>3, <2>4, <3>1, <3>2 DEF Types, TypeOK, page, Run, Statuses
  <2>6. CASE Loads(s) # {}
    <3>1. /\ run' = [run EXCEPT ![r].pc = "load", ![r].pending = Loads(s)]
          /\ steps' = status /\ loading' = [l \in Lists |-> loading[l] \/ l \in Loads(s)]
          /\ UNCHANGED <<runningStep, runningAll>>
      BY <1>4, <2>6 DEF Answered
    <3>2. Loads(s) \subseteq Lists
      BY DEF Loads, Lists
    <3>3. run' \in [Runs -> Run] /\ \A q \in Runs : run'[q].step = run[q].step /\ run'[q].batch = run[q].batch
                                                    /\ (run'[q].pc = "none" <=> run[q].pc = "none")
      <4>1. run[r] \in Run
        BY <1>1
      <4> DEFINE new == [run[r] EXCEPT !.pc = "load", !.pending = Loads(s)]
      <4>3. new \in Run /\ new.step = s /\ new.batch = run[r].batch /\ new.pc = "load"
        BY <3>2, <4>1 DEF Run
      <4>4. run' = [run EXCEPT ![r] = new]
        BY <1>1, <3>1, <4>1
      <4> HIDE DEF new
      <4>5. QED BY <1>1, <2>1, <4>3, <4>4
    <3>4. loading' \in [Lists -> BOOLEAN]
      BY <1>1, <3>1
    <3>5. QED BY <1>1, <2>2, <2>3, <2>4, <3>1, <3>3, <3>4 DEF Types, TypeOK, page, Run, Statuses
  <2>7. QED BY <2>5, <2>6
<1>5. ASSUME NEW r \in Runs, Failed(r) PROVE Types'
  <2> DEFINE status == [steps EXCEPT ![run[r].step] = "failed"]
  <2>1. run[r].step \in Steps /\ run[r].batch \in Batches
    BY <1>5 DEF Failed, Types
  <2>2. status \in [Steps -> Statuses]
    BY <1>1 DEF Statuses
  <2>3. served' \in [Batches -> SUBSET Steps]
    BY <1>1, <1>5, <2>1 DEF Failed, Serve
  <2>4. Finish(r, status) /\ UNCHANGED <<page, shown, loading, refresh>>
    BY <1>5 DEF Failed
  <2> HIDE DEF status
  <2>5. /\ run' \in [Runs -> Run] /\ steps' = status /\ runningStep' = NoStep
        /\ runningAll' = (runningAll /\ ~run[r].all)
        /\ \A q \in Runs : run'[q].pc # "none" => run'[q].step \in Steps /\ run'[q].batch \in Batches
    BY <2>2, <2>4, FinishTypes
  <2>6. QED BY <1>1, <2>2, <2>3, <2>4, <2>5 DEF Types, TypeOK, page, Run, Statuses
<1>6. ASSUME NEW r \in Runs, NEW l \in Lists, Loaded(r, l) PROVE Types'
  <2>1. run[r].pc # "none" /\ run[r].batch \in Batches
    BY <1>6 DEF Loaded, Types
  <2>2. shown' \in [Lists -> Batches \cup {NoBatch}] /\ loading' \in [Lists -> BOOLEAN]
    BY <1>1, <1>6, <2>1 DEF Loaded, Arrive
  <2>3. UNCHANGED <<page, refresh, served>>
    BY <1>6 DEF Loaded
  <2>4. CASE Proceed(r, steps)
    <3>1. /\ run' \in [Runs -> Run] /\ steps' \in [Steps -> Statuses]
          /\ runningStep' \in Steps \cup {NoStep} /\ runningAll' \in BOOLEAN
          /\ \A q \in Runs : run'[q].pc # "none" => run'[q].step \in Steps /\ run'[q].batch \in Batches
      BY <1>1, <2>1, <2>4, ProceedTypes
    <3>2. QED BY <1>1, <2>2, <2>3, <3>1 DEF Types, TypeOK, page, Run, Statuses
  <2>5. CASE run' = [run EXCEPT ![r].pending = @ \ {l}] /\ UNCHANGED <<steps, runningStep, runningAll>>
    <3>1. run' \in [Runs -> Run] /\ \A q \in Runs : run'[q].step = run[q].step /\ run'[q].batch = run[q].batch
                                                    /\ run'[q].pc = run[q].pc
      BY <1>1, <2>5 DEF Run
    <3>2. QED BY <1>1, <2>2, <2>3, <2>5, <3>1 DEF Types, TypeOK, page, Run, Statuses
  <2>6. QED BY <1>6, <2>4, <2>5 DEF Loaded
<1>7. ASSUME NEW l \in Lists, Refresh(l) \/ Refreshed(l) PROVE Types'
  <2>1. /\ shown' \in [Lists -> Batches \cup {NoBatch}] /\ loading' \in [Lists -> BOOLEAN]
        /\ refresh' \in [Lists -> Batches \cup {NoBatch}]
    BY <1>1, <1>7 DEF Refresh, Refreshed, Arrive
  <2>2. UNCHANGED <<page, steps, runningStep, runningAll, run, served>>
    BY <1>7 DEF Refresh, Refreshed
  <2>3. QED BY <1>1, <2>1, <2>2 DEF Types, TypeOK, page, Run, Statuses
<1>8. CASE UNCHANGED vars
  BY <1>1, <1>8 DEF vars, page, Types, TypeOK, Run, Statuses
<1>9. QED BY <1>2, <1>3, <1>4, <1>5, <1>6, <1>7, <1>8 DEF Next, Respond

\* Whatever the user and the server do, every variable keeps its type
\* (App.tsx, handleUpload to handleRunAll).
THEOREM WizardTypes == Spec => []TypeOK
<1>1. Types => TypeOK
  BY DEF Types
<1>2. QED BY <1>1, TypesStart, TypesStep, PTL DEF Spec

-----------------------------------------------------------------------------
(* One thing at a time *)

\* A handler is alone, and of the page's batch; its step is the last that was
\* begun.
Handlers ==
    \A r \in Runs : run[r].pc # "none" =>
      /\ run[r].batch = batch /\ ~uploading /\ runningStep = run[r].step
      /\ \A q \in Runs : run[q].pc # "none" => q = r
      /\ steps[run[r].step] = IF run[r].pc = "request" THEN "running" ELSE "done"
      /\ \A s \in Steps : s > run[r].step => steps[s] = "idle"

\* A step is begun when those before it are done; what is done was served.
Ordered ==
    /\ \A s, t \in Steps : t < s /\ steps[s] # "idle" => steps[t] = "done"
    /\ \A s \in Steps : steps[s] = "done" => s \in served[batch]
    /\ \A s \in Steps : steps[s] = "running" => \E r \in Runs : run[r].pc = "request" /\ run[r].step = s
    /\ batch = NoBatch => \A s \in Steps : steps[s] = "idle"

\* A button loads a list of the page's batch.
Buttons ==
    /\ ListsAreOfTheBatch
    /\ \A l \in Lists : refresh[l] # NoBatch => refresh[l] = batch /\ ~uploading

OneAtATime == Types /\ Handlers /\ Ordered /\ Buttons

LEMMA CalmStart == Init => OneAtATime
<1> SUFFICES ASSUME Init PROVE OneAtATime
  OBVIOUS
<1>1. \A r \in Runs : run[r].pc = "none"
  BY NoRunType DEF Init
<1>2. \A s \in Steps : steps[s] = "idle"
  BY DEF Init, InitialSteps
<1>3. \A l \in Lists : refresh[l] = NoBatch /\ shown[l] = NoBatch
  BY DEF Init
<1>4. QED BY <1>1, <1>2, <1>3, TypesStart DEF OneAtATime, Handlers, Ordered, Buttons, ListsAreOfTheBatch

\* The only handler, or a new one where none was, sends the request of a step
\* when those before it are done and those after it are not begun.
LEMMA RequestCalm ==
    ASSUME Types, NEW r \in Runs, \A q \in Runs \ {r} : run[q].pc = "none",
           batch \in Batches, ~uploading, UNCHANGED page,
           NEW s \in Steps, NEW all \in BOOLEAN, NEW status \in [Steps -> Statuses],
           \A t \in Steps : t < s => status[t] = "done" /\ t \in served'[batch],
           \A t \in Steps : t > s => status[t] = "idle",
           Request(r, batch, s, all, status)
    PROVE  Handlers' /\ Ordered'
<1>1. /\ runningStep' = s /\ steps' = [status EXCEPT ![s] = "running"]
      /\ run'[r].pc = "request" /\ run'[r].batch = batch /\ run'[r].step = s
      /\ \A q \in Runs \ {r} : run'[q].pc = "none"
  <2>1. runningStep' = s /\ steps' = [status EXCEPT ![s] = "running"]
    BY DEF Request
  <2>2. /\ run'[r].pc = "request" /\ run'[r].batch = batch /\ run'[r].step = s
        /\ \A q \in Runs \ {r} : run'[q] = run[q]
    BY RequestTypes
  <2>3. QED BY <2>1, <2>2
<1>2. steps'[s] = "running" /\ \A t \in Steps : t # s => steps'[t] = status[t]
  BY <1>1
<1>3. \A t \in Steps : /\ t < s => steps'[t] = "done" /\ t \in served'[batch]
                       /\ t > s => steps'[t] = "idle"
                       /\ t < s \/ t = s \/ t > s
  BY <1>2 DEF Steps
<1>4. batch' = batch /\ ~uploading' /\ batch # NoBatch
  BY StepperConstants DEF page
<1>5. Handlers'
  BY <1>1, <1>2, <1>3, <1>4 DEF Handlers
<1>6. \A x, t \in Steps : t < x /\ steps'[x] # "idle" => t < s
  <2>1. \A x \in Steps : steps'[x] # "idle" => x <= s
    BY <1>3 DEF Steps
  <2>2. QED BY <2>1 DEF Steps
<1>7. Ordered'
  BY <1>1, <1>2, <1>3, <1>4, <1>6 DEF Ordered
<1>8. QED BY <1>5, <1>7

\* The only handler ends; its step was the last that was begun.
LEMMA FinishCalm ==
    ASSUME OneAtATime, NEW r \in Runs, run[r].pc # "none", UNCHANGED page,
           NEW result \in {"done", "failed"}, result = "done" => run[r].step \in served'[batch],
           \A t \in Steps : t \in served[batch] => t \in served'[batch],
           Finish(r, [steps EXCEPT ![run[r].step] = result])
    PROVE  Handlers' /\ Ordered'
<1> DEFINE s == run[r].step
           status == [steps EXCEPT ![s] = result]
<1>1. s \in Steps /\ steps \in [Steps -> Statuses] /\ batch \in Batches /\ batch # NoBatch
  BY StepperConstants DEF OneAtATime, Types, TypeOK, Handlers, Statuses
<1>2. status \in [Steps -> Statuses]
  BY <1>1 DEF Statuses
<1>3. status[s] = result /\ \A t \in Steps : t # s => status[t] = steps[t]
  BY <1>1
<1>4. /\ \A t \in Steps : t < s => steps[t] = "done"
      /\ \A t \in Steps : t > s => steps[t] = "idle"
  BY <1>1 DEF OneAtATime, Handlers, Ordered
<1>5. Finish(r, status)
  OBVIOUS
<1> HIDE DEF s, status
<1>6. steps' = status /\ run'[r].pc = "none" /\ \A q \in Runs \ {r} : run'[q] = run[q]
  BY <1>2, <1>5, FinishTypes DEF OneAtATime
<1>7. \A q \in Runs : run'[q].pc = "none"
  BY <1>6 DEF OneAtATime, Handlers
<1>8. \A t \in Steps : t < s \/ t = s \/ t > s
  BY <1>1 DEF Steps
<1>9. \A t \in Steps : /\ t < s => steps'[t] = "done"
                       /\ t > s => steps'[t] = "idle"
                       /\ t = s => steps'[t] = result
  BY <1>1, <1>3, <1>4, <1>6, <1>8 DEF Steps
<1>10. \A x, t \in Steps : t < x /\ steps'[x] # "idle" => t < s
  <2>1. \A x \in Steps : steps'[x] # "idle" => x <= s
    BY <1>1, <1>8, <1>9 DEF Steps
  <2>2. QED BY <1>1, <2>1 DEF Steps
<1>11. \A t \in Steps : steps'[t] = "done" => t \in served'[batch]
  <2>1. \A t \in Steps : t < s => t \in served[batch]
    BY <1>4 DEF OneAtATime, Ordered
  <2>2. QED BY <1>8, <1>9, <2>1 DEF s
<1>12. \A t \in Steps : steps'[t] # "running"
  BY <1>8, <1>9
<1>13. batch' = batch
  BY DEF page
<1>14. Ordered'
  BY <1>1, <1>9, <1>10, <1>11, <1>12, <1>13 DEF Ordered
<1>15. Handlers'
  BY <1>7 DEF Handlers
<1>16. QED BY <1>14, <1>15

\* A step that is done is followed by the next, or by the end.
LEMMA ProceedCalm ==
    ASSUME OneAtATime, NEW r \in Runs, run[r].pc # "none", UNCHANGED page,
           run[r].step \in served'[batch],
           \A t \in Steps : t \in served[batch] => t \in served'[batch],
           Proceed(r, [steps EXCEPT ![run[r].step] = "done"])
    PROVE  Handlers' /\ Ordered'
<1> DEFINE s == run[r].step
           status == [steps EXCEPT ![s] = "done"]
<1>1. s \in Steps /\ steps \in [Steps -> Statuses] /\ batch \in Batches /\ ~uploading /\ run[r].batch = batch
  BY DEF OneAtATime, Types, TypeOK, Handlers, Statuses
<1>2. status \in [Steps -> Statuses]
  BY <1>1 DEF Statuses
<1>3. CASE run[r].all /\ s < Report
  <2>1. Request(r, batch, s + 1, TRUE, status) /\ s + 1 \in Steps
    <3>1. Request(r, batch, s + 1, TRUE, status)
      BY <1>1, <1>3 DEF Proceed
    <3>2. s + 1 \in Steps
      BY <1>1, <1>3 DEF Steps, Report
    <3>3. QED BY <3>1, <3>2
  <2>2. \A q \in Runs \ {r} : run[q].pc = "none"
    BY DEF OneAtATime, Handlers
  <2>3. \A t \in Steps : t < s => steps[t] = "done" /\ t \in served[batch]
    BY <1>1 DEF OneAtATime, Handlers, Ordered
  <2>4. \A t \in Steps : t > s => steps[t] = "idle"
    BY DEF OneAtATime, Handlers
  <2>5. status[s] = "done" /\ \A t \in Steps : t # s => status[t] = steps[t]
    BY <1>1
  <2> HIDE DEF status
  <2>6. \A t \in Steps : t < s + 1 => status[t] = "done" /\ t \in served'[batch]
    <3>1. \A t \in Steps : t < s + 1 => t < s \/ t = s
      BY <1>1 DEF Steps
    <3>2. QED BY <2>3, <2>5, <3>1
  <2>7. \A t \in Steps : t > s + 1 => status[t] = "idle"
    <3>1. \A t \in Steps : t > s + 1 => t > s /\ t # s
      BY <1>1 DEF Steps
    <3>2. QED BY <2>4, <2>5, <3>1
  <2> HIDE DEF s
  <2>8. QED BY <1>1, <1>2, <2>1, <2>2, <2>6, <2>7, RequestCalm DEF OneAtATime
<1>4. CASE ~(run[r].all /\ s < Report)
  <2>1. Finish(r, status)
    BY <1>4 DEF Proceed
  <2>2. QED BY <2>1, FinishCalm
<1>5. QED BY <1>3, <1>4

\* A button that is free to run steps finds no handler, and nothing under way.
LEMMA FreeToRun ==
    ASSUME OneAtATime, ~UploadAnytime, MayRun
    PROVE  /\ \A r \in Runs : run[r].pc = "none"
           /\ \A s \in Steps : steps[s] # "running"
           /\ batch \in Batches /\ ~uploading
<1>1. batch # NoBatch /\ runningStep = NoStep /\ ~uploading
  BY DEF MayRun
<1>2. NoStep \notin Steps
  BY DEF NoStep, Steps
<1>3. \A r \in Runs : run[r].pc = "none"
  BY <1>1, <1>2 DEF OneAtATime, Types, Handlers
<1>4. QED BY <1>1, <1>3 DEF OneAtATime, Types, TypeOK, Ordered

\* The current step follows those that are done.
LEMMA CurrentFollows ==
    ASSUME OneAtATime, \A t \in Steps : steps[t] # "running", NEW s \in Current
    PROVE  /\ s \in Steps
           /\ \A t \in Steps : t < s => steps[t] = "done"
           /\ \A t \in Steps : t > s => steps[t] = "idle"
<1>1. /\ steps \in [Steps -> Statuses]
      /\ \A x, t \in Steps : t < x /\ steps[x] # "idle" => steps[t] = "done"
  BY DEF OneAtATime, Types, TypeOK, Statuses, Ordered
<1>2. s \in First("failed") \/ (s \in First("idle") /\ First("failed") = {})
  BY DEF Current
<1>3. s \in Steps /\ (steps[s] = "failed" \/ steps[s] = "idle")
  BY <1>2 DEF First
<1>4. \A t \in Steps : t > s => steps[t] = "idle"
  <2>1. \A t \in Steps : t > s => s < t
    BY <1>3 DEF Steps
  <2>2. QED BY <1>1, <1>3, <2>1
<1>5. CASE steps[s] = "failed"
  BY <1>1, <1>3, <1>4, <1>5
<1>6. CASE steps[s] = "idle" /\ s \in First("idle") /\ First("failed") = {}
  <2>1. \A t \in Steps : steps[t] # "failed"
    <3>1. \A t \in Steps : steps[t] = "failed" => \A u \in Steps : u < t => steps[u] = "done"
      BY <1>1
    <3>2. \A t \in Steps : steps[t] = "failed" => \A u \in Steps : steps[u] = "failed" => t <= u
      BY <3>1 DEF Steps
    <3>3. QED BY <1>6, <3>2 DEF First
  <2>2. \A t \in Steps : t < s => steps[t] # "idle"
    BY <1>3, <1>6 DEF First, Steps
  <2>3. QED BY <1>1, <1>3, <1>4, <2>1, <2>2 DEF Statuses
<1>7. QED BY <1>2, <1>3, <1>5, <1>6 DEF First

\* What neither uploads nor presses a button keeps the lists.
LEMMA ButtonsStay ==
    ASSUME OneAtATime, UNCHANGED <<page, refresh>>,
           UNCHANGED shown \/ (\E l \in Lists : shown' = [shown EXCEPT ![l] = batch])
    PROVE  Buttons'
<1>1. shown \in [Lists -> Batches \cup {NoBatch}] /\ \A l \in Lists : shown[l] \in {NoBatch, batch}
  BY DEF OneAtATime, Types, TypeOK, Buttons, ListsAreOfTheBatch
<1>2. \A l \in Lists : shown'[l] \in {NoBatch, batch}
  BY <1>1
<1>3. QED BY <1>2 DEF OneAtATime, Buttons, ListsAreOfTheBatch, page

LEMMA CalmStep ==
    ASSUME ~UploadAnytime, OneAtATime, [Next]_vars
    PROVE  OneAtATime'
<1>1. Types'
  BY TypesStep DEF OneAtATime
<1>2. CASE Upload
  <2>1. ~Working /\ ~Refreshing /\ UNCHANGED <<batch, steps, runningStep, run, shown, refresh, served>>
    BY <1>2 DEF Upload
  <2>2. (\A r \in Runs : run'[r].pc = "none") /\ (\A l \in Lists : refresh'[l] = NoBatch)
    BY <2>1 DEF Working, Refreshing
  <2>3. QED BY <1>1, <2>1, <2>2 DEF OneAtATime, Handlers, Ordered, Buttons, ListsAreOfTheBatch
<1>3. CASE Uploaded
  <2>1. /\ uploading /\ batch' \in Batches /\ steps' = InitialSteps
        /\ shown' = [l \in Lists |-> NoBatch] /\ UNCHANGED <<run, refresh, served>>
    BY <1>3 DEF Uploaded
  <2>2. \A r \in Runs : run'[r].pc = "none"
    BY <2>1 DEF OneAtATime, Handlers
  <2>3. \A l \in Lists : refresh'[l] = NoBatch /\ shown'[l] = NoBatch
    BY <2>1 DEF OneAtATime, Buttons
  <2>4. \A s \in Steps : steps'[s] = "idle"
    BY <2>1 DEF InitialSteps
  <2>5. QED BY <1>1, <2>2, <2>3, <2>4 DEF OneAtATime, Handlers, Ordered, Buttons, ListsAreOfTheBatch
<1>4. CASE UploadFailed
  <2>1. ~uploading' /\ UNCHANGED <<batch, steps, runningStep, run, shown, refresh, served>>
    BY <1>4 DEF UploadFailed
  <2>2. QED BY <1>1, <2>1 DEF OneAtATime, Handlers, Ordered, Buttons, ListsAreOfTheBatch
<1>5. ASSUME NEW r \in Runs, RunStep(r) \/ RunAll(r) PROVE OneAtATime'
  <2>1. MayRun /\ UNCHANGED <<page, shown, loading, refresh, served>>
    BY <1>5 DEF RunStep, RunAll
  <2>2. /\ \A q \in Runs \ {r} : run[q].pc = "none"
        /\ \A s \in Steps : steps[s] # "running"
        /\ batch \in Batches /\ ~uploading
    BY <2>1, FreeToRun
  <2>3. Types /\ steps \in [Steps -> Statuses]
    BY DEF OneAtATime, Types, TypeOK, Statuses
  <2>4. ASSUME NEW s \in Current, NEW all \in BOOLEAN, Request(r, batch, s, all, steps)
        PROVE  Handlers' /\ Ordered'
    <3>1. /\ s \in Steps
          /\ \A t \in Steps : t < s => steps[t] = "done"
          /\ \A t \in Steps : t > s => steps[t] = "idle"
      BY <2>2, <2>4, CurrentFollows
    <3>2. \A t \in Steps : t < s => t \in served'[batch]
      BY <2>1, <3>1 DEF OneAtATime, Ordered
    <3>3. QED BY <2>1, <2>2, <2>3, <2>4, <3>1, <3>2, RequestCalm
  <2>5. ASSUME Request(r, batch, 1, TRUE, InitialSteps) PROVE Handlers' /\ Ordered'
    <3>1. /\ 1 \in Steps /\ InitialSteps \in [Steps -> Statuses]
          /\ \A t \in Steps : ~(t < 1)
          /\ \A t \in Steps : InitialSteps[t] = "idle"
      BY DEF InitialSteps, Statuses, Steps
    <3>2. QED BY <2>1, <2>2, <2>3, <2>5, <3>1, RequestCalm
  <2>6. Handlers' /\ Ordered'
    <3>1. CASE RunStep(r)
      BY <2>4, <3>1 DEF RunStep
    <3>2. CASE RunAll(r)
      BY <2>4, <2>5, <3>2 DEF RunAll
    <3>3. QED BY <1>5, <3>1, <3>2
  <2>7. QED BY <1>1, <2>1, <2>6, ButtonsStay DEF OneAtATime
<1>6. ASSUME NEW r \in Runs, Answered(r) PROVE OneAtATime'
  <2> DEFINE s == run[r].step
  <2>1. /\ run[r].pc = "request" /\ run[r].batch = batch /\ s \in Steps /\ batch \in Batches
        /\ served \in [Batches -> SUBSET Steps] /\ steps \in [Steps -> Statuses]
    BY <1>6 DEF Answered, OneAtATime, Types, TypeOK, Handlers, Statuses
  <2>2. UNCHANGED <<page, shown, refresh>> /\ served' = [served EXCEPT ![batch] = @ \cup {s}]
    BY <1>6, <2>1 DEF Answered, Serve
  <2>3. s \in served'[batch] /\ \A t \in Steps : t \in served[batch] => t \in served'[batch]
    BY <2>1, <2>2
  <2>4. CASE Loads(s) = {}
    <3>1. Proceed(r, [steps EXCEPT ![s] = "done"])
      BY <1>6, <2>4 DEF Answered
    <3>2. QED BY <1>1, <2>1, <2>2, <2>3, <3>1, ProceedCalm, ButtonsStay DEF OneAtATime
  <2>5. CASE Loads(s) # {}
    <3>1. /\ run' = [run EXCEPT ![r].pc = "load", ![r].pending = Loads(s)]
          /\ steps' = [steps EXCEPT ![s] = "done"] /\ runningStep' = runningStep
      BY <1>6, <2>5 DEF Answered
    <3>2. run \in [Runs -> Run]
      BY DEF OneAtATime, Types, TypeOK, Run
    <3>3. /\ \A q \in Runs \ {r} : run'[q] = run[q]
          /\ run'[r].pc = "load" /\ run'[r].batch = batch /\ run'[r].step = s
      <4>1. run'[r] = [run[r] EXCEPT !.pc = "load", !.pending = Loads(s)] /\ \A q \in Runs \ {r} : run'[q] = run[q]
        BY <3>1, <3>2
      <4>2. run[r] \in Run
        BY <3>2
      <4>3. QED BY <2>1, <4>1, <4>2 DEF Run
    <3>4. /\ ~uploading /\ runningStep = s /\ \A q \in Runs : run[q].pc # "none" => q = r
          /\ \A t \in Steps : t > s => steps[t] = "idle"
          /\ \A t \in Steps : t < s => steps[t] = "done"
      <4>1. ~uploading /\ runningStep = s /\ steps[s] = "running" /\ \A t \in Steps : t > s => steps[t] = "idle"
        BY <2>1 DEF OneAtATime, Handlers
      <4>2. \A q \in Runs : run[q].pc # "none" => q = r
        BY <2>1 DEF OneAtATime, Handlers
      <4>3. \A t \in Steps : t < s => steps[t] = "done"
        BY <2>1, <4>1 DEF OneAtATime, Ordered
      <4>4. QED BY <4>1, <4>2, <4>3
    <3>5. steps'[s] = "done" /\ \A t \in Steps : t # s => steps'[t] = steps[t]
      BY <2>1, <3>1
    <3>6. batch' = batch /\ uploading' = uploading
      BY <2>2 DEF page
    <3>7. \A t \in Steps : /\ t < s \/ t = s \/ t > s
                           /\ t > s => t # s
                           /\ t < s => t # s
      BY <2>1 DEF Steps
    <3>8. \A q \in Runs : q # r => run'[q].pc = "none"
      BY <3>3, <3>4
    <3> HIDE DEF s
    <3>9. Handlers'
      <4>1. \A t \in Steps : t > s => steps'[t] = "idle"
        BY <3>4, <3>5, <3>7
      <4>2. ~uploading' /\ runningStep' = s /\ run'[r].batch = batch' /\ run'[r].pc # "request"
        BY <3>1, <3>3, <3>4, <3>6
      <4>3. QED BY <3>3, <3>5, <3>8, <4>1, <4>2 DEF Handlers
    <3>10. Ordered'
      <4>1. \A t \in Steps : steps'[t] # "idle" => steps'[t] = "done" /\ t <= s
        BY <2>1, <3>4, <3>5, <3>7 DEF Steps
      <4>2. \A x, t \in Steps : t < x /\ steps'[x] # "idle" => t < s
        BY <2>1, <4>1 DEF Steps
      <4>3. \A t \in Steps : t < s => steps'[t] = "done"
        BY <3>4, <3>5, <3>7
      <4>4. \A t \in Steps : steps'[t] = "done" => t \in served'[batch]
        BY <2>3, <3>5 DEF OneAtATime, Ordered
      <4>5. batch # NoBatch
        BY <2>1, StepperConstants
      <4>6. \A t \in Steps : steps'[t] # "running"
        BY <4>1
      <4>7. QED BY <3>6, <4>2, <4>3, <4>4, <4>5, <4>6 DEF Ordered
    <3>11. QED BY <1>1, <2>2, <3>9, <3>10, ButtonsStay DEF OneAtATime
  <2>6. QED BY <2>4, <2>5
<1>7. ASSUME NEW r \in Runs, Failed(r) PROVE OneAtATime'
  <2>1. /\ run[r].pc = "request" /\ run[r].batch = batch /\ run[r].step \in Steps /\ batch \in Batches
        /\ served \in [Batches -> SUBSET Steps]
    BY <1>7 DEF Failed, OneAtATime, Types, TypeOK, Handlers
  <2>2. /\ UNCHANGED <<page, shown, loading, refresh>>
        /\ Finish(r, [steps EXCEPT ![run[r].step] = "failed"])
        /\ served' = [served EXCEPT ![batch] = @ \cup {run[r].step}] \/ served' = served
    BY <1>7, <2>1 DEF Failed, Serve
  <2>3. \A t \in Steps : t \in served[batch] => t \in served'[batch]
    BY <2>1, <2>2
  <2>4. Handlers' /\ Ordered'
    BY <2>1, <2>2, <2>3, FinishCalm
  <2>5. QED BY <1>1, <2>2, <2>4, ButtonsStay DEF OneAtATime
<1>8. ASSUME NEW r \in Runs, NEW l \in Lists, Loaded(r, l) PROVE OneAtATime'
  <2>1. /\ run[r].pc = "load" /\ run[r].batch = batch /\ run[r].step \in Steps
        /\ steps \in [Steps -> Statuses] /\ steps[run[r].step] = "done" /\ run \in [Runs -> Run]
    BY <1>8 DEF Loaded, OneAtATime, Types, TypeOK, Handlers, Statuses, Run
  <2>2. /\ UNCHANGED <<page, refresh, served>>
        /\ UNCHANGED shown \/ shown' = [shown EXCEPT ![l] = batch]
    BY <1>8, <2>1 DEF Loaded, Arrive
  <2>3. Buttons'
    BY <2>2, ButtonsStay DEF OneAtATime
  <2>4. CASE Proceed(r, steps)
    <3>1. steps = [steps EXCEPT ![run[r].step] = "done"]
      BY <2>1
    <3>2. Proceed(r, [steps EXCEPT ![run[r].step] = "done"])
      BY <2>4, <3>1
    <3>3. run[r].step \in served'[batch] /\ \A t \in Steps : t \in served[batch] => t \in served'[batch]
      BY <2>1, <2>2 DEF OneAtATime, Ordered
    <3>4. Handlers' /\ Ordered'
      BY <2>1, <2>2, <3>2, <3>3, ProceedCalm
    <3>5. QED BY <1>1, <2>3, <3>4 DEF OneAtATime
  <2>5. CASE run' = [run EXCEPT ![r].pending = @ \ {l}] /\ UNCHANGED <<steps, runningStep, runningAll>>
    <3>1. \A q \in Runs : run'[q].pc = run[q].pc /\ run'[q].batch = run[q].batch /\ run'[q].step = run[q].step
      BY <2>1, <2>5 DEF Run
    <3>2. Handlers' /\ Ordered'
      BY <2>2, <2>5, <3>1 DEF OneAtATime, Handlers, Ordered, page
    <3>3. QED BY <1>1, <2>3, <3>2 DEF OneAtATime
  <2>6. QED BY <1>8, <2>4, <2>5 DEF Loaded
<1>9. ASSUME NEW l \in Lists, Refresh(l) \/ Refreshed(l) PROVE OneAtATime'
  <2>1. UNCHANGED <<page, steps, runningStep, run, served>>
    BY <1>9 DEF Refresh, Refreshed
  <2>2. Handlers' /\ Ordered'
    BY <2>1 DEF OneAtATime, Handlers, Ordered, page
  <2>3. /\ shown \in [Lists -> Batches \cup {NoBatch}] /\ refresh \in [Lists -> Batches \cup {NoBatch}]
        /\ Buttons
    BY DEF OneAtATime, Types, TypeOK
  <2>4. Buttons'
    <3>1. CASE Refresh(l)
      <4>1. refresh' = [refresh EXCEPT ![l] = batch] /\ ~uploading /\ UNCHANGED <<page, shown>>
        BY <3>1 DEF Refresh
      <4>2. QED BY <2>3, <4>1 DEF Buttons, ListsAreOfTheBatch, page
    <3>2. CASE Refreshed(l)
      <4>1. /\ refresh[l] = batch /\ refresh' = [refresh EXCEPT ![l] = NoBatch] /\ UNCHANGED page
            /\ UNCHANGED shown \/ shown' = [shown EXCEPT ![l] = batch]
        BY <2>3, <3>2 DEF Refreshed, Arrive, Buttons
      <4>2. QED BY <2>3, <4>1 DEF Buttons, ListsAreOfTheBatch, page
    <3>3. QED BY <1>9, <3>1, <3>2
  <2>5. QED BY <1>1, <2>2, <2>4 DEF OneAtATime
<1>10. CASE UNCHANGED vars
  BY <1>1, <1>10 DEF vars, page, OneAtATime, Handlers, Ordered, Buttons, ListsAreOfTheBatch
<1>11. QED BY <1>2, <1>3, <1>4, <1>5, <1>6, <1>7, <1>8, <1>9, <1>10 DEF Next, Respond

LEMMA CalmInvariant == ~UploadAnytime => (Spec => []OneAtATime)
<1> SUFFICES ASSUME ~UploadAnytime PROVE Spec => []OneAtATime
  OBVIOUS
<1>1. OneAtATime /\ [Next]_vars => OneAtATime'
  BY CalmStep
<1>2. QED BY <1>1, CalmStart, PTL DEF Spec

\* With one thing at a time the wizard asks for the steps of a batch in order,
\* whatever requests fail or are served without an answer (App.tsx,
\* runStepInternal and handleRunAll). StepperUpload.cfg shows the assumption is needed.
THEOREM StepsInOrder == ~UploadAnytime => (Spec => []StrictOrder)
<1>1. OneAtATime => StrictOrder
  <2> SUFFICES ASSUME OneAtATime, NEW r \in Runs, run[r].pc = "request",
                      NEW s \in Steps, s < run[r].step
               PROVE  s \in served[run[r].batch]
    BY DEF StrictOrder
  <2>1. run[r].step \in Steps /\ run[r].batch = batch /\ steps[run[r].step] = "running"
    BY DEF OneAtATime, Types, Handlers
  <2>2. QED BY <2>1 DEF OneAtATime, Ordered
<1>2. QED BY <1>1, CalmInvariant, PTL

\* The status of the steps is true (App.tsx, setSteps).
THEOREM StatusTrue == ~UploadAnytime => (Spec => []StatusIsTrue)
<1>1. OneAtATime => StatusIsTrue
  BY DEF OneAtATime, Handlers, Ordered, StatusIsTrue
<1>2. QED BY <1>1, CalmInvariant, PTL

\* Issues and report are of the page's batch (App.tsx, loadIssues and loadReport).
THEOREM ListsOfBatch == ~UploadAnytime => (Spec => []ListsAreOfTheBatch)
<1>1. OneAtATime => ListsAreOfTheBatch
  BY DEF OneAtATime, Buttons
<1>2. QED BY <1>1, CalmInvariant, PTL

-----------------------------------------------------------------------------
(* The buttons can come back.  RunsEnd needs the server to answer; what it     *)
(* needs of the page is shown here, with uploads at any time.                  *)

\* A button is disabled for a handler that is under way, one that runs all
\* steps if the page says so, and a handler that loads waits for a list.
ButtonsHaveHandlers ==
    /\ runningStep # NoStep => \E r \in Runs : run[r].pc # "none"
    /\ runningAll => \E r \in Runs : run[r].pc # "none" /\ run[r].all
    /\ \A r \in Runs : run[r].pc = "load" => run[r].pending # {}

\* The answers that a handler can still await: for its step, for its lists, and
\* at most three for each later step.
Awaited(h) == IF h.pc = "request" THEN 3
              ELSE (IF "issues" \in h.pending THEN 1 ELSE 0) + (IF "report" \in h.pending THEN 1 ELSE 0)
StepsLeft(h) == IF h.pc = "none" THEN 0 ELSE 3 * (Report - h.step) + Awaited(h)

\* Every answer brings its handler nearer to its end.
HandlersRunOut ==
    [][\A r \in Runs : run[r].pc # "none" /\ run'[r] # run[r] =>
         StepsLeft(run'[r]) < StepsLeft(run[r])]_vars

\* What the end of a request or of a load does to handler r.
Nearer(r) ==
    /\ StepsLeft(run'[r]) < StepsLeft(run[r])
    /\ \A q \in Runs \ {r} : run'[q] = run[q]

\* The loop goes on with the next step, or the handler is over.
LEMMA ProceedNearer ==
    ASSUME Types, ButtonsHaveHandlers, NEW r \in Runs, run[r].pc # "none",
           NEW status \in [Steps -> Statuses], Proceed(r, status),
           run[r].pc = "load" => run[r].pending # {}
    PROVE  Nearer(r) /\ ButtonsHaveHandlers'
<1>1. run[r].step \in Steps /\ run[r].batch \in Batches /\ run \in [Runs -> Run]
  BY DEF Types, TypeOK, Run
<1>2. StepsLeft(run[r]) > 3 * (Report - run[r].step)
  <2>1. Awaited(run[r]) \in {1, 2, 3}
    <3>1. run[r].pending \subseteq {"issues", "report"} /\ run[r].pc \in {"request", "load"}
      BY <1>1 DEF Run, Lists
    <3>2. QED BY <3>1 DEF Awaited
  <2>2. StepsLeft(run[r]) = 3 * (Report - run[r].step) + Awaited(run[r])
    BY DEF StepsLeft
  <2>3. QED BY <1>1, <2>1, <2>2 DEF Steps, Report
<1>a. StepsLeft(run[r]) \in Nat
  <2>1. Awaited(run[r]) \in Nat
    BY DEF Awaited
  <2>2. QED BY <1>1, <2>1 DEF StepsLeft, Steps, Report
<1>3. CASE run[r].all /\ run[r].step < Report
  <2>1. run[r].step + 1 \in Steps
    BY <1>1, <1>3 DEF Steps, Report
  <2>2. Request(r, run[r].batch, run[r].step + 1, TRUE, status) /\ runningAll' = runningAll
    BY <1>3 DEF Proceed
  <2>3. /\ run'[r].pc = "request" /\ run'[r].step = run[r].step + 1 /\ run'[r].all
        /\ \A q \in Runs \ {r} : run'[q] = run[q]
    BY <1>1, <2>2 DEF Request, NoRun
  <2>4. StepsLeft(run'[r]) = 3 * (Report - (run[r].step + 1)) + 3
    BY <2>3 DEF StepsLeft, Awaited
  <2>5. StepsLeft(run'[r]) = 3 * (Report - run[r].step)
    BY <1>1, <2>4 DEF Steps, Report
  <2>7. Nearer(r)
    BY <1>1, <1>a, <1>2, <2>3, <2>5 DEF Nearer, Steps, Report
  <2>8. ButtonsHaveHandlers'
    BY <2>2, <2>3 DEF ButtonsHaveHandlers
  <2>9. QED BY <2>7, <2>8
<1>4. CASE ~(run[r].all /\ run[r].step < Report)
  <2>1. Finish(r, status)
    BY <1>4 DEF Proceed
  <2>2. /\ run'[r].pc = "none" /\ runningStep' = NoStep /\ runningAll' = (runningAll /\ ~run[r].all)
        /\ \A q \in Runs \ {r} : run'[q] = run[q]
    BY <2>1, FinishTypes
  <2>3. StepsLeft(run'[r]) = 0
    BY <2>2 DEF StepsLeft
  <2>n. Nearer(r)
    BY <1>1, <1>a, <1>2, <2>2, <2>3 DEF Nearer, Steps, Report
  <2>4. ButtonsHaveHandlers'
    BY <2>2 DEF ButtonsHaveHandlers
  <2>5. QED BY <2>n, <2>4
<1>5. QED BY <1>3, <1>4

LEMMA RespondNearer ==
    ASSUME Types, ButtonsHaveHandlers, NEW r \in Runs, Respond(r)
    PROVE  Nearer(r) /\ ButtonsHaveHandlers'
<1>0. run \in [Runs -> Run] /\ steps \in [Steps -> Statuses] /\ run[r].pc # "none"
  BY DEF Types, TypeOK, Run, Statuses, Respond, Answered, Failed, Loaded
<1>1. run[r].step \in Steps /\ run[r] \in Run
  BY <1>0 DEF Types
<1>2. CASE Answered(r)
  <2> DEFINE s == run[r].step
             status == [steps EXCEPT ![s] = "done"]
  <2>1. status \in [Steps -> Statuses] /\ run[r].pc = "request"
    BY <1>0, <1>2 DEF Statuses, Answered
  <2>2. CASE Proceed(r, status)
    BY <2>1, <2>2, ProceedNearer
  <2>3. CASE Loads(s) # {} /\ run' = [run EXCEPT ![r].pc = "load", ![r].pending = Loads(s)]
             /\ UNCHANGED <<runningStep, runningAll>>
    <3>1. Loads(s) \subseteq {"issues", "report"}
      BY <1>1 DEF Loads, Lists
    <3>2. /\ run'[r].pc = "load" /\ run'[r].pending = Loads(s) /\ run'[r].step = s
          /\ run'[r].all = run[r].all /\ \A q \in Runs \ {r} : run'[q] = run[q]
      BY <1>0, <2>3 DEF Run
    <3>3. Awaited(run'[r]) \in {0, 1, 2} /\ Awaited(run[r]) = 3
      BY <2>1, <3>2 DEF Awaited
    <3>4. StepsLeft(run'[r]) = 3 * (Report - s) + Awaited(run'[r])
          /\ StepsLeft(run[r]) = 3 * (Report - s) + 3
      BY <2>1, <3>2, <3>3 DEF StepsLeft
    <3>5. Nearer(r)
      BY <1>1, <3>2, <3>3, <3>4 DEF Nearer, Steps, Report
    <3>6. ButtonsHaveHandlers'
      BY <1>0, <2>3, <3>2 DEF ButtonsHaveHandlers
    <3>7. QED BY <3>5, <3>6
  <2>4. QED BY <1>2, <2>2, <2>3 DEF Answered
<1>3. CASE Failed(r)
  <2>1. [steps EXCEPT ![run[r].step] = "failed"] \in [Steps -> Statuses] /\ run[r].pc = "request"
        /\ Finish(r, [steps EXCEPT ![run[r].step] = "failed"])
    BY <1>0, <1>3 DEF Statuses, Failed
  <2>2. /\ run'[r].pc = "none" /\ runningStep' = NoStep /\ runningAll' = (runningAll /\ ~run[r].all)
        /\ \A q \in Runs \ {r} : run'[q] = run[q]
    BY <2>1, FinishTypes
  <2>3. StepsLeft(run[r]) = 3 * (Report - run[r].step) + 3 /\ StepsLeft(run'[r]) = 0
    BY <2>1, <2>2 DEF StepsLeft, Awaited
  <2>4. Nearer(r)
    BY <1>1, <2>2, <2>3 DEF Nearer, Steps, Report
  <2>5. ButtonsHaveHandlers'
    BY <2>2 DEF ButtonsHaveHandlers
  <2>6. QED BY <2>4, <2>5
<1>4. ASSUME NEW l \in Lists, Loaded(r, l) PROVE Nearer(r) /\ ButtonsHaveHandlers'
  <2>1. run[r].pc = "load" /\ l \in run[r].pending
    BY <1>4 DEF Loaded
  <2>2. CASE Proceed(r, steps)
    BY <1>0, <2>1, <2>2, ProceedNearer
  <2>3. CASE run[r].pending # {l} /\ run' = [run EXCEPT ![r].pending = @ \ {l}]
             /\ UNCHANGED <<steps, runningStep, runningAll>>
    <3>1. /\ run'[r].pc = "load" /\ run'[r].pending = run[r].pending \ {l} /\ run'[r].step = run[r].step
          /\ run'[r].all = run[r].all /\ \A q \in Runs \ {r} : run'[q] = run[q]
      BY <1>0, <2>1, <2>3 DEF Run
    <3>2. run'[r].pending # {} /\ l \in {"issues", "report"}
      BY <2>1, <2>3, <3>1 DEF Lists
    <3>3. Awaited(run'[r]) < Awaited(run[r]) /\ Awaited(run'[r]) \in {0, 1, 2} /\ Awaited(run[r]) \in {0, 1, 2}
      BY <2>1, <3>1, <3>2 DEF Awaited
    <3>4. StepsLeft(run'[r]) = 3 * (Report - run[r].step) + Awaited(run'[r])
          /\ StepsLeft(run[r]) = 3 * (Report - run[r].step) + Awaited(run[r])
      BY <2>1, <3>1 DEF StepsLeft
    <3>5. Nearer(r)
      BY <1>1, <3>1, <3>3, <3>4 DEF Nearer, Steps, Report
    <3>6. ButtonsHaveHandlers'
      BY <1>0, <2>3, <3>1, <3>2 DEF ButtonsHaveHandlers
    <3>7. QED BY <3>5, <3>6
  <2>4. QED BY <1>4, <2>2, <2>3 DEF Loaded
<1>5. QED BY <1>2, <1>3, <1>4 DEF Respond

\* handleRunAll and runStepInternal always reach their finally: whatever the
\* user uploads meanwhile, a disabled button has a handler under way, which
\* comes to its end after a bounded number of answers.
THEOREM HandlersEnd == Spec => []ButtonsHaveHandlers /\ HandlersRunOut
<1> DEFINE Lower == \A r \in Runs : run[r].pc # "none" /\ run'[r] # run[r] =>
                      StepsLeft(run'[r]) < StepsLeft(run[r])
<1>1. Init => ButtonsHaveHandlers
  BY NoRunType DEF Init, ButtonsHaveHandlers
<1>2. ASSUME Types, ButtonsHaveHandlers, Next PROVE Lower /\ ButtonsHaveHandlers'
  <2>0. run \in [Runs -> Run]
    BY <1>2 DEF Types, TypeOK, Run
  <2>1. CASE Upload \/ Uploaded \/ UploadFailed
    BY <1>2, <2>1 DEF Upload, Uploaded, UploadFailed, ButtonsHaveHandlers
  <2>2. ASSUME NEW l \in Lists, Refresh(l) \/ Refreshed(l) PROVE Lower /\ ButtonsHaveHandlers'
    BY <1>2, <2>2 DEF Refresh, Refreshed, ButtonsHaveHandlers
  <2>3. ASSUME NEW r \in Runs, RunStep(r) \/ RunAll(r) PROVE Lower /\ ButtonsHaveHandlers'
    <3>1. /\ \E b, s, all, status : Request(r, b, s, all, status) /\ (runningAll' => all)
          /\ run[r].pc = "none"
      <4>1. CASE RunStep(r)
        <5>1. ~runningAll' /\ \E s \in Current : Request(r, batch, s, FALSE, steps)
          BY <4>1 DEF RunStep, MayRun
        <5>2. QED BY <4>1, <5>1 DEF RunStep
      <4>2. CASE RunAll(r)
        BY <4>2 DEF RunAll
      <4>3. QED BY <2>3, <4>1, <4>2
    <3>2. /\ run[r].pc = "none" /\ run'[r].pc = "request" /\ (runningAll' => run'[r].all)
          /\ \A q \in Runs \ {r} : run'[q] = run[q]
      BY <2>0, <3>1 DEF Request, NoRun
    <3>3. QED BY <1>2, <3>2 DEF ButtonsHaveHandlers
  <2>4. ASSUME NEW r \in Runs, Respond(r) PROVE Lower /\ ButtonsHaveHandlers'
    BY <1>2, <2>4, RespondNearer DEF Nearer
  <2>5. QED BY <1>2, <2>1, <2>2, <2>3, <2>4 DEF Next
<1> HIDE DEF Lower
<1>3. Types /\ ButtonsHaveHandlers /\ [Next]_vars => ButtonsHaveHandlers'
  BY <1>2 DEF vars, ButtonsHaveHandlers
<1>4. Types /\ ButtonsHaveHandlers /\ [Next]_vars => [Lower]_vars
  BY <1>2
<1>5. Spec => [](Types /\ ButtonsHaveHandlers)
  BY <1>1, <1>3, TypesStart, TypesStep, PTL DEF Spec
<1>6. Spec => [][Lower]_vars
  BY <1>4, <1>5, PTL DEF Spec
<1>7. QED BY <1>5, <1>6, PTL DEF HandlersRunOut, Lower
=============================================================================
