------------------------------- MODULE Stepper -------------------------------
(***************************************************************************)
(* The wizard of the web page: it uploads a batch, sends the four pipeline *)
(* requests one after the other, on their own or all in a row, and loads   *)
(* the issues and the report. Each handler runs from one await to the      *)
(* next; it keeps the batch of the render it was created in, while the     *)
(* steps, the flags and the lists it sets are those of the page.           *)
(***************************************************************************)
EXTENDS Naturals, FiniteSets

CONSTANTS
    Batches,        \* batches the server may create
    NoBatch,
    Runs,           \* bound: handlers that run steps at once
    UploadAnytime   \* FALSE: the user uploads, and runs steps, one at a time

ASSUME StepperConstants == NoBatch \notin Batches /\ UploadAnytime \in BOOLEAN

\* PIPELINE_STEPS: classify, extract, audit, report.
Steps == 1..4
Audit == 3
Report == 4
NoStep == 0

Lists == {"issues", "report"}

VARIABLES
    batch,          \* batchId of the page
    created,        \* batches the server has created
    uploading,      \* uploadStatus is "uploading"
    steps,          \* status of each step
    runningStep,    \* runningStepKey
    runningAll,     \* isRunningAll
    run,            \* the handlers that run steps
    shown,          \* the batch whose issues, and report, the page shows
    loading,        \* issuesLoading, reportLoading
    refresh,        \* the batch that the refresh button of a list is loading
    served          \* the steps the server has completed for each batch

page == <<batch, created, uploading>>
vars == <<page, steps, runningStep, runningAll, run, shown, loading, refresh, served>>

InitialSteps == [s \in Steps |-> "idle"]
NoRun == [pc |-> "none", batch |-> NoBatch, step |-> NoStep, all |-> FALSE, pending |-> {}]

Init ==
    /\ batch = NoBatch /\ created = {} /\ uploading = FALSE
    /\ steps = InitialSteps /\ runningStep = NoStep /\ runningAll = FALSE
    /\ run = [r \in Runs |-> NoRun]
    /\ shown = [l \in Lists |-> NoBatch]
    /\ loading = [l \in Lists |-> FALSE]
    /\ refresh = [l \in Lists |-> NoBatch]
    /\ served = [b \in Batches |-> {}]

-----------------------------------------------------------------------------
(* handleUpload *)

Working == \E r \in Runs : run[r].pc # "none"
Refreshing == \E l \in Lists : refresh[l] # NoBatch

Upload ==
    /\ ~uploading /\ (UploadAnytime \/ (~Working /\ ~Refreshing))
    /\ uploading' = TRUE
    /\ UNCHANGED <<batch, created, steps, runningStep, runningAll, run, shown, loading,
                   refresh, served>>

\* A fault: the steps keep their status.
Uploaded_keepsSteps ==
    /\ uploading /\ uploading' = FALSE
    /\ \E b \in Batches \ created : batch' = b /\ created' = created \cup {b}
    /\ runningStep' = NoStep /\ runningAll' = FALSE
    /\ shown' = [l \in Lists |-> NoBatch]
    /\ UNCHANGED <<steps, run, loading, refresh, served>>

\* A fault: the issues and the report stay.
Uploaded_keepsLists ==
    /\ uploading /\ uploading' = FALSE
    /\ \E b \in Batches \ created : batch' = b /\ created' = created \cup {b}
    /\ steps' = InitialSteps /\ runningStep' = NoStep /\ runningAll' = FALSE
    /\ UNCHANGED <<shown, run, loading, refresh, served>>

\* The page turns to the new batch; the handlers that run do not.
Uploaded ==
    /\ uploading /\ uploading' = FALSE
    /\ \E b \in Batches \ created : batch' = b /\ created' = created \cup {b}
    /\ steps' = InitialSteps /\ runningStep' = NoStep /\ runningAll' = FALSE
    /\ shown' = [l \in Lists |-> NoBatch]
    /\ UNCHANGED <<run, loading, refresh, served>>

UploadFailed ==
    /\ uploading /\ uploading' = FALSE
    /\ UNCHANGED <<batch, created, steps, runningStep, runningAll, run, shown, loading,
                   refresh, served>>

-----------------------------------------------------------------------------
(* runStepInternal, on its own or in the loop of handleRunAll *)

First(status) == {s \in Steps : steps[s] = status /\ \A t \in Steps : steps[t] = status => s <= t}

\* A fault: any step that is not done.
Current_anyStep == {s \in Steps : steps[s] \in {"failed", "idle"}}

\* The step to go on with: the first that failed, else the first that is idle.
Current == IF First("failed") # {} THEN First("failed") ELSE First("idle")

MayRun == batch # NoBatch /\ runningStep = NoStep /\ ~runningAll /\ (UploadAnytime \/ ~uploading)

\* Handler r sends the request of step s, with the steps as in status.
Request(r, b, s, all, status) ==
    /\ run' = [run EXCEPT ![r] = [NoRun EXCEPT !.pc = "request", !.batch = b, !.step = s, !.all = all]]
    /\ steps' = [status EXCEPT ![s] = "running"]
    /\ runningStep' = s

RunStep(r) ==
    /\ MayRun /\ run[r].pc = "none"
    /\ \E s \in Current : Request(r, batch, s, FALSE, steps)
    /\ UNCHANGED <<page, runningAll, shown, loading, refresh, served>>

\* All the steps from the current one, or again when all are done.
RunAll(r) ==
    /\ MayRun /\ run[r].pc = "none" /\ runningAll' = TRUE
    /\ IF Current # {} THEN \E s \in Current : Request(r, batch, s, TRUE, steps)
                       ELSE Request(r, batch, 1, TRUE, InitialSteps)
    /\ UNCHANGED <<page, shown, loading, refresh, served>>

\* A fault: a run of all steps that fails leaves its flag set.
Finish_leavesFlag(r, status) ==
    /\ run' = [run EXCEPT ![r] = NoRun]
    /\ steps' = status /\ runningStep' = NoStep
    /\ runningAll' = (runningAll /\ (~run[r].all \/ status[run[r].step] = "failed"))

\* Handler r is over, with the steps as in status.
Finish(r, status) ==
    /\ run' = [run EXCEPT ![r] = NoRun]
    /\ steps' = status /\ runningStep' = NoStep
    /\ runningAll' = (runningAll /\ ~run[r].all)

\* A fault: the loop runs one step too far.
Proceed_tooFar(r, status) ==
    IF run[r].all /\ run[r].step <= Report
    THEN Request(r, run[r].batch, run[r].step + 1, TRUE, status) /\ UNCHANGED runningAll
    ELSE Finish(r, status)

\* The step of r succeeded: the loop goes on, or the handler is over.
Proceed(r, status) ==
    IF run[r].all /\ run[r].step < Report
    THEN Request(r, run[r].batch, run[r].step + 1, TRUE, status) /\ UNCHANGED runningAll
    ELSE Finish(r, status)

\* The lists that the handler loads once its step is done.
Loads(s) == CASE s = Audit -> {"issues"} [] s = Report -> Lists [] OTHER -> {}

Serve(r) == served' = [served EXCEPT ![run[r].batch] = @ \cup {run[r].step}]

Answered(r) ==
    LET s == run[r].step
        status == [steps EXCEPT ![s] = "done"]
    IN  /\ run[r].pc = "request" /\ Serve(r)
        /\ IF Loads(s) = {} THEN Proceed(r, status) /\ UNCHANGED loading
           ELSE /\ run' = [run EXCEPT ![r].pc = "load", ![r].pending = Loads(s)]
                /\ steps' = status
                /\ loading' = [l \in Lists |-> loading[l] \/ l \in Loads(s)]
                /\ UNCHANGED <<runningStep, runningAll>>
        /\ UNCHANGED <<page, shown, refresh>>

\* An error; the server may have completed the step all the same.
Failed(r) ==
    /\ run[r].pc = "request"
    /\ Serve(r) \/ UNCHANGED served
    /\ Finish(r, [steps EXCEPT ![run[r].step] = "failed"])
    /\ UNCHANGED <<page, shown, loading, refresh>>

-----------------------------------------------------------------------------
(* loadIssues and loadReport *)

\* The answer replaces the list; an error leaves it.
Arrive(l, b) ==
    /\ shown' = [shown EXCEPT ![l] = b] \/ UNCHANGED shown
    /\ loading' = [loading EXCEPT ![l] = FALSE]

Loaded(r, l) ==
    /\ run[r].pc = "load" /\ l \in run[r].pending
    /\ Arrive(l, run[r].batch)
    /\ IF run[r].pending = {l} THEN Proceed(r, steps)
       ELSE /\ run' = [run EXCEPT ![r].pending = @ \ {l}]
            /\ UNCHANGED <<steps, runningStep, runningAll>>
    /\ UNCHANGED <<page, refresh, served>>

\* The buttons; bound: each has one load under way.
Refresh(l) ==
    /\ batch # NoBatch /\ ~loading[l] /\ refresh[l] = NoBatch /\ (UploadAnytime \/ ~uploading)
    /\ refresh' = [refresh EXCEPT ![l] = batch]
    /\ loading' = [loading EXCEPT ![l] = TRUE]
    /\ UNCHANGED <<page, steps, runningStep, runningAll, run, shown, served>>

Refreshed(l) ==
    /\ refresh[l] # NoBatch
    /\ Arrive(l, refresh[l])
    /\ refresh' = [refresh EXCEPT ![l] = NoBatch]
    /\ UNCHANGED <<page, steps, runningStep, runningAll, run, served>>

\* A request ends.
Respond(r) == Answered(r) \/ Failed(r) \/ \E l \in Lists : Loaded(r, l)

Next ==
    \/ Upload \/ Uploaded \/ UploadFailed
    \/ \E r \in Runs : RunStep(r) \/ RunAll(r) \/ Respond(r)
    \/ \E l \in Lists : Refresh(l) \/ Refreshed(l)

\* The server answers, or the connection fails.
Spec == Init /\ [][Next]_vars /\ \A r \in Runs : WF_vars(Respond(r))

-----------------------------------------------------------------------------
(* Correctness *)

\* Every variable has its type; the page shows a batch that was created.
TypeOK ==
    /\ batch \in created \cup {NoBatch} /\ created \subseteq Batches
    /\ uploading \in BOOLEAN /\ runningAll \in BOOLEAN
    /\ steps \in [Steps -> {"idle", "running", "done", "failed"}]
    /\ runningStep \in Steps \cup {NoStep}
    /\ run \in [Runs -> [pc : {"none", "request", "load"}, batch : Batches \cup {NoBatch},
                         step : Steps \cup {NoStep}, all : BOOLEAN, pending : SUBSET Lists]]
    /\ shown \in [Lists -> Batches \cup {NoBatch}] /\ refresh \in [Lists -> Batches \cup {NoBatch}]
    /\ loading \in [Lists -> BOOLEAN]
    /\ served \in [Batches -> SUBSET Steps]

\* "Strict wizard order": the page asks the server for a step of a batch only
\* when the server has completed the earlier steps of that batch.
StrictOrder ==
    \A r \in Runs : run[r].pc = "request" =>
        \A s \in Steps : s < run[r].step => s \in served[run[r].batch]

\* A step the page shows as done was done for the batch it shows, and one it
\* shows as running is under way, if the user waits for uploads and runs to end:
\* StrictOrder is what an upload in between breaks first.
StatusIsTrue ==
    \A s \in Steps :
      /\ steps[s] = "done" => s \in served[batch]
      /\ steps[s] = "running" => \E r \in Runs : /\ run[r].pc = "request" /\ run[r].step = s
                                                 /\ run[r].batch = batch

\* The page's issues and report are those of its batch, if the user waits for
\* loads to end before he uploads again: nothing drops a list that comes late.
ListsAreOfTheBatch == \A l \in Lists : shown[l] \in {NoBatch, batch}

\* The buttons come back: a run of one step or of all comes to its end.
RunsEnd == runningAll \/ runningStep # NoStep ~> ~runningAll /\ runningStep = NoStep
=============================================================================
