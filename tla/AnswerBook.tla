----------------------------- MODULE AnswerBook -----------------------------
(***************************************************************************)
(* What classification promises as long as each job is alone with the      *)
(* batch: the model is believed once per file. Its first answer is kept,   *)
(* and from then on the file's row is that answer; before, it is empty or  *)
(* an error. When a job is started beside another, or beside what is left  *)
(* of one that failed, the promise lapses for good.                        *)
(***************************************************************************)
CONSTANTS
    Files,      \* files of the batch
    Answers,    \* what the model may answer
    Error       \* the row of a file without an answer

VARIABLES
    known,      \* the answer kept for each file: a set of at most one
    row,        \* what the file's row says: nothing, Error or that answer
    alone       \* does the promise hold?

Init == known = [f \in Files |-> {}] /\ row = [f \in Files |-> {}] /\ alone = TRUE

Learn == \E f \in Files, a \in Answers :
            /\ known[f] = {} /\ known' = [known EXCEPT ![f] = {a}]
            /\ UNCHANGED <<row, alone>>

\* A job publishes what is known of some files; a file of which nothing is known
\* gets an error.
Publish == \E S \in SUBSET Files :
            /\ row' = [f \in Files |-> IF f \notin S THEN row[f]
                                       ELSE IF known[f] = {} THEN {Error} ELSE known[f]]
            /\ UNCHANGED <<known, alone>>

Lapse == ~alone'

Next == Lapse \/ Learn \/ Publish

Spec == Init /\ [][Next]_<<known, row, alone>>
=============================================================================
