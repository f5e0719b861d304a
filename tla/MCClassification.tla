-------------------------- MODULE MCClassification --------------------------
(* Constants of the TLC runs of Classification. *)
EXTENDS Classification

CONSTANTS j1, j2

File(n, b) == [name |-> n, bytes |-> b]

\* Two names in different directories with one base name, which tells the type;
\* a scan; a record of safety education by its name; a text file.
MCBaseName == [n \in {"scan", "copy/regulation", "education", "regulation", "notes.txt"} |->
                 IF n = "copy/regulation" THEN "regulation" ELSE n]
MCPdf == DOMAIN MCBaseName \ {"notes.txt"}
MCTold == [n \in {"regulation"} |-> n]

MCRequests == {<<File("education", "b1"), File("scan", "b1")>>,
               <<File("regulation", "b1"), File("copy/regulation", "b2")>>,
               <<File("regulation", "b1"), File("scan", "b2")>>,
               <<File("scan", "b1"), File("notes.txt", "b2")>>}

\* An answer by an alias, and one without a schema whose text is longer.
MCModelTypes == {"training", "mystery"}
MCLength == [t \in MCModelTypes |-> IF t = "training" THEN 1 ELSE 2]
MCCanonical == [t \in {"training"} |-> "training_record"]
MCEducation == {"education"}
MCSupported == {"training_record", "safety_education_training_record", "regulation"}
MCCandidates == <<"relay">>
MCJobs == {j1, j2}

\* Processes that share the cache's files only, or one event loop.
MCProcesses == [j \in MCJobs |-> j]
MCOneProcess == [j \in MCJobs |-> "uvicorn"]

MCMaxStarts == [nothing |-> 3, left |-> 2, running |-> 2]
MCRetries == [nothing |-> 3, left |-> 3, running |-> 0]
=============================================================================
