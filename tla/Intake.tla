------------------------------- MODULE Intake -------------------------------
(***************************************************************************)
(* The upload of one batch: upload_batch creates the batch, checks the     *)
(* names, and add_files_to_batch stores each file under a key made from    *)
(* its base name before one commit adds all the records.                   *)
(***************************************************************************)
EXTENDS Naturals, FiniteSets, Sequences

CONSTANTS
    Requests,   \* the uploads a client may send: sequences of [name, bytes]
    Pdf,        \* the names that end in .pdf
    BaseName    \* the last component of each name

Names == {BaseName[n] : n \in DOMAIN BaseName}
Bytes == UNION {{q[i].bytes : i \in DOMAIN q} : q \in Requests}

ASSUME IntakeConstants == Requests \subseteq Seq([name : DOMAIN BaseName, bytes : Bytes])

VARIABLES
    request,    \* the upload of this batch
    upload,     \* where upload_batch is, or how it ended
    saved,      \* how many files are stored
    storage,    \* the bytes under each key of the batch
    records     \* FileRecord: what the upload commits for each file

intakeVars == <<request, upload, saved, storage, records>>

IntakeInit ==
    /\ request \in Requests
    /\ upload = "new" /\ saved = 0 /\ records = <<>>
    /\ storage = [k \in Names |-> "none"]

\* create_batch commits on its own; its error leaves nothing.
CreateBatch ==
    /\ upload = "new" /\ upload' = "created"
    /\ UNCHANGED <<request, saved, storage, records>>

\* Every name is checked, in order, before anything is stored; the batch stays.
Reject ==
    /\ upload = "created" /\ \E i \in DOMAIN request : request[i].name \notin Pdf
    /\ upload' = "rejected"
    /\ UNCHANGED <<request, saved, storage, records>>

Accept ==
    /\ upload = "created" /\ \A i \in DOMAIN request : request[i].name \in Pdf
    /\ upload' = "storing"
    /\ UNCHANGED <<request, saved, storage, records>>

\* batches/{batch_id}/{Path(file_name).name}
StorageKey(item) == BaseName[item.name]

Store ==
    /\ upload = "storing" /\ saved < Len(request)
    /\ saved' = saved + 1
    /\ storage' = [storage EXCEPT ![StorageKey(request[saved + 1])] = request[saved + 1].bytes]
    /\ UNCHANGED <<request, upload, records>>

FileRecord(item) ==
    [name |-> BaseName[item.name], key |-> StorageKey(item), checksum |-> item.bytes]

\* A fault: the records are committed as the files are stored.
AddRecords_early ==
    /\ upload = "storing" /\ records = <<>>
    /\ records' = [i \in DOMAIN request |-> FileRecord(request[i])]
    /\ upload' = IF saved = Len(request) THEN "done" ELSE "storing"
    /\ UNCHANGED <<request, saved, storage>>

AddRecords ==
    /\ upload = "storing" /\ saved = Len(request)
    /\ records' = [i \in DOMAIN request |-> FileRecord(request[i])]
    /\ upload' = "done"
    /\ UNCHANGED <<request, saved, storage>>

\* The process dies, or a save or a commit raises, before the records are there.
\* The file being written is left as it was or, on a local disk, cut short. What
\* fails after the commit loses the client's answer only: AddRecords has happened.
UploadFails ==
    /\ upload \in {"created", "storing"}
    /\ upload' = "failed"
    /\ \/ UNCHANGED storage
       \/ /\ upload = "storing" /\ saved < Len(request)
          /\ storage' = [storage EXCEPT ![StorageKey(request[saved + 1])] = "torn"]
    /\ UNCHANGED <<request, saved, records>>

IntakeNext == CreateBatch \/ Reject \/ Accept \/ Store \/ AddRecords \/ UploadFails

-----------------------------------------------------------------------------
(* Correctness *)

\* No two files of the upload have the base name of file i.
OnlyOne(i) == \A k \in DOMAIN request \ {i} :
                 BaseName[request[k].name] # BaseName[request[i].name]

\* An upload that fails before the commit of its records leaves none; from that
\* commit on there is a record for every file, and each points to whole bytes:
\* those its checksum was made from, or, where another file of the upload has the
\* same base name, those of that file, which is the loss that the code accepts.
UploadIsWhole ==
    /\ upload = "done" => Len(records) = Len(request)
    /\ upload # "done" => records = <<>>
    /\ \A i \in DOMAIN records :
         /\ OnlyOne(i) => storage[records[i].key] = records[i].checksum
         /\ \E k \in DOMAIN request : /\ BaseName[request[k].name] = records[i].name
                                      /\ storage[records[i].key] = request[k].bytes
=============================================================================
