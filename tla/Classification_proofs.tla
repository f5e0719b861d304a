------------------------ MODULE Classification_proofs ------------------------
(***************************************************************************)
(* For any uploads, any model and any number of processes that share the   *)
(* cache directory: a committed upload is whole, and what a row quotes was *)
(* answered for the name and the bytes of its file, although processes     *)
(* share temporary files, die, and write into files that were renamed. As  *)
(* long as each job is alone, the jobs implement AnswerBook.               *)
(***************************************************************************)
EXTENDS Classification, Induction

-----------------------------------------------------------------------------
(* The upload: what holds whenever upload_batch stops, wherever it fails *)

\* The first n files are stored: under the key of each are the bytes of one of
\* them with its base name.
StoredTo(n) ==
    \A i \in 1..n : \E k \in 1..n : /\ BaseName[request[k].name] = BaseName[request[i].name]
                                   /\ storage[BaseName[request[i].name]] = request[k].bytes

\* The records are those of the request, and nothing is committed before all is
\* stored: a failing upload may tear a file, but then it has no record.
IntakeInv ==
    /\ request \in Requests
    /\ upload \in {"new", "created", "storing", "rejected", "failed", "done"}
    /\ saved \in 0..Len(request)
    /\ DOMAIN storage = Names /\ storage = [n \in Names |-> storage[n]]
    /\ upload \in {"new", "created"} => saved = 0
    /\ upload \in {"storing", "done"} => StoredTo(saved)
    /\ upload = "done" => saved = Len(request)
    /\ records = IF upload = "done" THEN [i \in DOMAIN request |-> FileRecord(request[i])] ELSE <<>>

LEMMA RequestType ==
    ASSUME NEW q \in Requests
    PROVE  /\ Len(q) \in Nat /\ DOMAIN q = 1..Len(q)
           /\ \A i \in 1..Len(q) : /\ q[i].name \in DOMAIN BaseName /\ q[i].bytes \in Bytes
                                   /\ BaseName[q[i].name] \in Names
<1> DEFINE File == [name : DOMAIN BaseName, bytes : Bytes]
<1>1. q \in Seq(File)
  BY IntakeConstants
<1> HIDE DEF File
<1>2. Len(q) \in Nat /\ DOMAIN q = 1..Len(q) /\ \A i \in 1..Len(q) : q[i] \in File
  BY <1>1
<1>3. ASSUME NEW i \in 1..Len(q)
      PROVE  q[i].name \in DOMAIN BaseName /\ q[i].bytes \in Bytes
  BY <1>2 DEF File
<1>4. ASSUME NEW n \in DOMAIN BaseName PROVE BaseName[n] \in Names
  BY DEF Names
<1>5. QED BY <1>2, <1>3, <1>4

LEMMA IntakeStarts == IntakeInit => IntakeInv
<1> SUFFICES ASSUME IntakeInit PROVE IntakeInv
  OBVIOUS
<1>1. Len(request) \in Nat
  BY RequestType DEF IntakeInit
<1>2. storage = [n \in Names |-> storage[n]] /\ DOMAIN storage = Names
  BY DEF IntakeInit
<1>3. QED BY <1>1, <1>2 DEF IntakeInit, IntakeInv

\* The next file takes its place, and what it replaces had its name.
LEMMA StoreStep == IntakeInv /\ Store => IntakeInv'
<1> SUFFICES ASSUME IntakeInv, Store PROVE IntakeInv'
  OBVIOUS
<1> DEFINE n == saved + 1
           key == BaseName[request[n].name]
<1>1. request \in Requests /\ Len(request) \in Nat /\ n \in 1..Len(request) /\ saved \in Nat
  BY RequestType DEF IntakeInv, Store
<1>2. /\ upload = "storing" /\ saved' = n /\ UNCHANGED <<request, upload, records>>
      /\ storage' = [storage EXCEPT ![key] = request[n].bytes]
  BY DEF Store, StorageKey
<1>3. key \in Names /\ \A i \in 1..Len(request) : BaseName[request[i].name] \in Names
  BY <1>1, RequestType
<1>4. DOMAIN storage' = Names /\ storage' = [m \in Names |-> storage'[m]]
      /\ \A m \in Names : storage'[m] = IF m = key THEN request[n].bytes ELSE storage[m]
  BY <1>2, <1>3 DEF IntakeInv
<1>5. ASSUME NEW i \in 1..n
      PROVE  \E k \in 1..n : /\ BaseName[request[k].name] = BaseName[request[i].name]
                             /\ storage'[BaseName[request[i].name]] = request[k].bytes
  <2>1. i \in 1..Len(request) /\ n \in 1..n
    BY <1>1
  <2>2. CASE BaseName[request[i].name] = key
    BY <1>3, <1>4, <2>1, <2>2
  <2>3. CASE BaseName[request[i].name] # key
    <3>1. i \in 1..saved
      BY <1>1, <2>3
    <3>2. PICK k \in 1..saved : /\ BaseName[request[k].name] = BaseName[request[i].name]
                                /\ storage[BaseName[request[i].name]] = request[k].bytes
      BY <1>2, <3>1 DEF IntakeInv, StoredTo
    <3>3. k \in 1..n
      BY <1>1
    <3>4. QED BY <1>3, <1>4, <2>1, <2>3, <3>2, <3>3
  <2>4. QED BY <2>2, <2>3
<1>6. StoredTo(saved)'
  BY <1>2, <1>5 DEF StoredTo
<1> HIDE DEF n, key
<1>7. QED BY <1>1, <1>2, <1>4, <1>6 DEF IntakeInv

LEMMA IntakeStep == IntakeInv /\ IntakeNext => IntakeInv'
<1> SUFFICES ASSUME IntakeInv, IntakeNext PROVE IntakeInv'
  OBVIOUS
<1>1. Len(request) \in Nat
  BY RequestType DEF IntakeInv
<1>2. CASE Store
  BY <1>2, StoreStep
<1>3. CASE CreateBatch \/ Reject \/ Accept
  <2>1. UNCHANGED <<request, saved, storage, records>>
        /\ upload \in {"new", "created"} /\ upload' \in {"created", "rejected", "storing"}
    BY <1>3 DEF CreateBatch, Reject, Accept
  <2>2. saved = 0
    BY <2>1 DEF IntakeInv
  <2>3. StoredTo(saved)'
    BY <2>1, <2>2 DEF StoredTo
  <2>4. QED BY <2>1, <2>2, <2>3 DEF IntakeInv
<1>4. CASE AddRecords
  <2>1. /\ upload = "storing" /\ upload' = "done" /\ saved = Len(request)
        /\ UNCHANGED <<request, saved, storage>>
        /\ records' = [i \in DOMAIN request |-> FileRecord(request[i])]
    BY <1>4 DEF AddRecords
  <2>2. StoredTo(saved)'
    BY <2>1 DEF IntakeInv, StoredTo
  <2>3. records' = [i \in DOMAIN request' |-> FileRecord(request'[i])]
    BY <2>1
  <2>4. QED BY <2>1, <2>2, <2>3 DEF IntakeInv, FileRecord, StorageKey
<1>5. CASE UploadFails
  <2>1. /\ upload' = "failed" /\ upload # "done" /\ UNCHANGED <<request, saved, records>>
        /\ storage' = storage \/ \E k : storage' = [storage EXCEPT ![k] = "torn"]
    BY <1>5 DEF UploadFails
  <2>2. DOMAIN storage' = Names /\ storage' = [m \in Names |-> storage'[m]]
    BY <2>1 DEF IntakeInv
  <2>3. QED BY <2>1, <2>2 DEF IntakeInv
<1>6. QED BY <1>2, <1>3, <1>4, <1>5 DEF IntakeNext

\* A committed upload is whole.
LEMMA RecordsWhole == IntakeInv => UploadIsWhole
<1> SUFFICES ASSUME IntakeInv PROVE UploadIsWhole
  OBVIOUS
<1>1. request \in Requests /\ Len(request) \in Nat /\ DOMAIN request = 1..Len(request)
  BY RequestType DEF IntakeInv
<1>2. CASE upload = "done"
  <2>1. /\ saved = Len(request) /\ StoredTo(saved)
        /\ records = [i \in DOMAIN request |-> FileRecord(request[i])]
    BY <1>2 DEF IntakeInv
  <2>2. DOMAIN records = DOMAIN request
    BY <2>1
  <2>3. Len(records) = Len(request)
    BY <1>1, <2>1
  <2>4. ASSUME NEW i \in DOMAIN records
        PROVE  /\ OnlyOne(i) => storage[records[i].key] = records[i].checksum
               /\ \E k \in DOMAIN request : /\ BaseName[request[k].name] = records[i].name
                                            /\ storage[records[i].key] = request[k].bytes
    <3>1. i \in 1..Len(request) /\ records[i] = FileRecord(request[i])
      BY <1>1, <2>1, <2>2
    <3>2. /\ records[i].name = BaseName[request[i].name] /\ records[i].key = BaseName[request[i].name]
          /\ records[i].checksum = request[i].bytes
      BY <3>1 DEF FileRecord, StorageKey
    <3>3. PICK k \in 1..Len(request) : /\ BaseName[request[k].name] = BaseName[request[i].name]
                                       /\ storage[BaseName[request[i].name]] = request[k].bytes
      BY <2>1, <3>1 DEF StoredTo
    <3>4. OnlyOne(i) => k = i
      BY <1>1, <3>1, <3>3 DEF OnlyOne
    <3>5. QED BY <1>1, <3>2, <3>3, <3>4
  <2>5. QED BY <1>2, <2>3, <2>4 DEF UploadIsWhole
<1>3. CASE upload # "done"
  BY <1>3 DEF IntakeInv, UploadIsWhole
<1>4. QED BY <1>2, <1>3

-----------------------------------------------------------------------------
(* The invariant *)

CacheKeys == Names \X Bytes \X Signatures

About(p, f) == p.name = records[f].name /\ p.bytes = storage[records[f].key]
Matches(k, S) == \A p \in S : p.name = k[1] /\ p.bytes = k[2]

Task == [pc : {"none", "start", "wait", "call", "save", "done"},
         payload : SUBSET AnyPayload, hit : BOOLEAN]
Save == [link : {"closed", "temp", "entry", "unlinked"}, key : SUBSET CacheKeys,
         payload : SUBSET Answers, written : BOOLEAN]

\* What the cache files hold, and what is on its way to them, is of their key.
CacheInv ==
    /\ DOMAIN entry = CacheKeys /\ DOMAIN temp = CacheKeys
    /\ \A k \in CacheKeys : Matches(k, entry[k].payload) /\ Matches(k, temp[k].payload)
    /\ writer \in [Jobs -> Save]
    /\ \A j \in Jobs : \A k \in writer[j].key : Matches(k, writer[j].payload)

\* What coroutines and rows hold is of their file, and there is nothing before
\* the upload is committed, while records and storage may still change.
FilesInv ==
    /\ task \in [Jobs -> [Files -> Task]]
    /\ \A j \in Jobs, f \in Files : task[j][f].pc \in {"save", "done"} => task[j][f].payload # {}
    /\ \A j \in Jobs, f \in Files : \A p \in task[j][f].payload : About(p, f)
    /\ \A f \in Files : \A p \in row[f].evidence : About(p, f)
    /\ upload # "done" => \A f \in Files : /\ row[f].evidence = {}
                                           /\ \A j \in Jobs : task[j][f] = NoTask

IInv == IntakeInv /\ CacheInv /\ FilesInv

-----------------------------------------------------------------------------
(* The cache *)

LEMMA AnswerType == \A p \in Answers : p \in AnyPayload
  BY DEF Answers, AnyPayload, Payload, Types

LEMMA OpenStep ==
    ASSUME CacheInv, NEW j \in Jobs, NEW k \in CacheKeys, NEW p \in Answers,
           Matches(k, {p}), Cache!OpenTemp(j, k, p)
    PROVE  CacheInv'
<1>1. /\ temp' = [temp EXCEPT ![k] = Cache!Empty] /\ UNCHANGED entry
      /\ writer' = [writer EXCEPT ![j] = [link |-> "temp", key |-> {k}, payload |-> {p}, written |-> FALSE]]
  BY DEF Cache!OpenTemp
<1>2. Cache!Empty.payload = {}
  BY DEF Cache!Empty
<1>3. DOMAIN temp' = CacheKeys /\ DOMAIN entry' = CacheKeys
      /\ \A x \in CacheKeys : Matches(x, entry'[x].payload) /\ Matches(x, temp'[x].payload)
  BY <1>1, <1>2 DEF CacheInv, Matches
<1>4. [link |-> "temp", key |-> {k}, payload |-> {p}, written |-> FALSE] \in Save
  BY DEF Save
<1>5. writer' \in [Jobs -> Save]
  BY <1>1, <1>4 DEF CacheInv
<1>6. \A i \in Jobs : \A x \in writer'[i].key : Matches(x, writer'[i].payload)
  BY <1>1 DEF CacheInv
<1>7. QED BY <1>3, <1>5, <1>6 DEF CacheInv, Matches

\* A text over a longer one holds no payload, so it cannot be another's.
LEMMA WriteStep ==
    ASSUME CacheInv, NEW j \in Jobs, Cache!WriteText(j)
    PROVE  CacheInv'
<1>1. PICK k \in writer[j].key, p \in writer[j].payload :
         \/ /\ \E t \in Cache!Overwritten(temp[k], p) : temp' = [temp EXCEPT ![k] = t]
            /\ UNCHANGED entry
         \/ /\ \E t \in Cache!Overwritten(entry[k], p) : entry' = [entry EXCEPT ![k] = t]
            /\ UNCHANGED temp
         \/ UNCHANGED <<entry, temp>>
  BY DEF Cache!WriteText
<1>2. k \in CacheKeys /\ Matches(k, {p})
  BY <1>1 DEF CacheInv, Save, Matches
<1>3. ASSUME NEW old, NEW t \in Cache!Overwritten(old, p) PROVE Matches(k, t.payload)
  <2>1. t.payload = {} \/ t.payload = {p}
    BY DEF Cache!Overwritten, Cache!Damaged, Cache!Whole
  <2>2. QED BY <1>2, <2>1 DEF Matches
<1>4. DOMAIN temp' = CacheKeys /\ DOMAIN entry' = CacheKeys
      /\ \A x \in CacheKeys : Matches(x, entry'[x].payload) /\ Matches(x, temp'[x].payload)
  <2>1. CASE \E t \in Cache!Overwritten(temp[k], p) : temp' = [temp EXCEPT ![k] = t] /\ UNCHANGED entry
    BY <1>2, <1>3, <2>1 DEF CacheInv
  <2>2. CASE \E t \in Cache!Overwritten(entry[k], p) : entry' = [entry EXCEPT ![k] = t] /\ UNCHANGED temp
    BY <1>2, <1>3, <2>2 DEF CacheInv
  <2>3. CASE UNCHANGED <<entry, temp>>
    BY <2>3 DEF CacheInv
  <2>4. QED BY <1>1, <2>1, <2>2, <2>3
<1>5. writer' = [writer EXCEPT ![j].written = TRUE]
  BY DEF Cache!WriteText
<1>6. writer' \in [Jobs -> Save]
      /\ \A i \in Jobs : writer'[i].key = writer[i].key /\ writer'[i].payload = writer[i].payload
  BY <1>5 DEF CacheInv, Save
<1>7. \A i \in Jobs : \A x \in writer'[i].key : Matches(x, writer'[i].payload)
  BY <1>6 DEF CacheInv
<1>8. QED BY <1>4, <1>6, <1>7 DEF CacheInv, Matches

LEMMA NotSavingType == Cache!NotSaving \in Save /\ Cache!NotSaving.key = {}
  BY DEF Cache!NotSaving, Save

\* The processes that still have the renamed file open keep their key.
LEMMA RenameStep ==
    ASSUME CacheInv, NEW j \in Jobs, Cache!Rename(j)
    PROVE  CacheInv'
<1>1. PICK k \in writer[j].key :
         /\ entry' = [entry EXCEPT ![k] = temp[k]] /\ temp' = [temp EXCEPT ![k] = Cache!NoText]
         /\ writer' = [v \in Jobs |->
              IF v = j THEN Cache!NotSaving
              ELSE IF writer[v].key # {k} THEN writer[v]
              ELSE [writer[v] EXCEPT !.link = CASE @ = "temp" -> "entry"
                                                [] @ = "entry" -> "unlinked"
                                                [] OTHER -> @]]
  BY DEF Cache!Rename
<1>2. k \in CacheKeys
  BY <1>1 DEF CacheInv, Save
<1>3. Cache!NoText.payload = {}
  BY DEF Cache!NoText
<1>4. DOMAIN temp' = CacheKeys /\ DOMAIN entry' = CacheKeys
      /\ \A x \in CacheKeys : Matches(x, entry'[x].payload) /\ Matches(x, temp'[x].payload)
  BY <1>1, <1>2, <1>3 DEF CacheInv, Matches
<1>5. ASSUME NEW v \in Jobs
      PROVE  /\ writer'[v] \in Save
             /\ writer'[v].key = {} \/ (writer'[v].key = writer[v].key /\ writer'[v].payload = writer[v].payload)
  <2>1. writer[v] \in Save
    BY DEF CacheInv
  <2>2. CASE v = j
    BY <1>1, <2>2, NotSavingType
  <2>3. CASE v # j /\ writer[v].key # {k}
    BY <1>1, <2>1, <2>3
  <2>4. CASE v # j /\ writer[v].key = {k}
    <3>1. PICK l \in {"closed", "temp", "entry", "unlinked"} : writer'[v] = [writer[v] EXCEPT !.link = l]
      BY <1>1, <2>1, <2>4 DEF Save
    <3>2. QED BY <2>1, <3>1 DEF Save
  <2>5. QED BY <2>2, <2>3, <2>4
<1>6. writer' \in [Jobs -> Save]
  BY <1>1, <1>5
<1>7. \A v \in Jobs : \A x \in writer'[v].key : Matches(x, writer'[v].payload)
  BY <1>5 DEF CacheInv
<1>8. QED BY <1>4, <1>6, <1>7 DEF CacheInv, Matches

LEMMA AbandonStep ==
    ASSUME CacheInv, NEW j \in Jobs, Cache!Abandon(j), UNCHANGED <<entry, temp>>
    PROVE  CacheInv'
<1>1. writer' = [writer EXCEPT ![j] = Cache!NotSaving]
  BY DEF Cache!Abandon
<1>2. writer' \in [Jobs -> Save]
  BY <1>1, NotSavingType DEF CacheInv
<1>3. \A v \in Jobs : \A x \in writer'[v].key : Matches(x, writer'[v].payload)
  BY <1>1, NotSavingType DEF CacheInv
<1>4. QED BY <1>2, <1>3 DEF CacheInv, Matches

LEMMA CacheStays == CacheInv /\ UNCHANGED cached => CacheInv'
  BY DEF CacheInv, cached, Matches

-----------------------------------------------------------------------------
(* The coroutines *)

\* A file of a committed upload: its name and the bytes under its key.
LEMMA FileType ==
    ASSUME IntakeInv, upload = "done", NEW f \in Files
    PROVE  records[f].name \in Names /\ storage[records[f].key] \in Bytes
<1>1. request \in Requests /\ DOMAIN request = 1..Len(request) /\ Len(request) \in Nat
  BY RequestType DEF IntakeInv
<1>2. records = [i \in DOMAIN request |-> FileRecord(request[i])]
  BY DEF IntakeInv
<1>3. records[f] = FileRecord(request[f]) /\ f \in DOMAIN records /\ f \in 1..Len(request)
  BY <1>1, <1>2 DEF Files
<1>4. records[f].name = BaseName[request[f].name]
  BY <1>3 DEF FileRecord
<1>5. PICK k \in DOMAIN request : storage[records[f].key] = request[k].bytes
  BY <1>3, RecordsWhole DEF UploadIsWhole
<1>6. QED BY <1>1, <1>3, <1>4, <1>5, RequestType

\* A coroutine that goes on keeps to its file.
LEMMA TaskStep ==
    ASSUME FilesInv, NEW j \in Jobs, NEW f \in Files, task[j][f].pc # "none",
           NEW t \in Task, Become(j, f, t),
           t.pc \in {"save", "done"} => t.payload # {},
           \A p \in t.payload : About(p, f),
           UNCHANGED <<uploaded, row>>
    PROVE  FilesInv'
<1>1. /\ task' = [task EXCEPT ![j][f] = t] /\ task \in [Jobs -> [Files -> Task]]
      /\ UNCHANGED <<request, upload, storage, records, row>>
  BY DEF Become, FilesInv, uploaded
<1>2. Files' = Files
  BY <1>1 DEF Files
<1>3. task' \in [Jobs -> [Files -> Task]]
  BY <1>1
<1>4. \A i \in Jobs, g \in Files : task'[i][g] = IF i = j /\ g = f THEN t ELSE task[i][g]
  BY <1>1
<1>5. upload = "done"
  BY DEF FilesInv, NoTask
<1>6. \A p, g : About(p, g)' = About(p, g)
  BY <1>1 DEF About
<1>7. \A i \in Jobs, g \in Files : task'[i][g].pc \in {"save", "done"} => task'[i][g].payload # {}
  BY <1>4 DEF FilesInv
<1>8. \A i \in Jobs, g \in Files : \A p \in task'[i][g].payload : About(p, g)
  BY <1>4 DEF FilesInv
<1>9. \A g \in Files : \A p \in row[g].evidence : About(p, g)
  BY DEF FilesInv
<1>10. QED BY <1>1, <1>2, <1>3, <1>5, <1>6, <1>7, <1>8, <1>9 DEF FilesInv

\* The coroutines of a job begin or are gone.
LEMMA ClearedStep ==
    ASSUME FilesInv, NEW j \in Jobs, NEW t \in Task, t.payload = {}, t.pc \in {"none", "start"},
           t = NoTask \/ upload = "done",
           task' = [task EXCEPT ![j] = [f \in Files |-> t]], UNCHANGED uploaded,
           \A f \in Files : \A p \in row'[f].evidence : About(p, f),
           upload # "done" => \A f \in Files : row'[f].evidence = {}
    PROVE  FilesInv'
<1>1. UNCHANGED <<request, upload, storage, records>> /\ task \in [Jobs -> [Files -> Task]]
  BY DEF FilesInv, uploaded
<1>2. Files' = Files
  BY <1>1 DEF Files
<1>3. task' \in [Jobs -> [Files -> Task]]
  BY <1>1
<1>4. \A i \in Jobs, f \in Files : task'[i][f] = IF i = j THEN t ELSE task[i][f]
  BY <1>1
<1>5. \A p, g : About(p, g)' = About(p, g)
  BY <1>1 DEF About
<1>6. \A i \in Jobs, g \in Files : /\ task'[i][g].pc \in {"save", "done"} => task'[i][g].payload # {}
                                   /\ \A p \in task'[i][g].payload : About(p, g)
  BY <1>4 DEF FilesInv
<1>7. upload # "done" => \A f \in Files : \A i \in Jobs : task'[i][f] = NoTask
  BY <1>4 DEF FilesInv
<1>8. QED BY <1>1, <1>2, <1>3, <1>5, <1>6, <1>7 DEF FilesInv

LEMMA NoTaskType == NoTask \in Task /\ NoTask.payload = {} /\ NoTask.pc = "none"
  BY DEF NoTask, Task

\* A payload made for a file is about it.
LEMMA MadeFor ==
    ASSUME IntakeInv, upload = "done", NEW f \in Files,
           NEW how \in {"name", "model", "error"}, NEW type \in Types
    PROVE  LET p == Payload(how, type, records[f].name, storage[records[f].key])
           IN  p \in AnyPayload /\ About(p, f)
  BY FileType DEF Payload, AnyPayload, About

\* The same coroutine at another place, with what it has.
LEMMA MoveStep ==
    ASSUME IInv, NEW j \in Jobs, NEW f \in Files, task[j][f].pc # "none",
           NEW pc \in {"wait", "call", "done"}, pc = "done" => task[j][f].payload # {},
           Become(j, f, [task[j][f] EXCEPT !.pc = pc]), UNCHANGED <<uploaded, row>>
    PROVE  FilesInv'
<1> DEFINE t == [task[j][f] EXCEPT !.pc = pc]
<1>1. task[j][f] \in Task
  BY DEF IInv, FilesInv
<1>2. t \in Task /\ t.pc = pc /\ t.payload = task[j][f].payload
  BY <1>1 DEF Task
<1>3. \A p \in t.payload : About(p, f)
  BY <1>2 DEF IInv, FilesInv
<1>4. Become(j, f, t)
  OBVIOUS
<1> HIDE DEF t
<1>5. QED BY <1>2, <1>3, <1>4, TaskStep DEF IInv

\* A coroutine returns a payload that is about its file.
LEMMA ReturnStep ==
    ASSUME IInv, NEW j \in Jobs, NEW f \in Files, task[j][f].pc # "none",
           NEW p \in AnyPayload, About(p, f), NEW hit \in BOOLEAN, NEW pc \in {"save", "done"},
           Become(j, f, [pc |-> pc, payload |-> {p}, hit |-> hit]), UNCHANGED <<uploaded, row>>
    PROVE  FilesInv'
<1> DEFINE t == [pc |-> pc, payload |-> {p}, hit |-> hit]
<1>1. t \in Task /\ t.payload = {p}
  BY DEF Task
<1>2. Become(j, f, t)
  OBVIOUS
<1> HIDE DEF t
<1>3. QED BY <1>1, <1>2, TaskStep DEF IInv

\* A coroutine ends with an exception.
LEMMA RaisesStep ==
    ASSUME IInv, NEW j \in Jobs, NEW f \in Files, task[j][f].pc # "none",
           Raises(j, f), UNCHANGED <<uploaded, row>>
    PROVE  FilesInv'
<1>1. Become(j, f, NoTask)
  BY DEF Raises
<1>2. QED BY <1>1, NoTaskType, TaskStep DEF IInv

\* What the cache holds under the keys of a file is about it.
LEMMA LoadedAbout ==
    ASSUME IInv, upload = "done", NEW f \in Files, NEW k \in Deciding(f), NEW p \in Cache!Load(k)
    PROVE  About(p, f)
<1>1. PICK i \in DOMAIN Candidates : k = Key(f, Candidates[i])
  BY DEF Deciding
<1>2. records[f].name \in Names /\ storage[records[f].key] \in Bytes /\ Candidates[i] \in Signatures
  BY FileType DEF IInv, Signatures
<1>3. k = <<records[f].name, storage[records[f].key], Candidates[i]>>
  BY <1>1 DEF Key
<1>4. k \in CacheKeys /\ k[1] = records[f].name /\ k[2] = storage[records[f].key]
  BY <1>2, <1>3 DEF CacheKeys
<1>5. p \in entry[k].payload
  BY DEF Cache!Load
<1>6. p.name = k[1] /\ p.bytes = k[2]
  BY <1>4, <1>5 DEF IInv, CacheInv, Matches
<1>7. QED BY <1>4, <1>6 DEF About

LEMMA StepKeeps ==
    ASSUME IInv, NEW j \in Jobs, NEW f \in Files, Step(j, f)
    PROVE  CacheInv' /\ FilesInv'
<1>1. UNCHANGED <<uploaded, row>>
  BY DEF Step, ByName, Lookup, Acquire, Answered, Saved, SaveFails, Failed, Raise
<1>2. task[j][f].pc # "none" /\ task[j][f] \in Task
  BY DEF Step, ByName, Lookup, Acquire, Answered, Saved, SaveFails, Failed, Raise, Resumed, IInv, FilesInv
<1>3. upload = "done"
  BY <1>2 DEF IInv, FilesInv, NoTask
<1>4. CASE ByName(j, f)
  <2>1. UNCHANGED cached /\ records[f].name \in DOMAIN Told
    BY <1>4 DEF ByName, NameTells
  <2> DEFINE type == Told[records[f].name]
             p == Payload("name", type, records[f].name, storage[records[f].key])
  <2>2. type \in Types
    BY <2>1 DEF Types
  <2>3. Become(j, f, [pc |-> "done", payload |-> {p}, hit |-> FALSE])
    BY <1>4 DEF ByName, Return
  <2>4. p \in AnyPayload /\ About(p, f)
    BY <1>3, <2>2, MadeFor DEF IInv
  <2> HIDE DEF p
  <2>5. QED BY <1>1, <1>2, <2>1, <2>3, <2>4, ReturnStep, CacheStays DEF IInv
<1>5. CASE Lookup(j, f)
  <2>1. UNCHANGED cached
    BY <1>5 DEF Lookup
  <2>2. CASE Become(j, f, [task[j][f] EXCEPT !.pc = "wait"])
    BY <1>1, <1>2, <2>1, <2>2, MoveStep, CacheStays DEF IInv
  <2>3. CASE \E k \in Deciding(f), p \in Answers : p \in Cache!Load(k) /\ Return(j, f, p, TRUE)
    <3>1. PICK k \in Deciding(f), p \in Answers : p \in Cache!Load(k) /\ Return(j, f, p, TRUE)
      BY <2>3
    <3>2. p \in AnyPayload /\ About(p, f)
      BY <1>3, <3>1, LoadedAbout, AnswerType
    <3>3. Become(j, f, [pc |-> "done", payload |-> {p}, hit |-> TRUE])
      BY <3>1 DEF Return
    <3>4. QED BY <1>1, <1>2, <2>1, <3>2, <3>3, ReturnStep, CacheStays DEF IInv
  <2>4. CASE Raises(j, f)
    BY <1>1, <1>2, <2>1, <2>4, RaisesStep, CacheStays DEF IInv
  <2>5. QED BY <1>5, <2>2, <2>3, <2>4 DEF Lookup
<1>6. CASE Acquire(j, f)
  <2>1. UNCHANGED cached /\ Become(j, f, [task[j][f] EXCEPT !.pc = "call"])
    BY <1>6 DEF Acquire
  <2>2. QED BY <1>1, <1>2, <2>1, MoveStep, CacheStays DEF IInv
<1>7. CASE Answered(j, f)
  <2>1. PICK t \in ModelTypes, s \in Signatures :
          LET p == Payload("model", t, records[f].name, storage[records[f].key])
          IN  /\ Become(j, f, [pc |-> "save", payload |-> {p}, hit |-> FALSE])
              /\ Cache!OpenTemp(j, Key(f, s), p)
    BY <1>7 DEF Answered
  <2> DEFINE p == Payload("model", t, records[f].name, storage[records[f].key])
             k == Key(f, s)
  <2>2. records[f].name \in Names /\ storage[records[f].key] \in Bytes
    BY <1>3, FileType DEF IInv
  <2>3. p \in Answers
    BY <2>2 DEF Answers
  <2>4. p.name = records[f].name /\ p.bytes = storage[records[f].key]
    BY DEF Payload
  <2>5. k = <<records[f].name, storage[records[f].key], s>>
    BY DEF Key
  <2>6. k \in CacheKeys /\ Matches(k, {p})
    BY <2>2, <2>4, <2>5 DEF CacheKeys, Matches
  <2>7. Become(j, f, [pc |-> "save", payload |-> {p}, hit |-> FALSE]) /\ Cache!OpenTemp(j, k, p)
    BY <2>1
  <2> HIDE DEF p, k
  <2>8. CacheInv'
    BY <2>3, <2>6, <2>7, OpenStep DEF IInv
  <2>9. FilesInv'
    BY <1>1, <1>2, <2>3, <2>4, <2>7, ReturnStep, AnswerType DEF About
  <2>10. QED BY <2>8, <2>9
<1>8. CASE Saved(j, f)
  <2>1. Cache!Rename(j) /\ Become(j, f, [task[j][f] EXCEPT !.pc = "done"]) /\ task[j][f].pc = "save"
    BY <1>8 DEF Saved
  <2>2. task[j][f].payload # {}
    BY <2>1 DEF IInv, FilesInv
  <2>3. FilesInv'
    BY <1>1, <1>2, <2>1, <2>2, MoveStep
  <2>4. QED BY <2>1, <2>3, RenameStep DEF IInv
<1>9. CASE SaveFails(j, f)
  <2>1. Cache!Abandon(j) /\ UNCHANGED <<entry, temp>> /\ Raises(j, f)
    BY <1>9 DEF SaveFails
  <2>2. QED BY <1>1, <1>2, <2>1, RaisesStep, AbandonStep DEF IInv
<1>10. CASE Failed(j, f)
  <2> DEFINE p == ErrorPayload(f)
  <2>1. UNCHANGED cached /\ Become(j, f, [pc |-> "done", payload |-> {p}, hit |-> FALSE])
    BY <1>10 DEF Failed, Return
  <2>2. "classification_error" \in Types
    BY DEF Types
  <2>3. p \in AnyPayload /\ About(p, f)
    BY <1>3, <2>2, MadeFor DEF IInv, ErrorPayload
  <2> HIDE DEF p
  <2>4. QED BY <1>1, <1>2, <2>1, <2>3, ReturnStep, CacheStays DEF IInv
<1>11. CASE Raise(j, f)
  <2>1. UNCHANGED cached /\ Raises(j, f)
    BY <1>11 DEF Raise
  <2>2. QED BY <1>1, <1>2, <2>1, RaisesStep, CacheStays DEF IInv
<1>12. QED BY <1>4, <1>5, <1>6, <1>7, <1>8, <1>9, <1>10, <1>11 DEF Step

-----------------------------------------------------------------------------
(* The jobs *)

LEMMA StartStep ==
    ASSUME IInv, NEW j \in Jobs, Start(j)
    PROVE  CacheInv' /\ FilesInv'
<1> DEFINE t == [NoTask EXCEPT !.pc = "start"]
<1>1. t \in Task /\ t.payload = {} /\ t.pc = "start"
  BY DEF NoTask, Task
<1>2. /\ upload = "done" /\ task' = [task EXCEPT ![j] = [f \in Files |-> t]]
      /\ UNCHANGED <<uploaded, cached, row>>
  BY DEF Start
<1>3. \A f \in Files : \A p \in row'[f].evidence : About(p, f)
  BY <1>2 DEF IInv, FilesInv
<1> HIDE DEF t
<1>4. FilesInv'
  BY <1>1, <1>2, <1>3, ClearedStep DEF IInv
<1>5. QED BY <1>2, <1>4, CacheStays DEF IInv

\* A row gets the payload of its coroutine, or keeps what it quotes.
LEMMA CommitStep ==
    ASSUME IInv, NEW j \in Jobs, Commit(j)
    PROVE  CacheInv' /\ FilesInv'
<1>1. /\ \A f \in Files : task[j][f].pc = "done" /\ row'[f] = Updated(j, f)
      /\ task' = [task EXCEPT ![j] = [f \in Files |-> NoTask]]
      /\ UNCHANGED <<uploaded, cached>>
  BY DEF Commit
<1>2. ASSUME NEW f \in Files PROVE \A p \in row'[f].evidence : About(p, f)
  <2> DEFINE p == CHOOSE p \in task[j][f].payload : TRUE
  <2>1. task[j][f].payload # {}
    BY <1>1 DEF IInv, FilesInv
  <2>2. About(p, f)
    BY <2>1 DEF IInv, FilesInv
  <2> HIDE DEF p
  <2>3. NewRow(j, f).evidence = {p}
    BY DEF NewRow, p
  <2>4. Updated(j, f).evidence = row[f].evidence \/ Updated(j, f).evidence = {p}
    BY <2>3 DEF Updated
  <2>5. QED BY <1>1, <2>2, <2>4 DEF IInv, FilesInv
<1>3. upload # "done" => \A f \in Files : row'[f].evidence = {}
  BY <1>1, NoTaskType DEF IInv, FilesInv
<1>4. FilesInv'
  BY <1>1, <1>2, <1>3, NoTaskType, ClearedStep DEF IInv
<1>5. QED BY <1>1, <1>4, CacheStays DEF IInv

LEMMA StopStep ==
    ASSUME IInv, NEW j \in Jobs, Stop(j)
    PROVE  CacheInv' /\ FilesInv'
<1>1. /\ task' = [task EXCEPT ![j] = [f \in Files |-> NoTask]]
      /\ Cache!Abandon(j) /\ UNCHANGED <<entry, temp>> /\ UNCHANGED uploaded /\ row' = row
  BY DEF Stop
<1>2. \A f \in Files : \A p \in row'[f].evidence : About(p, f)
  BY <1>1 DEF IInv, FilesInv
<1>3. upload # "done" => \A f \in Files : row'[f].evidence = {}
  BY <1>1 DEF IInv, FilesInv
<1>4. FilesInv'
  BY <1>1, <1>2, <1>3, NoTaskType, ClearedStep DEF IInv
<1>5. QED BY <1>1, <1>4, AbandonStep DEF IInv

\* While records and storage change there are no coroutines and no rows.
LEMMA UploadStep ==
    ASSUME IInv, Upload
    PROVE  IInv'
<1>1. IntakeNext /\ UNCHANGED <<cached, row, job, task, started>>
  BY DEF Upload
<1>2. IntakeInv' /\ CacheInv'
  BY <1>1, IntakeStep, CacheStays DEF IInv
<1>3. upload # "done" /\ request' = request
  BY <1>1 DEF IntakeNext, CreateBatch, Reject, Accept, Store, AddRecords, UploadFails
<1>4. Files' = Files
  BY <1>3 DEF Files
<1>5. \A f \in Files : row[f].evidence = {} /\ \A j \in Jobs : task[j][f] = NoTask
  BY <1>3 DEF IInv, FilesInv
<1>6. \A f \in Files : row'[f].evidence = {} /\ \A j \in Jobs : task'[j][f] = NoTask
  BY <1>1, <1>5
<1>7. task' \in [Jobs -> [Files -> Task]]
  BY <1>1 DEF IInv, FilesInv
<1>8. FilesInv'
  BY <1>4, <1>6, <1>7, NoTaskType DEF FilesInv
<1>9. QED BY <1>2, <1>8 DEF IInv

LEMMA Starts == Init => IInv
<1> SUFFICES ASSUME Init PROVE IInv
  OBVIOUS
<1>1. IntakeInv
  BY IntakeStarts DEF Init
<1>2. CacheInv
  <2>1. /\ entry = [k \in CacheKeys |-> Cache!NoText] /\ temp = [k \in CacheKeys |-> Cache!NoText]
        /\ writer = [w \in Jobs |-> Cache!NotSaving]
    BY DEF Init, Cache!CacheInit, CacheKeys
  <2>2. Cache!NoText.payload = {}
    BY DEF Cache!NoText
  <2>3. QED BY <2>1, <2>2, NotSavingType DEF CacheInv, Matches
<1>3. FilesInv
  <2>1. /\ task = [j \in Jobs |-> [f \in Files |-> NoTask]] /\ row = [f \in Files |-> NoRow]
    BY DEF Init
  <2>2. NoRow.evidence = {}
    BY DEF NoRow
  <2>3. QED BY <2>1, <2>2, NoTaskType DEF FilesInv
<1>4. QED BY <1>1, <1>2, <1>3 DEF IInv

\* Storage, records, coroutines, rows and cache agree on what belongs to which
\* file, after every step of every process.
LEMMA Inductive == Spec => []IInv
<1>1. IInv /\ [Next]_vars => IInv'
  <2> SUFFICES ASSUME IInv, [Next]_vars PROVE IInv'
    OBVIOUS
  <2>1. ASSUME UNCHANGED <<request, upload, saved, storage, records>> PROVE IntakeInv'
    BY <2>1 DEF IInv, IntakeInv, StoredTo, FileRecord, StorageKey
  <2>2. CASE Upload
    BY <2>2, UploadStep
  <2>3. ASSUME NEW j \in Jobs, Start(j) \/ Commit(j) \/ Stop(j) \/ Write(j) \/ \E f \in Files : Step(j, f)
        PROVE  IInv'
    <3>1. UNCHANGED <<request, upload, saved, storage, records>>
      BY <2>3 DEF Start, Commit, Stop, Write, Step, ByName, Lookup, Acquire, Answered, Saved,
                  SaveFails, Failed, Raise, uploaded
    <3>2. CASE Write(j)
      <4>1. Cache!WriteText(j) /\ UNCHANGED <<uploaded, row, task>>
        BY <3>2 DEF Write
      <4>2. CacheInv'
        BY <4>1, WriteStep DEF IInv
      <4>3. FilesInv'
        BY <4>1 DEF IInv, FilesInv, About, Files, uploaded
      <4>4. QED BY <2>1, <3>1, <4>2, <4>3 DEF IInv
    <3>3. QED BY <2>1, <2>3, <3>1, <3>2, StartStep, CommitStep, StopStep, StepKeeps DEF IInv
  <2>4. CASE UNCHANGED vars
    <3>1. UNCHANGED cached /\ UNCHANGED <<request, upload, saved, storage, records, row, task>>
      BY <2>4 DEF vars, cached
    <3>2. FilesInv'
      BY <3>1 DEF IInv, FilesInv, About, Files
    <3>3. QED BY <2>1, <3>1, <3>2, CacheStays DEF IInv
  <2>5. QED BY <2>2, <2>3, <2>4 DEF Next
<1>2. QED BY <1>1, Starts, PTL DEF Spec

\* An upload that fails anywhere leaves no record, and a committed one has whole
\* bytes for each, for any request (api/batches.py, batch_service.py).
THEOREM WholeUploads == Spec => []UploadIsWhole
<1>1. IInv => UploadIsWhole
  BY RecordsWhole DEF IInv
<1>2. QED BY <1>1, Inductive, PTL

\* What a row quotes and a coroutine returns was answered for the name and bytes
\* of its file, for any number of processes and any overlap
\* (classification_service.py, result_cache.py).
THEOREM AnswersBelong == Spec => []AnswersAreOfTheFile
<1>1. IInv => AnswersAreOfTheFile
  BY DEF IInv, FilesInv, About, AnswersAreOfTheFile
<1>2. QED BY <1>1, Inductive, PTL

-----------------------------------------------------------------------------
(* One save at a time *)

\* An idle job has no coroutine and no open file; an open file is a temporary one,
\* just emptied or with the whole text, and some coroutine is saving it.
JobCalm(j) ==
    /\ job[j].pc = "idle" => /\ writer[j].link = "closed"
                             /\ \A f \in Files : task[j][f].pc = "none"
    /\ \/ writer[j].link = "closed" /\ writer[j].key = {}
       \/ /\ writer[j].link = "temp"
          /\ \E f \in Files : task[j][f].pc = "save"
          /\ \A k, l \in writer[j].key : k = l
          /\ \A k \in writer[j].key :
                IF writer[j].written THEN temp[k].state = "whole" ELSE temp[k] = Cache!Empty

EntriesWhole == \A k \in CacheKeys : entry[k].state \in {"absent", "whole"}

Calm == Alone \/ OneProcess

\* One save at a time: of a job alone one coroutine, of a process that no other
\* accompanies one as well, since its event loop does not go on inside a save.
CalmInv ==
    /\ DOMAIN job = Jobs /\ \A j \in Jobs : "pc" \in DOMAIN job[j]
    /\ beside \in Companies
    /\ Alone => \A i, j \in Jobs : job[i].pc # "idle" /\ job[j].pc # "idle" => i = j
    /\ Calm => /\ \A i, j \in Jobs : writer[i].link # "closed" /\ writer[j].link # "closed" => i = j
               /\ \A j \in Jobs : JobCalm(j)
               /\ EntriesWhole

\* A job that is alone when it starts finds all idle, and none was started before
\* that was not alone.
LEMMA StartAlone ==
    ASSUME NEW j \in Jobs, Start(j), beside \in Companies
    PROVE  /\ beside' \in Companies
           /\ Alone' => Alone /\ \A i \in Jobs : job[i].pc = "idle"
<1>1. beside' = Worst({beside, Company})
  BY DEF Start
<1>2. Company \in Companies /\ (Company = "nothing" => \A i \in Jobs : job[i].pc = "idle")
  BY DEF Company, Companies
<1>3. beside' \in Companies
  BY <1>1 DEF Worst, Companies
<1>4. beside' = "nothing" => beside = "nothing" /\ Company = "nothing"
  BY <1>1, <1>2 DEF Worst, Companies
<1>5. QED BY <1>2, <1>3, <1>4 DEF Alone

\* A step of the job j: what is left to show, when it is the only one that may
\* write, or leaves the files of the others alone.
LEMMA CalmMove ==
    ASSUME CalmInv, NEW j \in Jobs, request' = request, beside' \in Companies,
           Alone' => Alone /\ (job[j].pc # "idle" \/ \A i \in Jobs : job[i].pc = "idle"),
           DOMAIN job' = Jobs, "pc" \in DOMAIN job'[j],
           \A i \in Jobs \ {j} : job'[i] = job[i] /\ task'[i] = task[i],
           Calm' => /\ JobCalm(j)' /\ EntriesWhole'
                    /\ \A i \in Jobs \ {j} : writer[i].link = "closed" /\ writer[i].key = {}
                                               => writer'[i] = writer[i]
                    /\ \/ \A i \in Jobs \ {j} : writer[i].link = "closed"
                       \/ /\ temp' = temp /\ \A i \in Jobs \ {j} : writer'[i] = writer[i]
                          /\ writer'[j] = writer[j] \/ writer'[j].link = "closed"
    PROVE  CalmInv'
<1>1. DOMAIN job' = Jobs /\ \A i \in Jobs : "pc" \in DOMAIN job'[i]
  BY DEF CalmInv
<1>2. ASSUME Alone' PROVE \A i, k \in Jobs : job'[i].pc # "idle" /\ job'[k].pc # "idle" => i = k
  <2>1. \A i \in Jobs \ {j} : job[i].pc = "idle"
    BY <1>2 DEF CalmInv
  <2>2. QED BY <2>1
<1>3. ASSUME Calm'
      PROVE  /\ \A i, k \in Jobs : writer'[i].link # "closed" /\ writer'[k].link # "closed" => i = k
             /\ \A i \in Jobs : JobCalm(i)'
  <2>1. Calm
    BY <1>3 DEF Calm, OneProcess
  <2>2. /\ \A i \in Jobs : JobCalm(i)
        /\ \A i, k \in Jobs : writer[i].link # "closed" /\ writer[k].link # "closed" => i = k
    BY <2>1 DEF CalmInv
  <2>3. CASE \A i \in Jobs \ {j} : writer[i].link = "closed"
    <3>1. \A i \in Jobs \ {j} : writer[i].link = "closed" /\ writer[i].key = {} /\ writer'[i] = writer[i]
      BY <1>3, <2>2, <2>3 DEF JobCalm
    <3>2. \A i \in Jobs \ {j} : JobCalm(i)'
      BY <2>2, <3>1 DEF JobCalm, Files
    <3>3. QED BY <1>3, <3>1, <3>2
  <2>4. CASE /\ temp' = temp /\ \A i \in Jobs \ {j} : writer'[i] = writer[i]
             /\ writer'[j] = writer[j] \/ writer'[j].link = "closed"
    <3>1. \A i \in Jobs \ {j} : JobCalm(i)'
      BY <2>2, <2>4 DEF JobCalm, Files
    <3>2. \A i, k \in Jobs : writer'[i].link # "closed" /\ writer'[k].link # "closed" => i = k
      BY <2>2, <2>4
    <3>3. QED BY <1>3, <3>1, <3>2
  <2>5. QED BY <1>3, <2>3, <2>4
<1>4. QED BY <1>1, <1>2, <1>3 DEF CalmInv

\* A job under way starts nothing: whoever was alone still is.
LEMMA StillAlone ==
    ASSUME CalmInv, NEW j \in Jobs, UNCHANGED started, Calm => job[j].pc # "idle"
    PROVE  /\ beside' \in Companies /\ (Calm' <=> Calm)
           /\ Alone' => Alone /\ (job[j].pc # "idle" \/ \A i \in Jobs : job[i].pc = "idle")
<1>1. beside' = beside
  BY DEF started
<1>2. QED BY <1>1 DEF CalmInv, Alone, Calm, OneProcess

\* A coroutine runs on without a file; the others of its job stay as they are.
LEMMA CalmWithoutFile ==
    ASSUME IInv, CalmInv, NEW j \in Jobs, NEW f \in Files, NEW t, Become(j, f, t),
           Resumed(j, f, task[j][f].pc), task[j][f].pc # "none",
           UNCHANGED <<uploaded, cached, started>>, UNCHANGED job \/ Raises(j, f)
    PROVE  CalmInv'
<1>1. /\ writer[j].link = "closed" /\ writer' = writer /\ entry' = entry /\ temp' = temp
      /\ request' = request
  BY DEF Resumed, cached, uploaded
<1>2. /\ \A i \in Jobs \ {j} : task'[i] = task[i] /\ job'[i] = job[i]
      /\ DOMAIN job' = Jobs /\ "pc" \in DOMAIN job'[j]
      /\ job'[j].pc = "failed" \/ job'[j] = job[j]
  BY DEF Become, Raises, IInv, FilesInv, CalmInv
<1>3. ASSUME Calm PROVE job[j].pc # "idle" /\ JobCalm(j)' /\ EntriesWhole'
  <2>1. job[j].pc # "idle" /\ writer[j].key = {}
    BY <1>1, <1>3 DEF CalmInv, JobCalm
  <2>2. JobCalm(j)'
    BY <1>1, <1>2, <2>1 DEF JobCalm
  <2>3. QED BY <1>1, <1>3, <2>1, <2>2 DEF CalmInv, EntriesWhole
<1>4. QED BY <1>1, <1>2, <1>3, StillAlone, CalmMove

LEMMA CalmStep ==
    ASSUME IInv, CalmInv, NEW j \in Jobs, NEW f \in Files, Step(j, f)
    PROVE  CalmInv'
<1>0. /\ task \in [Jobs -> [Files -> Task]] /\ writer \in [Jobs -> Save]
      /\ DOMAIN entry = CacheKeys /\ DOMAIN temp = CacheKeys
  BY DEF IInv, FilesInv, CacheInv
<1>1. CASE ByName(j, f) \/ Lookup(j, f) \/ Acquire(j, f) \/ Failed(j, f) \/ Raise(j, f)
  <2>1. \E t : Become(j, f, t)
    BY <1>1 DEF ByName, Lookup, Acquire, Failed, Raise, Return, Raises
  <2>2. Resumed(j, f, task[j][f].pc) /\ task[j][f].pc # "none"
    BY <1>1 DEF ByName, Lookup, Acquire, Failed, Raise, Resumed
  <2>3. UNCHANGED <<uploaded, cached, started>> /\ (UNCHANGED job \/ Raises(j, f))
    BY <1>1 DEF ByName, Lookup, Acquire, Failed, Raise
  <2>4. QED BY <2>1, <2>2, <2>3, CalmWithoutFile
<1>2. CASE Answered(j, f)
  <2>1. PICK k \in CacheKeys, p \in Answers :
          /\ Cache!OpenTemp(j, k, p)
          /\ Become(j, f, [pc |-> "save", payload |-> {p}, hit |-> FALSE])
    <3>1. PICK t \in ModelTypes, s \in Signatures :
            LET p == Payload("model", t, records[f].name, storage[records[f].key])
            IN  /\ Become(j, f, [pc |-> "save", payload |-> {p}, hit |-> FALSE])
                /\ Cache!OpenTemp(j, Key(f, s), p)
      BY <1>2 DEF Answered
    <3>2. upload = "done"
      BY <1>2 DEF Answered, Resumed, IInv, FilesInv, NoTask
    <3>3. records[f].name \in Names /\ storage[records[f].key] \in Bytes
      BY <3>2, FileType DEF IInv
    <3>4. /\ Payload("model", t, records[f].name, storage[records[f].key]) \in Answers
          /\ Key(f, s) \in CacheKeys
      BY <3>3 DEF Answers, Key, CacheKeys
    <3>5. QED BY <3>1, <3>4
  <2>2. /\ task[j][f].pc = "call" /\ UNCHANGED <<uploaded, started, job>> /\ entry' = entry
        /\ temp' = [temp EXCEPT ![k] = Cache!Empty]
        /\ writer'[j] = [link |-> "temp", key |-> {k}, payload |-> {p}, written |-> FALSE]
        /\ \A i \in Jobs \ {j} : writer'[i] = writer[i] /\ task'[i] = task[i]
        /\ task'[j][f].pc = "save"
    BY <1>0, <1>2, <2>1 DEF Answered, Resumed, Cache!OpenTemp, Become
  <2>3. ASSUME Calm PROVE job[j].pc # "idle" /\ JobCalm(j)' /\ EntriesWhole'
    <3>1. job[j].pc # "idle"
      BY <2>2, <2>3 DEF CalmInv, JobCalm
    <3>2. temp'[k] = Cache!Empty /\ Files' = Files
      BY <1>0, <2>2 DEF uploaded, Files
    <3>3. JobCalm(j)'
      BY <2>2, <3>1, <3>2 DEF JobCalm
    <3>4. QED BY <2>2, <2>3, <3>1, <3>3 DEF CalmInv, EntriesWhole
  <2>4. DOMAIN job' = Jobs /\ \A i \in Jobs : "pc" \in DOMAIN job'[i] /\ job'[i] = job[i]
    BY <2>2 DEF CalmInv
  <2>5. ASSUME Calm PROVE \A i \in Jobs \ {j} : writer[i].link = "closed"
    <3>1. CASE Alone
      BY <2>3, <2>5, <3>1 DEF CalmInv, JobCalm
    <3>2. CASE OneProcess
      BY <1>2, <3>2 DEF Answered, Resumed, OneProcess
    <3>3. QED BY <2>5, <3>1, <3>2 DEF Calm
  <2>6. (Calm' <=> Calm) /\ beside' \in Companies
        /\ (Alone' => Alone /\ (job[j].pc # "idle" \/ \A i \in Jobs : job[i].pc = "idle"))
    BY <2>2, <2>3, StillAlone
  <2>7. QED BY <2>2, <2>3, <2>4, <2>5, <2>6, CalmMove DEF uploaded
<1>3. CASE Saved(j, f)
  <2>1. PICK k \in writer[j].key :
          /\ entry' = [entry EXCEPT ![k] = temp[k]]
          /\ writer' = [v \in Jobs |->
               IF v = j THEN Cache!NotSaving
               ELSE IF writer[v].key # {k} THEN writer[v]
               ELSE [writer[v] EXCEPT !.link = CASE @ = "temp" -> "entry"
                                                 [] @ = "entry" -> "unlinked"
                                                 [] OTHER -> @]]
    BY <1>3 DEF Saved, Cache!Rename
  <2>2. /\ task[j][f].pc = "save" /\ writer[j].written /\ UNCHANGED <<uploaded, started, job>>
        /\ \A i \in Jobs \ {j} : task'[i] = task[i]
        /\ k \in CacheKeys
    BY <1>0, <1>3 DEF Saved, Become, Cache!Rename, Save
  <2>3. /\ writer'[j] = Cache!NotSaving
        /\ \A i \in Jobs \ {j} : writer[i].key = {} => writer'[i] = writer[i]
    BY <2>1
  <2>4. ASSUME Calm PROVE job[j].pc # "idle" /\ JobCalm(j)' /\ EntriesWhole'
    <3>1. job[j].pc # "idle" /\ temp[k].state = "whole"
      BY <2>1, <2>2, <2>4 DEF CalmInv, JobCalm
    <3>2. JobCalm(j)'
      BY <2>2, <2>3, <3>1 DEF JobCalm, Cache!NotSaving
    <3>3. EntriesWhole'
      BY <1>0, <2>1, <2>2, <2>4, <3>1 DEF CalmInv, EntriesWhole
    <3>4. QED BY <3>1, <3>2, <3>3
  <2>5. DOMAIN job' = Jobs /\ \A i \in Jobs : "pc" \in DOMAIN job'[i] /\ job'[i] = job[i]
    BY <2>2 DEF CalmInv
  <2>6. request' = request
    BY <2>2 DEF uploaded
  <2>7. \A i \in Jobs \ {j} : writer[i].link = "closed" /\ writer[i].key = {}
                                => writer'[i] = writer[i]
    BY <2>3
  <2>8. ASSUME Calm PROVE \A i \in Jobs \ {j} : writer[i].link = "closed"
    <3>1. writer[j].link # "closed"
      BY <2>1, <2>8 DEF CalmInv, JobCalm
    <3>2. QED BY <2>8, <3>1 DEF CalmInv
  <2>9. \A i \in Jobs \ {j} : job'[i] = job[i] /\ task'[i] = task[i]
    BY <2>2, <2>5
  <2>10. (Calm' <=> Calm) /\ beside' \in Companies
         /\ (Alone' => Alone /\ (job[j].pc # "idle" \/ \A i \in Jobs : job[i].pc = "idle"))
    BY <2>2, <2>4, StillAlone
  <2>11. QED BY <2>4, <2>5, <2>6, <2>7, <2>8, <2>9, <2>10, CalmMove
<1>4. CASE SaveFails(j, f)
  <2>1. /\ task[j][f].pc = "save" /\ UNCHANGED <<uploaded, started, entry, temp>>
        /\ writer'[j] = Cache!NotSaving
        /\ \A i \in Jobs \ {j} : writer'[i] = writer[i] /\ task'[i] = task[i] /\ job'[i] = job[i]
        /\ DOMAIN job' = Jobs /\ "pc" \in DOMAIN job'[j] /\ job'[j].pc = "failed"
    BY <1>0, <1>4 DEF SaveFails, Cache!Abandon, Raises, Become, CalmInv
  <2>2. ASSUME Calm PROVE job[j].pc # "idle" /\ JobCalm(j)' /\ EntriesWhole'
    <3>1. job[j].pc # "idle"
      BY <2>1, <2>2 DEF CalmInv, JobCalm
    <3>2. JobCalm(j)'
      BY <2>1 DEF JobCalm, Cache!NotSaving
    <3>3. QED BY <2>1, <2>2, <3>1, <3>2 DEF CalmInv, EntriesWhole
  <2>3. writer'[j].link = "closed"
    BY <2>1 DEF Cache!NotSaving
  <2>4. (Calm' <=> Calm) /\ beside' \in Companies
        /\ (Alone' => Alone /\ (job[j].pc # "idle" \/ \A i \in Jobs : job[i].pc = "idle"))
    BY <2>1, <2>2, StillAlone
  <2>5. QED BY <2>1, <2>2, <2>3, <2>4, CalmMove DEF uploaded
<1>5. QED BY <1>1, <1>2, <1>3, <1>4 DEF Step

LEMMA CalmKept == IInv /\ CalmInv /\ [Next]_vars => CalmInv'
<1> SUFFICES ASSUME IInv, CalmInv, [Next]_vars PROVE CalmInv'
  OBVIOUS
<1>0. /\ task \in [Jobs -> [Files -> Task]] /\ writer \in [Jobs -> Save]
      /\ DOMAIN entry = CacheKeys /\ DOMAIN temp = CacheKeys
  BY DEF IInv, FilesInv, CacheInv
<1>1. CASE Upload \/ UNCHANGED vars
  <2>1. UNCHANGED <<cached, job, task, beside>>
    BY <1>1 DEF Upload, vars, cached, started
  <2>2. request' = request
    BY <1>1 DEF Upload, vars, IntakeNext, CreateBatch, Reject, Accept, Store, AddRecords, UploadFails
  <2>3. (Alone' <=> Alone) /\ (Calm' <=> Calm) /\ beside' \in Companies
    BY <2>1 DEF Alone, Calm, OneProcess, CalmInv
  <2>4. /\ \A j \in Jobs : JobCalm(j) => JobCalm(j)'
        /\ EntriesWhole => EntriesWhole'
    BY <2>1, <2>2 DEF JobCalm, EntriesWhole, Files, cached
  <2>5. QED BY <2>1, <2>3, <2>4 DEF CalmInv, cached
<1>2. ASSUME NEW j \in Jobs, Start(j) PROVE CalmInv'
  <2>1. /\ UNCHANGED <<uploaded, cached>> /\ job[j].pc = "idle"
        /\ job' = [job EXCEPT ![j] = [pc |-> "running", loaded |-> row]]
        /\ \A i \in Jobs \ {j} : task'[i] = task[i]
    BY <1>0, <1>2 DEF Start
  <2>2. /\ DOMAIN job' = Jobs /\ job'[j] = [pc |-> "running", loaded |-> row]
        /\ \A i \in Jobs \ {j} : job'[i] = job[i]
    BY <2>1 DEF CalmInv
  <2>3. "pc" \in DOMAIN job'[j] /\ job'[j].pc = "running"
    BY <2>2
  <2>4. ASSUME Calm PROVE JobCalm(j)' /\ EntriesWhole'
    <3>1. writer[j].link = "closed" /\ writer[j].key = {} /\ writer' = writer /\ entry' = entry
      BY <2>1, <2>4 DEF CalmInv, JobCalm, cached
    <3>2. QED BY <2>3, <2>4, <3>1 DEF CalmInv, JobCalm, EntriesWhole
  <2>5. (Alone' => Alone /\ \A i \in Jobs : job[i].pc = "idle") /\ beside' \in Companies
    BY <1>2, StartAlone DEF CalmInv
  <2>6. Calm' => Calm
    BY <2>5 DEF Calm, OneProcess
  <2>7. writer' = writer /\ temp' = temp /\ request' = request
    BY <2>1 DEF uploaded, cached
  <2>8. QED BY <2>1, <2>2, <2>3, <2>4, <2>5, <2>6, <2>7, CalmMove
<1>3. ASSUME NEW j \in Jobs, Commit(j) PROVE CalmInv'
  <2>1. /\ UNCHANGED <<uploaded, cached, started>> /\ job[j].pc = "running"
        /\ \A f \in Files : task[j][f].pc = "done"
        /\ \A i \in Jobs \ {j} : task'[i] = task[i] /\ job'[i] = job[i]
        /\ DOMAIN job' = Jobs /\ job'[j] = NoJob /\ task'[j] = [f \in Files |-> NoTask]
    BY <1>0, <1>3 DEF Commit, CalmInv
  <2>2. "pc" \in DOMAIN job'[j]
    BY <2>1 DEF NoJob
  <2>3. ASSUME Calm PROVE JobCalm(j)' /\ EntriesWhole'
    <3>1. writer[j].link = "closed" /\ writer[j].key = {} /\ writer' = writer /\ entry' = entry
      BY <2>1, <2>3 DEF CalmInv, JobCalm, cached
    <3>2. Files' = Files
      BY <2>1 DEF uploaded, Files
    <3>3. JobCalm(j)'
      BY <2>1, <3>1, <3>2 DEF JobCalm, NoTask
    <3>4. QED BY <2>3, <3>1, <3>3 DEF CalmInv, EntriesWhole
  <2>4. (Calm' <=> Calm) /\ beside' \in Companies
        /\ (Alone' => Alone /\ (job[j].pc # "idle" \/ \A i \in Jobs : job[i].pc = "idle"))
    BY <2>1, StillAlone
  <2>5. writer' = writer /\ temp' = temp /\ request' = request
    BY <2>1 DEF uploaded, cached
  <2>6. QED BY <2>1, <2>2, <2>3, <2>4, <2>5, CalmMove
<1>4. ASSUME NEW j \in Jobs, Stop(j) PROVE CalmInv'
  <2>1. /\ UNCHANGED <<uploaded, started, entry, temp>> /\ job[j].pc # "idle"
        /\ writer'[j] = Cache!NotSaving
        /\ \A i \in Jobs \ {j} : task'[i] = task[i] /\ job'[i] = job[i] /\ writer'[i] = writer[i]
        /\ DOMAIN job' = Jobs /\ job'[j] = NoJob /\ task'[j] = [f \in Files |-> NoTask]
    BY <1>0, <1>4 DEF Stop, CalmInv, Cache!Abandon
  <2>2. "pc" \in DOMAIN job'[j]
    BY <2>1 DEF NoJob
  <2>3. ASSUME Calm PROVE JobCalm(j)' /\ EntriesWhole'
    <3>1. Files' = Files
      BY <2>1 DEF uploaded, Files
    <3>2. JobCalm(j)'
      BY <2>1, <3>1 DEF JobCalm, NoTask, Cache!NotSaving
    <3>3. QED BY <2>1, <2>3, <3>2 DEF CalmInv, EntriesWhole
  <2>4. (Calm' <=> Calm) /\ beside' \in Companies
        /\ (Alone' => Alone /\ (job[j].pc # "idle" \/ \A i \in Jobs : job[i].pc = "idle"))
    BY <2>1, StillAlone
  <2>5. writer'[j].link = "closed" /\ request' = request
    BY <2>1 DEF uploaded, Cache!NotSaving
  <2>6. QED BY <2>1, <2>2, <2>3, <2>4, <2>5, CalmMove
<1>5. ASSUME NEW j \in Jobs, Write(j) PROVE CalmInv'
  <2>1. /\ UNCHANGED <<uploaded, started, job, task>>
        /\ writer' = [writer EXCEPT ![j].written = TRUE]
        /\ writer[j].link # "closed" /\ ~writer[j].written
    BY <1>5 DEF Write, Cache!WriteText
  <2>2. /\ writer'[j] = [writer[j] EXCEPT !.written = TRUE] /\ writer[j] \in Save
        /\ \A i \in Jobs \ {j} : writer'[i] = writer[i]
    BY <1>0, <2>1
  <2>3. /\ writer'[j].link = writer[j].link /\ writer'[j].key = writer[j].key
        /\ writer'[j].written = TRUE
    BY <2>2 DEF Save
  <2>4. ASSUME Calm PROVE job[j].pc # "idle" /\ JobCalm(j)' /\ EntriesWhole'
    <3>1. /\ job[j].pc # "idle" /\ writer[j].link = "temp"
          /\ \A k \in writer[j].key : temp[k] = Cache!Empty
          /\ \E f \in Files : task[j][f].pc = "save"
          /\ \A k, l \in writer[j].key : k = l
      BY <2>1, <2>4 DEF CalmInv, JobCalm
    <3>2. PICK k \in writer[j].key, p \in writer[j].payload :
            /\ \E t \in Cache!Overwritten(temp[k], p) : temp' = [temp EXCEPT ![k] = t]
            /\ UNCHANGED entry
      BY <1>5, <3>1 DEF Write, Cache!WriteText
    <3>3. k \in CacheKeys /\ p \in Answers
      BY <2>2 DEF Save
    <3>4. Cache!Overwritten(Cache!Empty, p) = {Cache!Whole(p)}
      <4>1. p.type \in ModelTypes
        BY <3>3 DEF Answers, Payload
      <4>2. Length[p.type] \in Nat \ {0}
        BY <4>1, ClassificationConstants
      <4>3. Cache!Empty.size = 0
        BY DEF Cache!Empty
      <4>4. QED BY <3>3, <4>2, <4>3 DEF Cache!Overwritten
    <3>5. temp'[k].state = "whole"
      BY <1>0, <3>1, <3>2, <3>3, <3>4 DEF Cache!Whole
    <3>6. writer[j].key = {k}
      BY <3>1, <3>2
    <3>7. Files' = Files
      BY <2>1 DEF uploaded, Files
    <3>8. JobCalm(j)'
      BY <2>1, <2>3, <3>1, <3>5, <3>6, <3>7 DEF JobCalm
    <3>9. QED BY <2>4, <3>1, <3>2, <3>8 DEF CalmInv, EntriesWhole
  <2>5. DOMAIN job' = Jobs /\ \A i \in Jobs : "pc" \in DOMAIN job'[i] /\ job'[i] = job[i]
    BY <2>1 DEF CalmInv
  <2>6. (Calm' <=> Calm) /\ beside' \in Companies
        /\ (Alone' => Alone /\ (job[j].pc # "idle" \/ \A i \in Jobs : job[i].pc = "idle"))
    BY <2>1, <2>4, StillAlone
  <2>7. ASSUME Calm PROVE \A i \in Jobs \ {j} : writer[i].link = "closed"
    BY <2>1, <2>7 DEF CalmInv
  <2>8. QED BY <2>1, <2>2, <2>4, <2>5, <2>6, <2>7, CalmMove DEF uploaded
<1>6. QED BY <1>1, <1>2, <1>3, <1>4, <1>5, CalmStep DEF Next

LEMMA CalmStarts == Init => CalmInv
<1> SUFFICES ASSUME Init PROVE CalmInv
  OBVIOUS
<1>1. /\ job = [j \in Jobs |-> NoJob] /\ task = [j \in Jobs |-> [f \in Files |-> NoTask]]
        /\ writer = [w \in Jobs |-> Cache!NotSaving]
        /\ entry = [k \in CacheKeys |-> Cache!NoText] /\ beside \in Companies
  BY DEF Init, Cache!CacheInit, CacheKeys, Companies
<1>2. \A j \in Jobs : JobCalm(j) /\ "pc" \in DOMAIN job[j] /\ job[j].pc = "idle"
                      /\ writer[j].link = "closed"
  BY <1>1 DEF JobCalm, NoJob, NoTask, Cache!NotSaving
<1>3. EntriesWhole
  BY <1>1 DEF EntriesWhole, Cache!NoText
<1>4. QED BY <1>1, <1>2, <1>3 DEF CalmInv

\* While each job is alone with the batch, and in a process that is alone with
\* the cache even when jobs overlap, every entry is whole and every open file goes
\* by its temporary name, wherever processes die (result_cache.py).
THEOREM CalmCache == Spec => []CalmCacheIsWhole
<1>1. IInv /\ CalmInv => CalmCacheIsWhole
  BY DEF IInv, CacheInv, CalmInv, JobCalm, EntriesWhole, CalmCacheIsWhole, Calm
<1>2. QED BY <1>1, CalmStarts, CalmKept, Inductive, PTL DEF Spec

-----------------------------------------------------------------------------
(* Types, and who is saving what *)

\* A process has a file open when one of its coroutines saves, one at a time, and
\* it writes that coroutine's payload under a key of its file; an idle process has
\* no coroutine.
SavesOf(j) ==
    /\ job[j].pc = "idle" => \A f \in Files : task[j][f] = NoTask
    /\ (writer[j].link # "closed") = (\E f \in Files : task[j][f].pc = "save")
    /\ \A f, g \in Files : task[j][f].pc = "save" /\ task[j][g].pc = "save" => f = g
    /\ \A f \in Files : task[j][f].pc = "save" =>
         /\ writer[j].payload = task[j][f].payload
         /\ \E s \in Signatures : writer[j].key = {Key(f, s)}

SavesInv == \A j \in Jobs : SavesOf(j)

CacheTypes ==
    /\ entry \in [CacheKeys -> Text] /\ temp \in [CacheKeys -> Text]
    /\ \A j \in Jobs : writer[j].payload \in AtMostOne(Answers)

JobState == [pc : {"running", "failed"}, loaded : [Files -> Row]] \cup {NoJob}

TaskTyped(t) == t.payload \in AtMostOne(AnyPayload) /\ (t.pc \in {"save", "done"}) = (t.payload # {})

JobTypes ==
    /\ beside \in Companies /\ starts \in 0..MaxStarts[beside]
    /\ row \in [Files -> Row] /\ job \in [Jobs -> JobState]
    /\ \A j \in Jobs, f \in Files : TaskTyped(task[j][f])

TypeInv == CacheTypes /\ JobTypes /\ SavesInv

LEMMA Singletons == \A S : {} \in AtMostOne(S) /\ \A x \in S : {x} \in AtMostOne(S)
  BY DEF AtMostOne

LEMMA TextTypes ==
    /\ Cache!NoText \in Text /\ Cache!Empty \in Text
    /\ \A p \in Answers : \A old \in Text : Cache!Overwritten(old, p) \subseteq Text
<1>1. {} \in AtMostOne(Answers) /\ \A p \in Answers : {p} \in AtMostOne(Answers)
  BY Singletons
<1>2. Cache!NoText \in Text /\ Cache!Empty \in Text
  BY <1>1 DEF Cache!NoText, Cache!Empty, Text
<1>3. ASSUME NEW p \in Answers, NEW old \in Text, NEW t \in Cache!Overwritten(old, p) PROVE t \in Text
  <2>1. p.type \in ModelTypes
    BY DEF Answers, Payload
  <2>2. Length[p.type] \in Nat /\ old.size \in Nat
    BY <2>1, ClassificationConstants DEF Text
  <2>3. Cache!Whole(p) = [state |-> "whole", size |-> Length[p.type], payload |-> {p}]
    BY DEF Cache!Whole
  <2>4. Cache!Whole(p) \in Text
    BY <1>1, <2>2, <2>3 DEF Text
  <2>5. Cache!Damaged(old.size) \subseteq Text
    <3>1. \A s \in {"garbled", "undecodable"} : [state |-> s, size |-> old.size, payload |-> {}] \in Text
      BY <1>1, <2>2 DEF Text
    <3>2. QED BY <3>1 DEF Cache!Damaged
  <2>6. QED BY <2>4, <2>5 DEF Cache!Overwritten
<1>4. QED BY <1>2, <1>3

\* Payloads of the writers but j's stay as they are, and so do the entries.
LEMMA WritersTyped ==
    ASSUME CacheTypes, NEW j \in Jobs, UNCHANGED <<entry, temp>>,
           \A i \in Jobs \ {j} : writer'[i] = writer[i],
           writer'[j].payload \in AtMostOne(Answers)
    PROVE  CacheTypes'
  BY DEF CacheTypes

LEMMA CacheTypesKept ==
    ASSUME IInv, CacheTypes, [Next]_vars
    PROVE  CacheTypes'
<1>0. writer \in [Jobs -> Save]
  BY DEF IInv, CacheInv
<1>1. CASE UNCHANGED cached
  BY <1>1 DEF CacheTypes, cached
<1>2. Cache!NotSaving.payload = {} /\ {} \in AtMostOne(Answers) /\ Cache!NotSaving.payload \in AtMostOne(Answers)
  BY Singletons DEF Cache!NotSaving
<1>3. ASSUME NEW j \in Jobs, UNCHANGED <<entry, temp>>, Cache!Abandon(j)
      PROVE CacheTypes'
  BY <1>0, <1>2, <1>3, WritersTyped DEF Cache!Abandon
<1>4. ASSUME NEW j \in Jobs, NEW f \in Files, Answered(j, f) PROVE CacheTypes'
  <2>1. PICK t \in ModelTypes, s \in Signatures :
          Cache!OpenTemp(j, Key(f, s), Payload("model", t, records[f].name, storage[records[f].key]))
    BY <1>4 DEF Answered
  <2> DEFINE p == Payload("model", t, records[f].name, storage[records[f].key])
             k == Key(f, s)
  <2>2. upload = "done"
    BY <1>4 DEF Answered, Resumed, IInv, FilesInv, NoTask
  <2>3. records[f].name \in Names /\ storage[records[f].key] \in Bytes
    BY <2>2, FileType DEF IInv
  <2>4. p \in Answers
    BY <2>3 DEF Answers
  <2>5. Cache!OpenTemp(j, k, p)
    BY <2>1
  <2> HIDE DEF p, k
  <2>6. /\ temp' = [temp EXCEPT ![k] = Cache!Empty] /\ UNCHANGED entry
        /\ writer' = [writer EXCEPT ![j] = [link |-> "temp", key |-> {k}, payload |-> {p}, written |-> FALSE]]
    BY <2>5 DEF Cache!OpenTemp
  <2>7. temp' \in [CacheKeys -> Text]
    BY <2>6, TextTypes DEF CacheTypes
  <2>8. {p} \in AtMostOne(Answers)
    BY <2>4, Singletons
  <2>9. writer'[j].payload = {p} /\ \A i \in Jobs \ {j} : writer'[i] = writer[i]
    BY <1>0, <2>6
  <2>10. \A i \in Jobs : writer'[i].payload \in AtMostOne(Answers)
    BY <2>8, <2>9 DEF CacheTypes
  <2>11. QED BY <2>6, <2>7, <2>10 DEF CacheTypes
<1>5. ASSUME NEW j \in Jobs, Write(j) PROVE CacheTypes'
  <2>1. PICK k \in writer[j].key, p \in writer[j].payload :
         \/ /\ \E t \in Cache!Overwritten(temp[k], p) : temp' = [temp EXCEPT ![k] = t]
            /\ UNCHANGED entry
         \/ /\ \E t \in Cache!Overwritten(entry[k], p) : entry' = [entry EXCEPT ![k] = t]
            /\ UNCHANGED temp
         \/ UNCHANGED <<entry, temp>>
    BY <1>5 DEF Write, Cache!WriteText
  <2>2. k \in CacheKeys /\ p \in Answers
    BY <1>0, <2>1 DEF Save
  <2>3. temp[k] \in Text /\ entry[k] \in Text
    BY <2>2 DEF CacheTypes
  <2>4. entry' \in [CacheKeys -> Text] /\ temp' \in [CacheKeys -> Text]
    BY <2>1, <2>2, <2>3, TextTypes DEF CacheTypes
  <2>5. writer' = [writer EXCEPT ![j].written = TRUE]
    BY <1>5 DEF Write, Cache!WriteText
  <2>6. \A i \in Jobs : writer'[i].payload = writer[i].payload
    BY <1>0, <2>5 DEF Save
  <2>7. QED BY <2>4, <2>6 DEF CacheTypes
<1>6. ASSUME NEW j \in Jobs, NEW f \in Files, Saved(j, f) PROVE CacheTypes'
  <2>1. PICK k \in writer[j].key :
         /\ entry' = [entry EXCEPT ![k] = temp[k]] /\ temp' = [temp EXCEPT ![k] = Cache!NoText]
         /\ writer' = [v \in Jobs |->
              IF v = j THEN Cache!NotSaving
              ELSE IF writer[v].key # {k} THEN writer[v]
              ELSE [writer[v] EXCEPT !.link = CASE @ = "temp" -> "entry"
                                                [] @ = "entry" -> "unlinked"
                                                [] OTHER -> @]]
    BY <1>6 DEF Saved, Cache!Rename
  <2>2. k \in CacheKeys
    BY <1>0, <2>1 DEF Save
  <2>3. entry' \in [CacheKeys -> Text] /\ temp' \in [CacheKeys -> Text]
    BY <2>1, <2>2, TextTypes DEF CacheTypes
  <2>4. \A v \in Jobs : writer'[v].payload = {} \/ writer'[v].payload = writer[v].payload
    BY <1>0, <1>2, <2>1 DEF Save
  <2>5. QED BY <1>2, <2>3, <2>4 DEF CacheTypes
<1>7. QED
  BY <1>1, <1>3, <1>4, <1>5, <1>6
  DEF Next, Upload, vars, cached, Start, Commit, Stop, Step, ByName, Lookup, Acquire, SaveFails, Failed, Raise

\* What a coroutine becomes: its place, its payload and the state of its job.
LEMMA StepShape ==
    ASSUME IInv, JobTypes, NEW j \in Jobs, NEW f \in Files, Step(j, f)
    PROVE  /\ task[j][f].pc # "none" /\ UNCHANGED <<uploaded, row, started>> /\ upload = "done"
           /\ UNCHANGED job \/ job' = [job EXCEPT ![j].pc = "failed"]
           /\ \E t \in Task : Become(j, f, t) /\ TaskTyped(t)
<1>1. UNCHANGED <<uploaded, row, started>> /\ (UNCHANGED job \/ job' = [job EXCEPT ![j].pc = "failed"])
  BY DEF Step, ByName, Lookup, Acquire, Answered, Saved, SaveFails, Failed, Raise, Raises
<1>2. task[j][f].pc # "none" /\ task[j][f] \in Task /\ TaskTyped(task[j][f])
  BY DEF Step, ByName, Lookup, Acquire, Answered, Saved, SaveFails, Failed, Raise, Resumed, IInv, FilesInv, JobTypes
<1>3. upload = "done"
  BY <1>2 DEF IInv, FilesInv, NoTask
<1>4. ASSUME NEW p \in AnyPayload, NEW hit \in BOOLEAN, NEW pc \in {"save", "done"}
      PROVE  /\ [pc |-> pc, payload |-> {p}, hit |-> hit] \in Task
             /\ TaskTyped([pc |-> pc, payload |-> {p}, hit |-> hit])
  <2>1. {p} \in AtMostOne(AnyPayload) /\ {p} \in SUBSET AnyPayload
    BY Singletons
  <2>2. [pc |-> pc, payload |-> {p}, hit |-> hit].pc = pc
    OBVIOUS
  <2>3. QED BY <2>1, <2>2 DEF Task, TaskTyped
<1>5. NoTask \in Task /\ TaskTyped(NoTask)
  BY Singletons, NoTaskType DEF TaskTyped
<1>6. ASSUME NEW pc \in {"wait", "call"}, task[j][f].pc \in {"start", "wait"}
      PROVE  [task[j][f] EXCEPT !.pc = pc] \in Task /\ TaskTyped([task[j][f] EXCEPT !.pc = pc])
  <2>1. [task[j][f] EXCEPT !.pc = pc].pc = pc /\ [task[j][f] EXCEPT !.pc = pc] \in Task
        /\ [task[j][f] EXCEPT !.pc = pc].payload = task[j][f].payload
    BY <1>2 DEF Task
  <2>2. QED BY <1>2, <1>6, <2>1 DEF TaskTyped
<1>7. ASSUME task[j][f].pc = "save"
      PROVE  /\ [task[j][f] EXCEPT !.pc = "done"] \in Task
             /\ TaskTyped([task[j][f] EXCEPT !.pc = "done"])
  <2>1. [task[j][f] EXCEPT !.pc = "done"].pc = "done" /\ [task[j][f] EXCEPT !.pc = "done"] \in Task
        /\ [task[j][f] EXCEPT !.pc = "done"].payload = task[j][f].payload
    BY <1>2 DEF Task
  <2>2. QED BY <1>2, <1>7, <2>1 DEF TaskTyped
<1>8. \E t \in Task : Become(j, f, t) /\ TaskTyped(t)
  <2>1. CASE ByName(j, f)
    <3>1. Told[records[f].name] \in Types
      BY <2>1 DEF ByName, NameTells, Types
    <3>2. Payload("name", Told[records[f].name], records[f].name, storage[records[f].key]) \in AnyPayload
      BY <1>3, <3>1, MadeFor DEF IInv
    <3>3. QED BY <1>4, <2>1, <3>2 DEF ByName, Return
  <2>2. CASE Lookup(j, f)
    BY <1>4, <1>5, <1>6, <2>2, AnswerType DEF Lookup, Return, Raises, Resumed
  <2>3. CASE Acquire(j, f)
    BY <1>6, <2>3 DEF Acquire, Resumed
  <2>4. CASE Answered(j, f)
    <3>1. PICK t \in ModelTypes, s \in Signatures :
            LET p == Payload("model", t, records[f].name, storage[records[f].key])
            IN  Become(j, f, [pc |-> "save", payload |-> {p}, hit |-> FALSE])
      BY <2>4 DEF Answered
    <3>2. t \in Types
      BY DEF Types
    <3>3. Payload("model", t, records[f].name, storage[records[f].key]) \in AnyPayload
      BY <1>3, <3>2, MadeFor DEF IInv
    <3>4. QED BY <1>4, <3>1, <3>3
  <2>5. CASE Saved(j, f)
    BY <1>7, <2>5 DEF Saved
  <2>6. CASE Failed(j, f)
    <3>1. "classification_error" \in Types
      BY DEF Types
    <3>2. ErrorPayload(f) \in AnyPayload
      BY <1>3, <3>1, MadeFor DEF IInv, ErrorPayload
    <3>3. QED BY <1>4, <2>6, <3>2 DEF Failed, Return
  <2>7. CASE SaveFails(j, f) \/ Raise(j, f)
    BY <1>5, <2>7 DEF SaveFails, Raise, Raises
  <2>8. QED BY <2>1, <2>2, <2>3, <2>4, <2>5, <2>6, <2>7 DEF Step
<1>9. QED BY <1>1, <1>2, <1>3, <1>8

LEMMA Stored == \A name, type : StoredType(name, type) \in Types
<1> SUFFICES ASSUME NEW name, NEW type PROVE StoredType(name, type) \in Types
  OBVIOUS
<1>1. \A u : u \in Supported \cup {"classification_error"} => u \in Types
  BY DEF Types
<1>2. "unsupported_document" \in Types
  BY DEF Types
<1>3. QED BY <1>1, <1>2 DEF StoredType

LEMMA NewRowType ==
    ASSUME IInv, JobTypes, NEW j \in Jobs, NEW f \in Files, task[j][f].pc = "done"
    PROVE  /\ NewRow(j, f) \in Row /\ NewRow(j, f).evidence = task[j][f].payload
           /\ \A p \in task[j][f].payload :
                task[j][f].payload = {p} /\ NewRow(j, f).type = StoredType(records[f].name, p.type)
<1>1. task[j][f] \in Task /\ task[j][f].payload \in AtMostOne(AnyPayload) /\ task[j][f].payload # {}
  BY DEF IInv, FilesInv, JobTypes, TaskTyped
<1>2. PICK p \in AnyPayload : task[j][f].payload = {p}
  BY <1>1 DEF AtMostOne
<1>3. p = CHOOSE q \in task[j][f].payload : TRUE
  BY <1>2
<1>4. NewRow(j, f) = [type |-> StoredType(records[f].name, p.type), evidence |-> {p}, hit |-> task[j][f].hit]
  BY <1>3 DEF NewRow
<1>5. task[j][f].hit \in BOOLEAN
  BY <1>1 DEF Task
<1>6. {p} \in AtMostOne(AnyPayload)
  BY Singletons
<1>7. QED BY <1>2, <1>4, <1>5, <1>6, Stored DEF Row

LEMMA UpdatedType ==
    ASSUME IInv, JobTypes, NEW j \in Jobs, NEW f \in Files, task[j][f].pc = "done"
    PROVE  Updated(j, f) \in Row
<1>1. NewRow(j, f) \in Row /\ row[f] \in Row
  BY NewRowType DEF JobTypes
<1>2. /\ row[f].type \in Types \cup {"none"} /\ NewRow(j, f).type \in Types \cup {"none"}
      /\ row[f].evidence \in AtMostOne(AnyPayload) /\ NewRow(j, f).evidence \in AtMostOne(AnyPayload)
      /\ row[f].hit \in BOOLEAN /\ NewRow(j, f).hit \in BOOLEAN
  BY <1>1 DEF Row
<1>3. /\ Updated(j, f).type \in Types \cup {"none"}
      /\ Updated(j, f).evidence \in AtMostOne(AnyPayload)
      /\ Updated(j, f).hit \in BOOLEAN
      /\ Updated(j, f) = [type |-> Updated(j, f).type, evidence |-> Updated(j, f).evidence, hit |-> Updated(j, f).hit]
  BY <1>2 DEF Updated
<1> HIDE DEF Updated
<1>4. QED BY <1>3 DEF Row

\* Jobs leave the upload alone, and it leaves everything else alone.
LEMMA UploadOnly ==
    ASSUME IInv, JobTypes, [Next]_vars
    PROVE  /\ request' = request /\ beside' \in Companies /\ (Alone' => Alone)
           /\ UNCHANGED uploaded \/ (Upload /\ upload # "done")
<1>0. ASSUME UNCHANGED started PROVE beside' \in Companies /\ (Alone' => Alone)
  BY <1>0 DEF started, JobTypes, Alone
<1>1. CASE UNCHANGED vars
  BY <1>0, <1>1 DEF vars, uploaded, started
<1>2. CASE Upload
  BY <1>0, <1>2 DEF Upload, IntakeNext, CreateBatch, Reject, Accept, Store, AddRecords, UploadFails
<1>3. ASSUME NEW j \in Jobs, Commit(j) \/ Stop(j) \/ Write(j)
      PROVE UNCHANGED uploaded /\ UNCHANGED started
  BY <1>3 DEF Commit, Stop, Write
<1>4. ASSUME NEW j \in Jobs, NEW f \in Files, Step(j, f)
      PROVE UNCHANGED uploaded /\ UNCHANGED started
  BY <1>4, StepShape
<1>5. ASSUME NEW j \in Jobs, Start(j)
      PROVE UNCHANGED uploaded /\ beside' \in Companies /\ (Alone' => Alone)
  BY <1>5, StartAlone DEF Start, JobTypes
<1>6. ASSUME UNCHANGED uploaded PROVE request' = request
  BY <1>6 DEF uploaded
<1>7. QED BY <1>0, <1>1, <1>2, <1>3, <1>4, <1>5, <1>6 DEF Next

LEMMA JobTypesKept ==
    ASSUME IInv, JobTypes, SavesInv, [Next]_vars
    PROVE  JobTypes'
<1>1. task \in [Jobs -> [Files -> Task]]
  BY DEF IInv, FilesInv
<1>2. TaskTyped(NoTask) /\ TaskTyped([NoTask EXCEPT !.pc = "start"])
  BY Singletons DEF TaskTyped, NoTask
<1>3. Files' = Files /\ JobState' = JobState
  <2>1. request' = request
    BY UploadOnly
  <2>2. QED BY <2>1 DEF Files, JobState
<1>4. CASE UNCHANGED <<row, job, task, started>>
  BY <1>3, <1>4 DEF JobTypes, TaskTyped, started
<1>5. ASSUME NEW j \in Jobs, Start(j) PROVE JobTypes'
  <2>1. /\ job' = [job EXCEPT ![j] = [pc |-> "running", loaded |-> row]] /\ row' = row
        /\ task' = [task EXCEPT ![j] = [f \in Files |-> [NoTask EXCEPT !.pc = "start"]]]
        /\ starts < MaxStarts[beside'] /\ starts' = starts + 1
    BY <1>5 DEF Start
  <2>2. [pc |-> "running", loaded |-> row] \in JobState
    BY DEF JobTypes, JobState
  <2>3. job' \in [Jobs -> JobState]
    BY <2>1, <2>2 DEF JobTypes
  <2>4. \A i \in Jobs, f \in Files : TaskTyped(task'[i][f])
    BY <1>1, <1>2, <2>1 DEF JobTypes
  <2>5. beside' \in Companies /\ starts' \in 0..MaxStarts[beside']
    <3>1. beside' \in Companies /\ MaxStarts[beside] \in Nat /\ MaxStarts[beside'] \in Nat
      BY UploadOnly, ClassificationConstants DEF JobTypes
    <3>2. starts \in Nat
      BY <3>1 DEF JobTypes
    <3>3. QED BY <2>1, <3>1, <3>2
  <2>6. QED BY <1>3, <2>1, <2>3, <2>4, <2>5 DEF JobTypes, TaskTyped
<1>6. ASSUME NEW j \in Jobs, Commit(j) \/ Stop(j) PROVE JobTypes'
  <2>1. /\ job' = [job EXCEPT ![j] = NoJob] /\ UNCHANGED started
        /\ task' = [task EXCEPT ![j] = [f \in Files |-> NoTask]]
    BY <1>6 DEF Commit, Stop
  <2>2. NoJob \in JobState
    BY DEF JobState
  <2>3. job' \in [Jobs -> JobState]
    BY <2>1, <2>2 DEF JobTypes
  <2>4. \A i \in Jobs, f \in Files : TaskTyped(task'[i][f])
    BY <1>1, <1>2, <2>1 DEF JobTypes
  <2>5. row' \in [Files -> Row]
    <3>1. CASE Stop(j)
      BY <3>1 DEF Stop, JobTypes
    <3>2. CASE Commit(j)
      <4>1. row' = [f \in Files |-> Updated(j, f)] /\ \A f \in Files : task[j][f].pc = "done"
        BY <3>2 DEF Commit
      <4>2. \A f \in Files : Updated(j, f) \in Row
        BY <4>1, UpdatedType
      <4>3. QED BY <4>1, <4>2
    <3>3. QED BY <1>6, <3>1, <3>2
  <2>6. QED BY <1>3, <2>1, <2>3, <2>4, <2>5 DEF JobTypes, TaskTyped, started
<1>7. ASSUME NEW j \in Jobs, NEW f \in Files, Step(j, f) PROVE JobTypes'
  <2>1. PICK t \in Task : Become(j, f, t) /\ TaskTyped(t)
    BY <1>7, StepShape
  <2>2. UNCHANGED <<row, started>> /\ (UNCHANGED job \/ job' = [job EXCEPT ![j].pc = "failed"])
        /\ task[j][f].pc # "none"
    BY <1>7, StepShape
  <2>3. \A i \in Jobs, g \in Files : task'[i][g] = task[i][g] \/ task'[i][g] = t
    BY <1>1, <2>1 DEF Become
  <2>4. \A i \in Jobs, g \in Files : TaskTyped(task'[i][g])
    BY <2>1, <2>3 DEF JobTypes
  <2>5. job' \in [Jobs -> JobState]
    <3>1. job[j].pc # "idle"
      BY <2>2, NoTaskType DEF SavesInv, SavesOf
    <3>2. job[j] \in [pc : {"running", "failed"}, loaded : [Files -> Row]]
      BY <3>1 DEF JobTypes, JobState, NoJob
    <3>3. [job[j] EXCEPT !.pc = "failed"] \in JobState
      BY <3>2 DEF JobState
    <3>4. QED BY <2>2, <3>3 DEF JobTypes
  <2>6. QED BY <1>3, <2>2, <2>4, <2>5 DEF JobTypes, TaskTyped, started
<1>8. QED
  <2>1. CASE Upload \/ UNCHANGED vars
    BY <1>4, <2>1 DEF Upload, vars, started
  <2>2. ASSUME NEW j \in Jobs, Write(j) PROVE JobTypes'
    BY <1>4, <2>2 DEF Write
  <2>3. QED BY <1>5, <1>6, <1>7, <2>1, <2>2 DEF Next

\* The coroutines, jobs and files of the other processes stay as they are, but
\* for the names of the files.
LEMMA SavesMove ==
    ASSUME SavesInv, NEW j \in Jobs, UNCHANGED uploaded,
           \A i \in Jobs \ {j} : /\ task'[i] = task[i] /\ job'[i] = job[i]
                                 /\ (writer'[i].link # "closed" <=> writer[i].link # "closed")
                                 /\ writer'[i].key = writer[i].key
                                 /\ writer'[i].payload = writer[i].payload,
           SavesOf(j)'
    PROVE  SavesInv'
<1>1. Files' = Files /\ \A f, s : Key(f, s)' = Key(f, s)
  BY DEF uploaded, Files, Key
<1>2. ASSUME NEW i \in Jobs \ {j} PROVE SavesOf(i)'
  <2>1. SavesOf(i)
    BY DEF SavesInv
  <2>2. /\ job'[i] = job[i] /\ task'[i] = task[i] /\ (writer'[i].link # "closed" <=> writer[i].link # "closed")
        /\ writer'[i].key = writer[i].key /\ writer'[i].payload = writer[i].payload
    OBVIOUS
  <2>3. /\ job'[i].pc = "idle" => \A f \in Files : task'[i][f] = NoTask
        /\ \A f, g \in Files : task'[i][f].pc = "save" /\ task'[i][g].pc = "save" => f = g
    BY <2>1, <2>2 DEF SavesOf
  <2>4. (writer'[i].link # "closed") = (\E f \in Files : task'[i][f].pc = "save")
    BY <2>1, <2>2 DEF SavesOf
  <2>5. \A f \in Files : task'[i][f].pc = "save" =>
          /\ writer'[i].payload = task'[i][f].payload
          /\ \E s \in Signatures : writer'[i].key = {Key(f, s)'}
    BY <1>1, <2>1, <2>2 DEF SavesOf
  <2>6. QED BY <1>1, <2>3, <2>4, <2>5 DEF SavesOf
<1>3. QED BY <1>2 DEF SavesInv

\* A coroutine moves while its process has no file open or has just closed its own.
LEMMA SavesWithout ==
    ASSUME IInv, JobTypes, SavesInv, NEW j \in Jobs, NEW f \in Files, NEW t \in Task, Become(j, f, t),
           UNCHANGED uploaded, task[j][f].pc # "none", t.pc # "save",
           UNCHANGED job \/ job' = [job EXCEPT ![j].pc = "failed"],
           task[j][f].pc = "save" \/ writer[j].link = "closed",
           writer'[j].link = "closed",
           \A i \in Jobs \ {j} : /\ (writer'[i].link # "closed" <=> writer[i].link # "closed")
                                 /\ writer'[i].key = writer[i].key
                                 /\ writer'[i].payload = writer[i].payload
    PROVE  SavesInv'
<1>1. /\ \A i \in Jobs \ {j} : task'[i] = task[i] /\ job'[i] = job[i]
      /\ task'[j][f] = t /\ \A g \in Files \ {f} : task'[j][g] = task[j][g]
      /\ Files' = Files
  BY DEF Become, IInv, FilesInv, Files, uploaded, JobTypes
<1>2. SavesOf(j)
  BY DEF SavesInv
<1>3. job[j].pc # "idle"
  BY <1>2, NoTaskType DEF SavesOf
<1>4. job'[j].pc # "idle"
  BY <1>3 DEF JobTypes, JobState, NoJob
<1>5. \A g \in Files : task'[j][g].pc # "save"
  BY <1>1, <1>2 DEF SavesOf
<1>6. SavesOf(j)'
  BY <1>1, <1>4, <1>5 DEF SavesOf
<1>7. QED BY <1>1, <1>6, SavesMove

LEMMA SavesStep ==
    ASSUME IInv, JobTypes, SavesInv, NEW j \in Jobs, NEW f \in Files, Step(j, f)
    PROVE  SavesInv'
<1>0. writer \in [Jobs -> Save] /\ task \in [Jobs -> [Files -> Task]] /\ SavesOf(j)
  BY DEF IInv, FilesInv, CacheInv, SavesInv
<1>1. /\ task[j][f].pc # "none" /\ UNCHANGED uploaded
      /\ UNCHANGED job \/ job' = [job EXCEPT ![j].pc = "failed"]
  BY StepShape
<1>2. PICK t \in Task : Become(j, f, t)
  BY StepShape
<1>3. /\ task'[j][f] = t /\ Files' = Files
      /\ \A g \in Files \ {f} : task'[j][g] = task[j][g]
      /\ \A i \in Jobs \ {j} : task'[i] = task[i]
  BY <1>0, <1>1, <1>2 DEF Become, uploaded, Files
<1>4. CASE ByName(j, f) \/ Lookup(j, f) \/ Acquire(j, f) \/ Failed(j, f) \/ Raise(j, f)
  <2>1. writer[j].link = "closed" /\ writer' = writer
    BY <1>4 DEF ByName, Lookup, Acquire, Failed, Raise, Resumed, cached
  <2>2. task'[j][f].pc # "save"
    <3>1. CASE ByName(j, f) \/ Failed(j, f) \/ Raise(j, f)
      BY <1>0, <3>1, NoTaskType DEF ByName, Failed, Raise, Raises, Return, Become
    <3>2. CASE Lookup(j, f) \/ Acquire(j, f)
      BY <1>0, <3>2, NoTaskType DEF Lookup, Acquire, Raises, Return, Become, Task
    <3>3. QED BY <1>4, <3>1, <3>2
  <2>3. QED BY <1>1, <1>2, <1>3, <2>1, <2>2, SavesWithout
<1>5. CASE Answered(j, f)
  <2>1. PICK m \in ModelTypes, s \in Signatures :
          LET p == Payload("model", m, records[f].name, storage[records[f].key])
          IN  /\ Become(j, f, [pc |-> "save", payload |-> {p}, hit |-> FALSE])
              /\ Cache!OpenTemp(j, Key(f, s), p)
    BY <1>5 DEF Answered
  <2> DEFINE p == Payload("model", m, records[f].name, storage[records[f].key])
             k == Key(f, s)
  <2>2. Become(j, f, [pc |-> "save", payload |-> {p}, hit |-> FALSE]) /\ Cache!OpenTemp(j, k, p) /\ k = Key(f, s)
    BY <2>1
  <2> HIDE DEF p, k
  <2>3. /\ writer'[j] = [link |-> "temp", key |-> {k}, payload |-> {p}, written |-> FALSE]
        /\ \A i \in Jobs \ {j} : writer'[i] = writer[i]
        /\ task'[j][f] = [pc |-> "save", payload |-> {p}, hit |-> FALSE]
    BY <1>0, <2>2 DEF Cache!OpenTemp, Become
  <2>4. writer[j].link = "closed" /\ UNCHANGED job /\ UNCHANGED <<records, storage>>
    BY <1>5 DEF Answered, Resumed, uploaded
  <2>5. \A g \in Files : task[j][g].pc # "save"
    BY <1>0, <2>4 DEF SavesOf
  <2>6. \A g \in Files : (task'[j][g].pc = "save") = (g = f)
    BY <1>3, <2>3, <2>5
  <2>7. job[j].pc # "idle"
    BY <1>0, <1>1, NoTaskType DEF SavesOf
  <2>8. Key(f, s)' = Key(f, s)
    BY <2>4 DEF Key
  <2>9. writer'[j].link = "temp" /\ writer'[j].key = {Key(f, s)'} /\ writer'[j].payload = task'[j][f].payload
    BY <2>2, <2>3, <2>8
  <2>10. SavesOf(j)'
    BY <1>3, <2>4, <2>6, <2>7, <2>9 DEF SavesOf
  <2>11. \A i \in Jobs \ {j} : task'[i] = task[i] /\ job'[i] = job[i] /\ writer'[i] = writer[i]
    BY <1>3, <2>3, <2>4
  <2>12. QED BY <1>1, <2>10, <2>11, SavesMove
<1>6. CASE Saved(j, f)
  <2>1. PICK k \in writer[j].key :
         writer' = [v \in Jobs |->
              IF v = j THEN Cache!NotSaving
              ELSE IF writer[v].key # {k} THEN writer[v]
              ELSE [writer[v] EXCEPT !.link = CASE @ = "temp" -> "entry"
                                                [] @ = "entry" -> "unlinked"
                                                [] OTHER -> @]]
    BY <1>6 DEF Saved, Cache!Rename
  <2>2. task[j][f].pc = "save" /\ task'[j][f].pc = "done"
    BY <1>0, <1>6 DEF Saved, Become, Task
  <2>3. writer'[j].link = "closed"
    BY <2>1 DEF Cache!NotSaving
  <2>4. ASSUME NEW i \in Jobs \ {j}
        PROVE  /\ (writer'[i].link # "closed" <=> writer[i].link # "closed")
               /\ writer'[i].key = writer[i].key /\ writer'[i].payload = writer[i].payload
    <3>1. writer[i] \in Save
      BY <1>0
    <3> DEFINE l == CASE writer[i].link = "temp" -> "entry"
                     [] writer[i].link = "entry" -> "unlinked"
                     [] OTHER -> writer[i].link
    <3>2. writer'[i] = [writer[i] EXCEPT !.link = l] \/ writer'[i] = writer[i]
      BY <2>1
    <3>3. l # "closed" <=> writer[i].link # "closed"
      BY <3>1 DEF Save
    <3> HIDE DEF l
    <3>4. QED BY <3>1, <3>2, <3>3 DEF Save
  <2>5. QED BY <1>1, <1>2, <1>3, <2>2, <2>3, <2>4, SavesWithout
<1>7. CASE SaveFails(j, f)
  <2>1. /\ task[j][f].pc = "save" /\ task'[j][f].pc = "none" /\ writer'[j].link = "closed"
        /\ \A i \in Jobs \ {j} : writer'[i] = writer[i]
    BY <1>0, <1>7, NoTaskType DEF SaveFails, Raises, Become, Cache!Abandon, Cache!NotSaving
  <2>2. QED BY <1>1, <1>2, <1>3, <2>1, SavesWithout
<1>8. QED BY <1>4, <1>5, <1>6, <1>7 DEF Step

LEMMA SavesKept ==
    ASSUME IInv, JobTypes, SavesInv, [Next]_vars
    PROVE  SavesInv'
<1>0. writer \in [Jobs -> Save] /\ task \in [Jobs -> [Files -> Task]] /\ job \in [Jobs -> JobState]
  BY DEF IInv, FilesInv, CacheInv, JobTypes
<1>1. CASE UNCHANGED vars
  <2>1. UNCHANGED <<job, task, writer, request, records, storage>>
    BY <1>1 DEF vars
  <2>2. QED BY <2>1 DEF SavesInv, SavesOf, Files, Key
<1>2. CASE Upload
  <2>1. UNCHANGED <<job, task, writer, request>> /\ upload # "done"
    BY <1>2 DEF Upload, cached, IntakeNext, CreateBatch, Reject, Accept, Store, AddRecords, UploadFails
  <2>2. \A j \in Jobs, f \in Files : task[j][f] = NoTask /\ task[j][f].pc # "save"
    BY <2>1, NoTaskType DEF IInv, FilesInv
  <2>3. QED BY <2>1, <2>2 DEF SavesInv, SavesOf, Files
<1>3. ASSUME NEW j \in Jobs, Start(j) \/ Commit(j) \/ Stop(j) PROVE SavesInv'
  <2>1. /\ UNCHANGED uploaded /\ \A i \in Jobs \ {j} : task'[i] = task[i] /\ job'[i] = job[i] /\ writer'[i] = writer[i]
        /\ Files' = Files
    BY <1>0, <1>3 DEF Start, Commit, Stop, cached, Cache!Abandon, uploaded, Files
  <2>2. SavesOf(j)
    BY DEF SavesInv
  <2>3. CASE Start(j)
    <3>1. /\ \A f \in Files : task'[j][f] = [NoTask EXCEPT !.pc = "start"] /\ task[j][f] = NoTask
          /\ job'[j].pc = "running" /\ writer' = writer
      BY <1>0, <2>2, <2>3 DEF Start, SavesOf, cached
    <3>2. \A f \in Files : task'[j][f].pc = "start" /\ task[j][f].pc = "none"
      BY <3>1 DEF NoTask
    <3>3. writer'[j].link = "closed"
      BY <2>2, <3>1, <3>2 DEF SavesOf
    <3>4. SavesOf(j)'
      BY <2>1, <3>1, <3>2, <3>3 DEF SavesOf
    <3>5. QED BY <2>1, <3>4, SavesMove
  <2>4. CASE Commit(j) \/ Stop(j)
    <3>1. \A f \in Files : task'[j][f] = NoTask
      BY <1>0, <2>4 DEF Commit, Stop
    <3>2. writer'[j].link = "closed"
      <4>1. CASE Stop(j)
        BY <1>0, <4>1 DEF Stop, Cache!Abandon, Cache!NotSaving
      <4>2. CASE Commit(j)
        BY <2>2, <4>2 DEF Commit, SavesOf, cached
      <4>3. QED BY <2>4, <4>1, <4>2
    <3>3. SavesOf(j)'
      BY <2>1, <3>1, <3>2, NoTaskType DEF SavesOf
    <3>4. QED BY <2>1, <3>3, SavesMove
  <2>5. QED BY <1>3, <2>3, <2>4
<1>4. ASSUME NEW j \in Jobs, Write(j) PROVE SavesInv'
  <2>1. UNCHANGED <<uploaded, job, task>> /\ writer' = [writer EXCEPT ![j].written = TRUE]
    BY <1>4 DEF Write, Cache!WriteText
  <2>2. \A i \in Jobs : /\ writer'[i].link = writer[i].link /\ writer'[i].key = writer[i].key
                        /\ writer'[i].payload = writer[i].payload
    BY <1>0, <2>1 DEF Save
  <2>3. Files' = Files /\ \A f, s : Key(f, s)' = Key(f, s)
    BY <2>1 DEF uploaded, Files, Key
  <2>4. SavesOf(j)'
    <3>1. SavesOf(j) /\ job'[j] = job[j] /\ task'[j] = task[j]
      BY <2>1 DEF SavesInv
    <3>2. (writer'[j].link # "closed") = (\E f \in Files : task'[j][f].pc = "save")
      BY <2>2, <3>1 DEF SavesOf
    <3>3. \A f \in Files : task'[j][f].pc = "save" =>
            /\ writer'[j].payload = task'[j][f].payload
            /\ \E s \in Signatures : writer'[j].key = {Key(f, s)'}
      BY <2>2, <2>3, <3>1 DEF SavesOf
    <3>4. \A f \in Files : job'[j].pc = "idle" => task'[j][f] = NoTask
      BY <3>1 DEF SavesOf
    <3>5. \A f, g \in Files : task'[j][f].pc = "save" /\ task'[j][g].pc = "save" => f = g
      BY <3>1 DEF SavesOf
    <3>6. QED BY <2>3, <3>2, <3>3, <3>4, <3>5 DEF SavesOf
  <2>5. \A i \in Jobs \ {j} : job'[i] = job[i] /\ task'[i] = task[i]
    BY <2>1
  <2>6. QED BY <2>1, <2>2, <2>4, <2>5, SavesMove
<1>5. QED BY <1>1, <1>2, <1>3, <1>4, SavesStep DEF Next

LEMMA TypesAlways == Spec => []TypeInv
<1>1. Init => TypeInv
  <2> SUFFICES ASSUME Init PROVE TypeInv
    OBVIOUS
  <2>1. /\ job = [j \in Jobs |-> NoJob] /\ task = [j \in Jobs |-> [f \in Files |-> NoTask]]
        /\ writer = [w \in Jobs |-> Cache!NotSaving] /\ row = [f \in Files |-> NoRow]
        /\ entry = [k \in CacheKeys |-> Cache!NoText] /\ temp = [k \in CacheKeys |-> Cache!NoText]
        /\ beside = "nothing" /\ starts = 0
    BY DEF Init, Cache!CacheInit, CacheKeys
  <2>2. CacheTypes
    BY <2>1, TextTypes, Singletons DEF CacheTypes, Cache!NotSaving
  <2>3. JobTypes
    <3>1. TaskTyped(NoTask)
      BY Singletons DEF TaskTyped, NoTask
    <3>2. NoRow \in Row
      BY Singletons DEF NoRow, Row
    <3>3. beside \in Companies /\ MaxStarts[beside] \in Nat
      BY <2>1, ClassificationConstants DEF Companies
    <3>4. NoJob \in JobState
      BY DEF JobState
    <3>5. QED BY <2>1, <3>1, <3>2, <3>3, <3>4 DEF JobTypes
  <2>4. SavesInv
    BY <2>1, NoTaskType DEF SavesInv, SavesOf, Cache!NotSaving
  <2>5. QED BY <2>2, <2>3, <2>4 DEF TypeInv
<1>2. IInv /\ TypeInv /\ [Next]_vars => TypeInv'
  BY CacheTypesKept, JobTypesKept, SavesKept DEF TypeInv
<1>3. QED BY <1>1, <1>2, Inductive, PTL DEF Spec

\* Every variable has its type, and a process has a file open exactly while one of
\* its coroutines saves (classification_service.py, result_cache.py).
THEOREM ClassificationTypes == Spec => []TypeOK
<1>1. IInv /\ TypeInv => TypeOK
  <2> SUFFICES ASSUME IInv, TypeInv PROVE TypeOK
    OBVIOUS
  <2>1. request \in Requests /\ upload \in {"new", "created", "storing", "rejected", "failed", "done"}
    BY DEF IInv, IntakeInv
  <2>2. beside \in Companies /\ starts \in 0..MaxStarts[beside] /\ row \in [Files -> Row]
    BY DEF TypeInv, JobTypes
  <2>3. entry \in [DOMAIN entry -> Text] /\ temp \in [DOMAIN entry -> Text]
    BY DEF TypeInv, CacheTypes
  <2>4. ASSUME NEW j \in Jobs
        PROVE  /\ job[j].pc \in {"idle", "running", "failed"}
               /\ job[j].pc # "idle" => job[j].loaded \in [Files -> Row]
    BY DEF TypeInv, JobTypes, JobState, NoJob
  <2>5. ASSUME NEW j \in Jobs
        PROVE  /\ (writer[j].link # "closed") = (\E f \in Files : task[j][f].pc = "save")
               /\ \A f \in Files : (task[j][f].pc \in {"save", "done"}) = (task[j][f].payload # {})
    BY DEF TypeInv, JobTypes, SavesInv, SavesOf, TaskTyped
  <2>6. QED BY <2>1, <2>2, <2>3, <2>4, <2>5 DEF TypeOK
<1>2. QED BY <1>1, TypesAlways, Inductive, PTL

-----------------------------------------------------------------------------
(* One answer per file *)

\* Nothing in the cache decides about the file.
Missing(f) == \A s \in Signatures : /\ entry[Key(f, s)].payload = {}
                                    /\ entry[Key(f, s)].state # "undecodable"

\* What a job knows of its files is what the cache knows of them: while it asks
\* about one nothing is known, and afterwards the answer, unless asking failed.
BookOf(j) ==
    /\ job[j].pc = "running" => job[j].loaded = row
    /\ writer[j].link = "temp" /\ writer[j].written =>
         \A k \in writer[j].key : temp[k].payload = writer[j].payload
    /\ \A f \in Files : Own(f) =>
         /\ task[j][f].pc \in {"wait", "call", "save"} => Missing(f)
         /\ task[j][f].pc = "done" =>
              \/ task[j][f].payload = Known(f)
              \/ Missing(f) /\ \A p \in task[j][f].payload : p.how = "error"

BookInv ==
    /\ upload # "done" => \A k \in CacheKeys : entry[k] = Cache!NoText
    /\ Alone => \A j \in Jobs : BookOf(j)

AllInv == IInv /\ TypeInv /\ CalmInv /\ BookInv

Stops(f) == {i \in DOMAIN Candidates :
               Cache!Load(Key(f, Candidates[i])) # {} \/ Cache!Poisoned(Key(f, Candidates[i]))}

LEMMA MissingUnknown == ASSUME NEW f, Missing(f) PROVE Known(f) = {}
<1>1. \A i \in DOMAIN Candidates : Candidates[i] \in Signatures
  BY DEF Signatures
<1>2. Stops(f) = {}
  BY <1>1 DEF Stops, Missing, Cache!Load, Cache!Poisoned
<1>3. Deciding(f) = {Key(f, Candidates[i]) : i \in {i \in Stops(f) : \A k \in Stops(f) : i <= k}}
  BY DEF Deciding, Stops
<1>4. Deciding(f) = {}
  BY <1>2, <1>3
<1>5. QED BY <1>4 DEF Known

\* A lookup that nothing decides finds nothing under any signature.
LEMMA UndecidedMissing == ASSUME NEW f, Deciding(f) = {} PROVE Missing(f)
<1>1. Deciding(f) = {Key(f, Candidates[i]) : i \in {i \in Stops(f) : \A k \in Stops(f) : i <= k}}
  BY DEF Deciding, Stops
<1>2. Stops(f) = {}
  <2>1. Stops(f) \in SUBSET Nat
    BY ClassificationConstants DEF Stops
  <2>2. SUFFICES ASSUME Stops(f) # {} PROVE FALSE
    OBVIOUS
  <2>3. PICK i \in Stops(f) : \A k \in Stops(f) : i <= k
    BY <2>1, <2>2, LeastNat
  <2>4. QED BY <1>1, <2>3
<1>3. \A i \in DOMAIN Candidates : /\ entry[Key(f, Candidates[i])].payload = {}
                                   /\ entry[Key(f, Candidates[i])].state # "undecodable"
  BY <1>2 DEF Stops, Cache!Load, Cache!Poisoned
<1>4. QED BY <1>3 DEF Missing, Signatures

\* One entry decides.
LEMMA OneDecides == ASSUME NEW f, NEW k \in Deciding(f) PROVE Known(f) = Cache!Load(k)
<1>1. Deciding(f) = {Key(f, Candidates[i]) : i \in {i \in Stops(f) : \A l \in Stops(f) : i <= l}}
  BY DEF Deciding, Stops
<1>2. Stops(f) \in SUBSET Nat
  BY ClassificationConstants DEF Stops
<1>3. PICK i \in Stops(f) : k = Key(f, Candidates[i]) /\ \A l \in Stops(f) : i <= l
  BY <1>1
<1>4. ASSUME NEW n \in Deciding(f) PROVE n = k
  <2>1. PICK m \in Stops(f) : n = Key(f, Candidates[m]) /\ \A l \in Stops(f) : m <= l
    BY <1>1
  <2>2. m = i
    BY <1>2, <1>3, <2>1
  <2>3. QED BY <1>3, <2>1, <2>2
<1>5. Deciding(f) = {k}
  BY <1>4
<1>6. QED BY <1>5 DEF Known

\* Nothing was known, and an answer is saved: it is known.
LEMMA LearnedKnown ==
    ASSUME NEW f, Missing(f), NEW s \in Signatures, NEW p, UNCHANGED uploaded,
           DOMAIN entry = CacheKeys, NEW text, text.payload = {p},
           \A u \in Signatures : Key(f, u) \in CacheKeys,
           entry' = [entry EXCEPT ![Key(f, s)] = text]
    PROVE  Known(f)' = {p}
<1>1. \A u : Key(f, u)' = Key(f, u) /\ (Key(f, u) = Key(f, s) => u = s)
  BY DEF Key, uploaded
<1>2. \A u \in Signatures : entry'[Key(f, u)] = IF u = s THEN text ELSE entry[Key(f, u)]
  BY <1>1
<1>3. ASSUME NEW i \in DOMAIN Candidates PROVE i \in Stops(f)' <=> Candidates[i] = s
  <2>1. Candidates[i] \in Signatures
    BY DEF Signatures
  <2>2. QED BY <1>1, <1>2, <2>1 DEF Stops, Missing, Cache!Load, Cache!Poisoned
<1>4. PICK i \in Stops(f)' : \A l \in Stops(f)' : i <= l
  <2>1. Stops(f)' \in SUBSET Nat
    BY ClassificationConstants DEF Stops
  <2>2. PICK i \in DOMAIN Candidates : Candidates[i] = s
    BY DEF Signatures
  <2>3. Stops(f)' # {}
    BY <1>3, <2>2
  <2>4. QED BY <2>1, <2>3, LeastNat
<1>5. Deciding(f)' = {Key(f, Candidates[m])' : m \in {m \in Stops(f)' : \A l \in Stops(f)' : m <= l}}
  BY DEF Deciding, Stops
<1>6. Stops(f)' \subseteq DOMAIN Candidates
  BY DEF Stops
<1>7. Deciding(f)' = {Key(f, s)}
  BY <1>1, <1>3, <1>4, <1>5, <1>6
<1>8. Known(f)' = entry'[Key(f, s)].payload
  BY <1>7 DEF Known, Cache!Load
<1>9. QED BY <1>2, <1>8

\* What is known of a file depends on the entries under its own keys.
LEMMA KnownStays ==
    ASSUME NEW f, UNCHANGED uploaded, \A s \in Signatures : entry'[Key(f, s)] = entry[Key(f, s)]
    PROVE  Known(f)' = Known(f) /\ (Missing(f)' <=> Missing(f))
<1>1. \A s : Key(f, s)' = Key(f, s)
  BY DEF Key, uploaded
<1>2. \A i \in DOMAIN Candidates : Candidates[i] \in Signatures
  BY DEF Signatures
<1>3. Missing(f)' <=> Missing(f)
  BY <1>1 DEF Missing
<1>4. Stops(f)' = Stops(f)
  BY <1>1, <1>2 DEF Stops, Cache!Load, Cache!Poisoned
<1>5. Deciding(f)' = {Key(f, Candidates[m])' : m \in {m \in Stops(f)' : \A l \in Stops(f)' : m <= l}}
  BY DEF Deciding, Stops
<1>6. Deciding(f) = {Key(f, Candidates[m]) : m \in {m \in Stops(f) : \A l \in Stops(f) : m <= l}}
  BY DEF Deciding, Stops
<1>7. Deciding(f)' = Deciding(f)
  BY <1>1, <1>4, <1>5, <1>6
<1>8. \A k \in Deciding(f) : entry'[k] = entry[k]
  BY <1>2, <1>6 DEF Stops
<1>9. Known(f)' = UNION {entry'[k].payload : k \in Deciding(f)}
  BY <1>7 DEF Known, Cache!Load
<1>10. Known(f) = UNION {entry[k].payload : k \in Deciding(f)}
  BY DEF Known, Cache!Load
<1>11. QED BY <1>3, <1>8, <1>9, <1>10

LEMMA OwnStays == ASSUME UNCHANGED uploaded, Alone' <=> Alone PROVE \A f : Own(f)' <=> Own(f)
<1>1. UNCHANGED <<records, request>>
  BY DEF uploaded
<1>2. QED BY <1>1 DEF Own, OnlyOne, NameTells

\* A file of its own has keys of its own.
LEMMA OwnKeys ==
    ASSUME IntakeInv, NEW f, Own(f)
    PROVE  /\ upload = "done" /\ f \in Files
           /\ \A s \in Signatures : Key(f, s) \in CacheKeys
           /\ \A g \in Files \ {f} : \A s, u : Key(f, s) # Key(g, u)
<1>1. upload = "done"
  BY DEF IntakeInv, Own
<1>2. records = [i \in DOMAIN request |-> FileRecord(request[i])]
  BY <1>1 DEF IntakeInv
<1>3. f \in Files
  BY <1>2 DEF Own, Files
<1>4. \A g \in Files : records[g].name = BaseName[request[g].name]
  BY <1>2 DEF Files, FileRecord
<1>5. \A g \in Files \ {f} : records[g].name # records[f].name
  BY <1>3, <1>4 DEF Own, OnlyOne, Files
<1>6. records[f].name \in Names /\ storage[records[f].key] \in Bytes
  BY <1>1, <1>3, FileType
<1>7. QED BY <1>1, <1>3, <1>5, <1>6 DEF Key, CacheKeys

\* The same two facts as formulas, to have them of the next state too.
KeyFacts ==
    /\ \A f : Missing(f) => Known(f) = {}
    /\ IntakeInv => \A f : Own(f) => f \in Files /\ \A s \in Signatures : Key(f, s) \in CacheKeys

LEMMA KeysKnown == KeyFacts
<1>1. ASSUME IntakeInv, NEW f, Own(f)
      PROVE  f \in Files /\ \A s \in Signatures : Key(f, s) \in CacheKeys
  BY <1>1, OwnKeys
<1>2. QED BY <1>1, MissingUnknown DEF KeyFacts

\* What the other coroutines of the job know is not touched.
LEMMA BookMove ==
    ASSUME AllInv, NEW j \in Jobs, UNCHANGED uploaded, Alone,
           SavesInv', CalmInv',
           job[j].pc # "idle" \/ \A i \in Jobs : job[i].pc = "idle",
           \A i \in Jobs \ {j} : job'[i] = job[i],
           job'[j].pc # "idle" => BookOf(j)',
           upload = "done"
    PROVE  BookInv'
<1>1. upload' = "done"
  BY DEF uploaded
<1>2. ASSUME NEW i \in Jobs, job'[i].pc = "idle" PROVE BookOf(i)'
  <2>1. SavesOf(i)'
    BY DEF SavesInv
  <2>2. \A f \in Files' : task'[i][f].pc = "none"
    BY <1>2, <2>1, NoTaskType DEF SavesOf
  <2>3. writer'[i].link = "closed"
    BY <2>1, <2>2 DEF SavesOf
  <2>4. QED BY <1>2, <2>2, <2>3 DEF BookOf
<1>3. ASSUME NEW i \in Jobs \ {j} PROVE job'[i].pc = "idle"
  BY DEF AllInv, CalmInv
<1>4. \A i \in Jobs : BookOf(i)'
  BY <1>2, <1>3
<1>5. QED BY <1>1, <1>4 DEF BookInv

\* The file of a coroutine that saves, in a job that is alone.
LEMMA Saving ==
    ASSUME AllInv, Alone, NEW j \in Jobs, NEW f \in Files, Saved(j, f), Own(f)
    PROVE  \E s \in Signatures, p \in Answers :
             /\ entry' = [entry EXCEPT ![Key(f, s)] = temp[Key(f, s)]]
             /\ temp[Key(f, s)].payload = {p} /\ task[j][f].payload = {p}
             /\ Missing(f) /\ Known(f) = {} /\ Known(f)' = {p}
<1>1. task[j][f].pc = "save" /\ writer[j].written /\ UNCHANGED uploaded
  BY DEF Saved, Cache!Rename
<1>2. SavesOf(j)
  BY DEF AllInv, TypeInv, SavesInv
<1>3. PICK s \in Signatures : writer[j].key = {Key(f, s)}
  BY <1>1, <1>2 DEF SavesOf
<1>4. entry' = [entry EXCEPT ![Key(f, s)] = temp[Key(f, s)]]
  BY <1>3 DEF Saved, Cache!Rename
<1>5. writer[j].link = "temp"
  <2>1. writer[j].link # "closed"
    BY <1>1, <1>2 DEF SavesOf
  <2>2. QED BY <2>1 DEF AllInv, CalmInv, JobCalm, Calm
<1>6. temp[Key(f, s)].payload = writer[j].payload /\ writer[j].payload = task[j][f].payload
  BY <1>1, <1>2, <1>3, <1>5 DEF AllInv, BookInv, BookOf, SavesOf
<1>7. PICK p \in Answers : writer[j].payload = {p}
  <2>1. writer[j].payload \in AtMostOne(Answers)
    BY DEF AllInv, TypeInv, CacheTypes
  <2>2. writer[j].payload # {}
    BY <1>1, <1>6 DEF AllInv, IInv, FilesInv
  <2>3. QED BY <2>1, <2>2 DEF AtMostOne
<1>8. Missing(f)
  BY <1>1 DEF AllInv, BookInv, BookOf
<1>9. DOMAIN entry = CacheKeys /\ \A u \in Signatures : Key(f, u) \in CacheKeys
  BY OwnKeys DEF AllInv, IInv, CacheInv
<1>10. Known(f)' = {p}
  <2> DEFINE text == temp[Key(f, s)]
  <2>1. text.payload = {p} /\ entry' = [entry EXCEPT ![Key(f, s)] = text]
    BY <1>4, <1>6, <1>7
  <2> HIDE DEF text
  <2>2. QED BY <1>1, <1>8, <1>9, <2>1, LearnedKnown
<1>11. QED BY <1>4, <1>6, <1>7, <1>8, <1>10, MissingUnknown

\* A save of another file leaves the entries of a file of its own.
LEMMA SavedOther ==
    ASSUME AllInv, NEW j \in Jobs, NEW g \in Files, Saved(j, g), NEW f, f # g, Own(f)
    PROVE  Known(f)' = Known(f) /\ (Missing(f)' <=> Missing(f))
<1>1. task[j][g].pc = "save" /\ UNCHANGED uploaded
  BY DEF Saved
<1>2. PICK u \in Signatures : writer[j].key = {Key(g, u)}
  BY <1>1 DEF AllInv, TypeInv, SavesInv, SavesOf
<1>3. entry' = [entry EXCEPT ![Key(g, u)] = temp[Key(g, u)]]
  BY <1>2 DEF Saved, Cache!Rename
<1>4. \A s \in Signatures : Key(g, u) # Key(f, s)
  BY OwnKeys DEF AllInv, IInv
<1>5. \A s \in Signatures : entry'[Key(f, s)] = entry[Key(f, s)]
  BY <1>3, <1>4
<1>6. QED BY <1>1, <1>5, KnownStays

LEMMA BookStep ==
    ASSUME AllInv, Alone, NEW j \in Jobs, NEW f \in Files, Step(j, f), SavesInv', CalmInv'
    PROVE  BookInv'
<1>0. task \in [Jobs -> [Files -> Task]] /\ writer \in [Jobs -> Save] /\ job \in [Jobs -> JobState]
      /\ JobTypes /\ IInv /\ BookOf(j)
  BY DEF AllInv, IInv, FilesInv, CacheInv, TypeInv, JobTypes, BookInv
<1>1. /\ task[j][f].pc # "none" /\ UNCHANGED <<uploaded, row, started>> /\ upload = "done"
      /\ UNCHANGED job \/ job' = [job EXCEPT ![j].pc = "failed"]
  BY <1>0, StepShape
<1>2. job[j].pc # "idle"
  BY <1>1, NoTaskType DEF AllInv, TypeInv, SavesInv, SavesOf
<1>3. /\ job'[j].pc = "running" => job'[j].loaded = row'
      /\ \A i \in Jobs \ {j} : job'[i] = job[i]
  <2>1. CASE UNCHANGED job
    BY <1>0, <1>1, <2>1 DEF BookOf
  <2>2. CASE job' = [job EXCEPT ![j].pc = "failed"]
    <3>1. job[j] \in [pc : {"running", "failed"}, loaded : [Files -> Row]]
      BY <1>0, <1>2 DEF JobState, NoJob
    <3>2. job'[j].pc = "failed" /\ \A i \in Jobs \ {j} : job'[i] = job[i]
      BY <1>0, <2>2, <3>1
    <3>3. QED BY <3>2
  <2>3. QED BY <1>1, <2>1, <2>2
<1>4. Files' = Files /\ (\A g : Own(g)' <=> Own(g))
      /\ \A g \in Files \ {f} : task'[j][g] = task[j][g]
  <2>1. PICK t \in Task : Become(j, f, t)
    BY <1>0, StepShape
  <2>2. \A g \in Files \ {f} : task'[j][g] = task[j][g]
    BY <1>0, <2>1 DEF Become
  <2>3. Alone' <=> Alone
    BY <1>1 DEF started, Alone
  <2>4. QED BY <1>1, <2>2, <2>3, OwnStays DEF Files, uploaded
<1>5. ASSUME entry' = entry
      PROVE  \A g : Known(g)' = Known(g) /\ (Missing(g)' <=> Missing(g))
  BY <1>1, <1>5, KnownStays
<1>6. ASSUME \A g \in Files \ {f} : Own(g) => Known(g)' = Known(g) /\ (Missing(g)' <=> Missing(g)),
             writer'[j].link = "temp" /\ writer'[j].written =>
               \A k \in writer'[j].key : temp'[k].payload = writer'[j].payload,
             Own(f) =>
                /\ task'[j][f].pc \in {"wait", "call", "save"} => Missing(f)'
                /\ task'[j][f].pc = "done" =>
                     \/ task'[j][f].payload = Known(f)'
                     \/ Missing(f)' /\ \A p \in task'[j][f].payload : p.how = "error"
      PROVE  BookInv'
  <2>1. ASSUME NEW g \in Files, Own(g)
        PROVE  /\ task'[j][g].pc \in {"wait", "call", "save"} => Missing(g)'
               /\ task'[j][g].pc = "done" =>
                    \/ task'[j][g].payload = Known(g)'
                    \/ Missing(g)' /\ \A p \in task'[j][g].payload : p.how = "error"
    <3>1. CASE g = f
      BY <1>6, <2>1, <3>1
    <3>2. CASE g # f
      BY <1>0, <1>4, <1>6, <2>1, <3>2 DEF BookOf
    <3>3. QED BY <3>1, <3>2
  <2>2. BookOf(j)'
    BY <1>3, <1>4, <1>6, <2>1 DEF BookOf
  <2>3. QED BY <1>1, <1>2, <1>3, <2>2, BookMove
<1>7. CASE ByName(j, f)
  <2>1. UNCHANGED <<entry, temp, writer>> /\ ~Own(f)
    BY <1>7 DEF ByName, cached, Own
  <2>2. QED BY <1>0, <1>5, <1>6, <2>1 DEF BookOf
<1>8. CASE Lookup(j, f)
  <2>1. UNCHANGED <<entry, temp, writer>>
    BY <1>8 DEF Lookup, cached
  <2>2. CASE Deciding(f) = {} /\ Become(j, f, [task[j][f] EXCEPT !.pc = "wait"])
    <3>1. task'[j][f].pc = "wait" /\ Missing(f)'
      BY <1>0, <1>5, <2>1, <2>2, UndecidedMissing DEF Become, Task
    <3>2. QED BY <1>0, <1>5, <1>6, <2>1, <3>1 DEF BookOf
  <2>3. CASE \E k \in Deciding(f), p \in Answers : p \in Cache!Load(k) /\ Return(j, f, p, TRUE)
    <3>1. PICK k \in Deciding(f), p \in Answers : p \in Cache!Load(k) /\ Return(j, f, p, TRUE)
      BY <2>3
    <3>2. task'[j][f].pc = "done" /\ task'[j][f].payload = {p}
      BY <1>0, <3>1 DEF Return, Become
    <3>3. ASSUME Own(f) PROVE Known(f) = {p}
      <4>1. Known(f) = entry[k].payload
        BY OneDecides DEF Cache!Load
      <4>2. k \in CacheKeys
        BY <1>0, <3>3, OwnKeys DEF Deciding, Signatures, IInv
      <4>3. entry[k].payload \in AtMostOne(Answers)
        BY <4>2 DEF AllInv, TypeInv, CacheTypes, Text
      <4>4. p \in entry[k].payload
        BY <3>1 DEF Cache!Load
      <4>5. QED BY <4>1, <4>3, <4>4 DEF AtMostOne
    <3>4. QED BY <1>0, <1>5, <1>6, <2>1, <3>2, <3>3 DEF BookOf
  <2>4. CASE Raises(j, f)
    <3>1. task'[j][f].pc = "none"
      BY <1>0, <2>4, NoTaskType DEF Raises, Become
    <3>2. QED BY <1>0, <1>5, <1>6, <2>1, <3>1 DEF BookOf
  <2>5. QED BY <1>8, <2>2, <2>3, <2>4 DEF Lookup
<1>9. CASE Acquire(j, f)
  <2>1. UNCHANGED <<entry, temp, writer>> /\ task[j][f].pc = "wait" /\ task'[j][f].pc = "call"
    BY <1>0, <1>9 DEF Acquire, Resumed, cached, Become, Task
  <2>2. QED BY <1>0, <1>5, <1>6, <2>1 DEF BookOf
<1>10. CASE Answered(j, f)
  <2>1. task[j][f].pc = "call" /\ entry' = entry /\ ~writer'[j].written /\ task'[j][f].pc = "save"
    <3>1. PICK k, p : /\ Become(j, f, [pc |-> "save", payload |-> {p}, hit |-> FALSE])
                      /\ Cache!OpenTemp(j, k, p)
      BY <1>10 DEF Answered
    <3>2. QED BY <1>0, <1>10, <3>1 DEF Answered, Resumed, Cache!OpenTemp, Become
  <2>2. QED BY <1>0, <1>5, <1>6, <2>1 DEF BookOf
<1>11. CASE Saved(j, f)
  <2>1. \A g \in Files \ {f} : Own(g) => Known(g)' = Known(g) /\ (Missing(g)' <=> Missing(g))
    BY <1>11, SavedOther
  <2>2. writer'[j].link = "closed"
    BY <1>11 DEF Saved, Cache!Rename, Cache!NotSaving
  <2>3. task'[j][f].pc = "done" /\ task'[j][f].payload = task[j][f].payload
    BY <1>0, <1>11 DEF Saved, Become, Task
  <2>4. Own(f) => task'[j][f].payload = Known(f)'
    BY <1>11, <2>3, Saving
  <2>5. QED BY <1>6, <2>1, <2>2, <2>3, <2>4
<1>12. CASE SaveFails(j, f) \/ Raise(j, f)
  <2>1. entry' = entry /\ temp' = temp /\ (writer' = writer \/ writer'[j].link = "closed")
        /\ task'[j][f].pc = "none"
    BY <1>0, <1>12, NoTaskType DEF SaveFails, Raise, Raises, Become, Cache!Abandon, Cache!NotSaving, cached
  <2>2. QED BY <1>0, <1>5, <1>6, <2>1 DEF BookOf
<1>13. CASE Failed(j, f)
  <2>1. UNCHANGED <<entry, temp, writer>> /\ task[j][f].pc = "call"
        /\ task'[j][f] = [pc |-> "done", payload |-> {ErrorPayload(f)}, hit |-> FALSE]
    BY <1>0, <1>13 DEF Failed, Resumed, cached, Return, Become
  <2>2. ErrorPayload(f).how = "error"
    BY DEF ErrorPayload, Payload
  <2>3. Own(f) => Missing(f)' /\ \A p \in task'[j][f].payload : p.how = "error"
    BY <1>0, <1>5, <2>1, <2>2 DEF BookOf
  <2>4. QED BY <1>0, <1>5, <1>6, <2>1, <2>3 DEF BookOf
<1>14. QED BY <1>7, <1>8, <1>9, <1>10, <1>11, <1>12, <1>13 DEF Step

\* Before the upload is committed nothing is saved, so the cache is empty.
LEMMA EntriesEmpty ==
    ASSUME AllInv, [Next]_vars, upload' # "done"
    PROVE  \A k \in CacheKeys : entry'[k] = Cache!NoText
<1>0. upload # "done"
  BY UploadOnly DEF AllInv, TypeInv, uploaded
<1>1. \A j \in Jobs : /\ writer[j].link = "closed"
                      /\ \A f \in Files : task[j][f].pc = "none"
  BY <1>0, NoTaskType DEF AllInv, IInv, FilesInv, TypeInv, SavesInv, SavesOf
<1>2. entry' = entry
  <2>1. CASE Upload \/ UNCHANGED vars
    BY <2>1 DEF Upload, vars, cached
  <2>2. ASSUME NEW j \in Jobs, Start(j) \/ Commit(j) \/ Stop(j) \/ Write(j) PROVE entry' = entry
    BY <1>1, <2>2 DEF Start, Commit, Stop, Write, Cache!WriteText, cached
  <2>3. ASSUME NEW j \in Jobs, NEW f \in Files, Step(j, f) PROVE entry' = entry
    BY <1>0, <2>3, StepShape DEF AllInv, TypeInv
  <2>4. QED BY <2>1, <2>2, <2>3 DEF Next
<1>3. QED BY <1>0, <1>2 DEF AllInv, BookInv

LEMMA BookKept ==
    ASSUME AllInv, [Next]_vars, SavesInv', CalmInv'
    PROVE  BookInv'
<1>1. upload' # "done" => \A k \in CacheKeys : entry'[k] = Cache!NoText
  BY EntriesEmpty
<1>2. Alone' => Alone
  BY UploadOnly DEF AllInv, TypeInv
<1>3. CASE ~Alone'
  BY <1>1, <1>3 DEF BookInv
<1>4. CASE Alone /\ Alone'
  <2>0. /\ task \in [Jobs -> [Files -> Task]] /\ writer \in [Jobs -> Save]
        /\ job \in [Jobs -> JobState] /\ IInv
        /\ \A j \in Jobs : BookOf(j) /\ SavesOf(j) /\ JobCalm(j)
    BY <1>4 DEF AllInv, IInv, FilesInv, CacheInv, TypeInv, JobTypes, BookInv, SavesInv, CalmInv, Calm
  <2>1. CASE Upload
    <3>1. UNCHANGED <<cached, row, job, task>> /\ upload # "done" /\ UNCHANGED request
      BY <2>1 DEF Upload, IntakeNext, CreateBatch, Reject, Accept, Store, AddRecords, UploadFails
    <3>2. \A j \in Jobs, f \in Files : task[j][f].pc = "none"
      BY <2>0, <3>1, NoTaskType DEF IInv, FilesInv
    <3>3. \A j \in Jobs : writer[j].link = "closed"
      BY <2>0, <3>2 DEF SavesOf
    <3>4. \A j \in Jobs : BookOf(j)'
      BY <2>0, <3>1, <3>2, <3>3 DEF BookOf, Files, cached
    <3>5. QED BY <1>1, <3>4 DEF BookInv
  <2>2. CASE UNCHANGED vars
    <3>1. UNCHANGED uploaded /\ UNCHANGED <<entry, temp, writer, row, job, task>>
      BY <2>2 DEF vars, uploaded
    <3>2. Files' = Files /\ \A f : (Own(f)' <=> Own(f)) /\ Known(f)' = Known(f) /\ (Missing(f)' <=> Missing(f))
      BY <1>4, <3>1, OwnStays, KnownStays DEF Files, uploaded
    <3>3. \A j \in Jobs : BookOf(j)'
      BY <2>0, <3>1, <3>2 DEF BookOf
    <3>4. QED BY <1>1, <3>3 DEF BookInv
  <2>3. ASSUME NEW j \in Jobs, Start(j) PROVE BookInv'
    <3>1. /\ upload = "done" /\ UNCHANGED uploaded /\ row' = row /\ writer' = writer
          /\ job' = [job EXCEPT ![j] = [pc |-> "running", loaded |-> row]] /\ job[j].pc = "idle"
          /\ task' = [task EXCEPT ![j] = [f \in Files |-> [NoTask EXCEPT !.pc = "start"]]]
      BY <2>3 DEF Start, cached
    <3>2. /\ job'[j] = [pc |-> "running", loaded |-> row] /\ Files' = Files
          /\ \A i \in Jobs \ {j} : job'[i] = job[i]
          /\ \A f \in Files : task'[j][f] = [NoTask EXCEPT !.pc = "start"]
      BY <2>0, <3>1 DEF uploaded, Files
    <3>3. \A f \in Files : task'[j][f].pc = "start"
      BY <3>2 DEF NoTask
    <3>4. writer'[j].link = "closed"
      BY <2>0, <3>1 DEF JobCalm
    <3>5. BookOf(j)'
      BY <3>1, <3>2, <3>3, <3>4 DEF BookOf
    <3>6. \A i \in Jobs : job[i].pc = "idle"
      BY <1>4, <2>3, StartAlone DEF AllInv, CalmInv
    <3>7. QED BY <1>4, <3>1, <3>2, <3>5, <3>6, BookMove
  <2>4. ASSUME NEW j \in Jobs, Commit(j) \/ Stop(j) PROVE BookInv'
    <3>1. /\ UNCHANGED uploaded /\ job' = [job EXCEPT ![j] = NoJob] /\ job[j].pc # "idle"
      BY <2>4 DEF Commit, Stop
    <3>2. job'[j].pc = "idle" /\ \A i \in Jobs \ {j} : job'[i] = job[i]
      BY <2>0, <3>1 DEF NoJob
    <3>3. CASE upload = "done"
      BY <1>4, <3>1, <3>2, <3>3, BookMove
    <3>4. CASE upload # "done"
      <4>1. \A i \in Jobs, f \in Files : task[i][f].pc = "none"
        BY <2>0, <3>4, NoTaskType DEF IInv, FilesInv
      <4>2. Files' = Files /\ \A i \in Jobs, f \in Files : task'[i][f].pc = "none"
        <5>1. task' = [task EXCEPT ![j] = [f \in Files |-> NoTask]]
          BY <2>4 DEF Commit, Stop
        <5>2. Files' = Files
          BY <3>1 DEF uploaded, Files
        <5>3. \A i \in Jobs, f \in Files : task'[i][f] = task[i][f] \/ task'[i][f] = NoTask
          BY <2>0, <5>1
        <5>4. QED BY <4>1, <5>2, <5>3, NoTaskType
      <4>3. \A i \in Jobs : writer'[i].link = "closed"
        BY <4>2 DEF SavesInv, SavesOf
      <4>4. \A i \in Jobs : job'[i].pc = "idle"
        BY <1>4, <3>1, <3>2 DEF AllInv, CalmInv
      <4>5. \A i \in Jobs : BookOf(i)'
        BY <4>2, <4>3, <4>4 DEF BookOf
      <4>6. QED BY <1>1, <4>5 DEF BookInv
    <3>5. QED BY <3>3, <3>4
  <2>5. ASSUME NEW j \in Jobs, Write(j) PROVE BookInv'
    <3>1. /\ UNCHANGED <<uploaded, job, task, row>> /\ writer' = [writer EXCEPT ![j].written = TRUE]
          /\ writer[j].link # "closed" /\ ~writer[j].written
      BY <2>5 DEF Write, Cache!WriteText
    <3>2. /\ writer[j].link = "temp" /\ \A k \in writer[j].key : temp[k] = Cache!Empty
          /\ job[j].pc # "idle"
      BY <2>0, <3>1 DEF JobCalm
    <3>3. PICK k \in writer[j].key, p \in writer[j].payload :
            /\ \E t \in Cache!Overwritten(temp[k], p) : temp' = [temp EXCEPT ![k] = t]
            /\ UNCHANGED entry
      BY <2>5, <3>2 DEF Write, Cache!WriteText
    <3>4. k \in CacheKeys /\ p \in Answers /\ \A l \in writer[j].key : l = k
      BY <2>0, <3>1, <3>3 DEF Save, JobCalm
    <3>5. Cache!Overwritten(Cache!Empty, p) = {Cache!Whole(p)}
      <4>1. p.type \in ModelTypes
        BY <3>4 DEF Answers, Payload
      <4>2. Length[p.type] \in Nat \ {0}
        BY <4>1, ClassificationConstants
      <4>3. Cache!Empty.size = 0
        BY DEF Cache!Empty
      <4>4. QED BY <3>4, <4>2, <4>3 DEF Cache!Overwritten
    <3>6. temp'[k].payload = {p}
      <4>1. DOMAIN temp = CacheKeys
        BY <2>0 DEF IInv, CacheInv
      <4>2. temp[k] = Cache!Empty
        BY <3>2
      <4>3. temp' = [temp EXCEPT ![k] = Cache!Whole(p)]
        BY <3>3, <3>5, <4>2
      <4>4. temp'[k] = Cache!Whole(p)
        BY <3>4, <4>1, <4>3
      <4>5. QED BY <4>4 DEF Cache!Whole
    <3>7. writer[j].payload = {p}
      <4>1. writer[j].payload \in AtMostOne(Answers)
        BY DEF AllInv, TypeInv, CacheTypes
      <4>2. QED BY <3>3, <4>1 DEF AtMostOne
    <3>8. writer'[j].key = writer[j].key /\ writer'[j].payload = writer[j].payload
      BY <2>0, <3>1 DEF Save
    <3>9. Files' = Files /\ \A f : (Own(f)' <=> Own(f)) /\ Known(f)' = Known(f) /\ (Missing(f)' <=> Missing(f))
      BY <1>4, <3>1, <3>3, OwnStays, KnownStays DEF Files, uploaded
    <3>10. BookOf(j)
      BY <2>0
    <3>11. \A f \in Files : Own(f)' =>
             /\ task'[j][f].pc \in {"wait", "call", "save"} => Missing(f)'
             /\ task'[j][f].pc = "done" =>
                  \/ task'[j][f].payload = Known(f)'
                  \/ Missing(f)' /\ \A q \in task'[j][f].payload : q.how = "error"
      BY <3>1, <3>9, <3>10 DEF BookOf
    <3>12. BookOf(j)'
      BY <3>1, <3>4, <3>6, <3>7, <3>8, <3>9, <3>10, <3>11 DEF BookOf
    <3>13. upload = "done"
      <4>1. PICK f \in Files : task[j][f].pc = "save"
        BY <2>0, <3>1 DEF SavesOf
      <4>2. QED BY <2>0, <4>1, NoTaskType DEF IInv, FilesInv
    <3>14. QED BY <1>4, <3>1, <3>2, <3>12, <3>13, BookMove
  <2>6. QED BY <1>4, <2>1, <2>2, <2>3, <2>4, <2>5, BookStep DEF Next
<1>5. QED BY <1>2, <1>3, <1>4

LEMMA AllAlways == Spec => []AllInv
<1>1. Init => BookInv
  <2> SUFFICES ASSUME Init PROVE BookInv
    OBVIOUS
  <2>1. /\ job = [j \in Jobs |-> NoJob] /\ task = [j \in Jobs |-> [f \in Files |-> NoTask]]
        /\ writer = [w \in Jobs |-> Cache!NotSaving]
        /\ entry = [k \in CacheKeys |-> Cache!NoText]
    BY DEF Init, Cache!CacheInit, CacheKeys
  <2>2. \A j \in Jobs : BookOf(j)
    BY <2>1, NoTaskType DEF BookOf, NoJob, Cache!NotSaving
  <2>3. QED BY <2>1, <2>2 DEF BookInv
<1>2. AllInv /\ [Next]_vars /\ IInv' /\ TypeInv' /\ CalmInv' => AllInv'
  BY BookKept DEF AllInv, TypeInv
<1>3. Spec => []CalmInv
  BY CalmStarts, CalmKept, Inductive, PTL DEF Spec
<1>4. IInv /\ TypeInv /\ CalmInv /\ BookInv => AllInv
  BY DEF AllInv
<1>5. AllInv => IInv /\ TypeInv /\ CalmInv /\ BookInv
  BY DEF AllInv
<1>6. QED BY <1>1, <1>2, <1>3, <1>4, <1>5, Inductive, TypesAlways, PTL DEF Spec

-----------------------------------------------------------------------------
(* The refinement *)

BookFiles == 1..MaxFiles
KnownOf == [f \in BookFiles |-> IF Own(f) THEN Known(f) ELSE {}]
ShownOf == [f \in BookFiles |-> IF Own(f) THEN Shown(f) ELSE {}]

\* A row that quotes nothing shows nothing.
LEMMA ShownEmpty == ASSUME NEW f, row[f].evidence = {} PROVE Shown(f) = {}
  BY DEF Shown

LEMMA ShownStays ==
    ASSUME NEW f, UNCHANGED uploaded, row'[f] = row[f]
    PROVE  Shown(f)' = Shown(f)
<1>1. records' = records
  BY DEF uploaded
<1>2. \A type : StoredType(records[f].name, type)' = StoredType(records[f].name, type)
  BY <1>1 DEF StoredType
<1>3. QED BY <1>1 DEF Shown, StoredType, Outcome, Payload

\* Before the upload is committed there is nothing to know.
LEMMA Unwritten == ASSUME IInv, upload # "done" PROVE \A f : ~Own(f)
  BY DEF IInv, IntakeInv, Own

\* A job commits for every file what is known of it, or that asking failed.
LEMMA CommitShows ==
    ASSUME AllInv, Alone, NEW j \in Jobs, Commit(j), NEW f \in Files, Own(f)
    PROVE  Shown(f)' = IF Known(f) = {} THEN {Outcome("error")} ELSE Known(f)
<1>1. /\ job[j].pc = "running" /\ task[j][f].pc = "done" /\ row'[f] = Updated(j, f) /\ UNCHANGED uploaded
  BY DEF Commit
<1>2. /\ job[j].loaded = row
      /\ \/ task[j][f].payload = Known(f)
         \/ Missing(f) /\ \A p \in task[j][f].payload : p.how = "error"
  BY <1>1 DEF AllInv, BookInv, BookOf
<1>3. NewRow(j, f) \in Row /\ row[f] \in Row
  BY <1>1, NewRowType DEF AllInv, TypeInv, JobTypes
<1>4. row'[f].evidence = NewRow(j, f).evidence /\ row'[f].type = NewRow(j, f).type
  BY <1>1, <1>2, <1>3 DEF Updated
<1>5. PICK p \in AnyPayload : task[j][f].payload = {p}
  BY <1>1 DEF AllInv, TypeInv, JobTypes, TaskTyped, AtMostOne
<1>6. row'[f].evidence = {p} /\ row'[f].type = StoredType(records[f].name, p.type)
  BY <1>1, <1>4, <1>5, NewRowType DEF AllInv, TypeInv
<1>7. StoredType(records[f].name, p.type)' = StoredType(records[f].name, p.type)
  BY <1>1 DEF StoredType, uploaded
<1>8. Shown(f)' = {IF p.how = "error" THEN Outcome("error") ELSE p}
  BY <1>1, <1>6, <1>7 DEF Shown, Outcome, Payload, StoredType, uploaded
<1>9. CASE task[j][f].payload = Known(f)
  <2>1. p.how # "error"
    <3>1. PICK k \in Deciding(f) : p \in Cache!Load(k)
      BY <1>5, <1>9 DEF Known
    <3>2. k \in CacheKeys
      BY OwnKeys DEF Deciding, Signatures, AllInv, IInv
    <3>3. p \in Answers
      BY <3>1, <3>2 DEF AllInv, TypeInv, CacheTypes, Text, AtMostOne, Cache!Load
    <3>4. QED BY <3>3 DEF Answers, Payload
  <2>2. QED BY <1>5, <1>8, <1>9, <2>1
<1>10. CASE Missing(f) /\ \A q \in task[j][f].payload : q.how = "error"
  BY <1>5, <1>8, <1>10, MissingUnknown
<1>11. QED BY <1>2, <1>9, <1>10

LEMMA BookRefined ==
    ASSUME AllInv, [Next]_vars
    PROVE  [Book!Next]_<<KnownOf, ShownOf, Alone>>
<1>0. BookFiles' = BookFiles
  BY DEF BookFiles, MaxFiles
<1>1. ASSUME \A f \in BookFiles : /\ Own(f)' <=> Own(f)
                                  /\ Own(f) => Known(f)' = Known(f) /\ Shown(f)' = Shown(f)
      PROVE  UNCHANGED <<KnownOf, ShownOf>>
  BY <1>0, <1>1 DEF KnownOf, ShownOf
<1>2. Alone' => Alone
  BY UploadOnly DEF AllInv, TypeInv
<1>3. CASE ~Alone'
  BY <1>3 DEF Book!Lapse, Book!Next
<1> SUFFICES ASSUME Alone, Alone' PROVE [Book!Next]_<<KnownOf, ShownOf, Alone>>
  BY <1>2, <1>3
<1>13. Alone' = Alone
  BY DEF Alone
<1>4. ASSUME UNCHANGED <<uploaded, entry, row>> PROVE UNCHANGED <<KnownOf, ShownOf>>
  <2>1. \A f : (Own(f)' <=> Own(f)) /\ Known(f)' = Known(f) /\ Shown(f)' = Shown(f)
    BY <1>4, OwnStays, KnownStays, ShownStays
  <2>2. QED BY <1>1, <2>1
<1>5. CASE Upload
  <2>0. KeyFacts'
    BY KeysKnown, PTL
  <2>1. /\ UNCHANGED <<entry, row>> /\ upload # "done"
        /\ UNCHANGED request
    BY <1>5 DEF Upload, cached, IntakeNext, CreateBatch, Reject, Accept, Store, AddRecords, UploadFails
  <2>2. \A f : ~Own(f)
    BY <2>1, Unwritten DEF AllInv
  <2>3. ASSUME NEW f, Own(f)' PROVE Known(f)' = {} /\ Shown(f)' = {}
    <3>1. IInv'
      BY <1>5, UploadStep DEF AllInv
    <3>2. f \in Files' /\ \A s \in Signatures : Key(f, s)' \in CacheKeys
      BY <2>0, <2>3, <3>1 DEF IInv, KeyFacts
    <3>3. \A s \in Signatures : entry'[Key(f, s)'] = Cache!NoText
      BY <2>1, <3>2 DEF AllInv, BookInv
    <3>4. Missing(f)'
      BY <3>3 DEF Missing, Cache!NoText
    <3>5. Known(f)' = {}
      BY <2>0, <3>4 DEF KeyFacts
    <3>6. row'[f].evidence = {}
      BY <2>1, <3>2 DEF AllInv, IInv, FilesInv, Files
    <3>7. Shown(f)' = {}
      BY <3>6 DEF Shown
    <3>8. QED BY <3>5, <3>7
  <2>4. KnownOf = [f \in BookFiles |-> {}] /\ ShownOf = [f \in BookFiles |-> {}]
    BY <2>2 DEF KnownOf, ShownOf
  <2>5. KnownOf' = [f \in BookFiles |-> {}] /\ ShownOf' = [f \in BookFiles |-> {}]
    BY <1>0, <2>3 DEF KnownOf, ShownOf
  <2>6. QED BY <2>4, <2>5
<1>6. ASSUME NEW j \in Jobs, Start(j) \/ Stop(j) PROVE UNCHANGED <<KnownOf, ShownOf>>
  BY <1>4, <1>6 DEF Start, Stop, cached
<1>7. ASSUME NEW j \in Jobs, Write(j) PROVE UNCHANGED <<KnownOf, ShownOf>>
  <2>1. writer[j].link = "temp"
    BY <1>7 DEF Write, Cache!WriteText, AllInv, CalmInv, JobCalm, Calm
  <2>2. UNCHANGED <<uploaded, entry, row>>
    BY <1>7, <2>1 DEF Write, Cache!WriteText
  <2>3. QED BY <1>4, <2>2
<1>8. ASSUME NEW j \in Jobs, NEW f \in Files, Step(j, f), ~Saved(j, f)
      PROVE  UNCHANGED <<KnownOf, ShownOf>>
  BY <1>4, <1>8 DEF Step, ByName, Lookup, Acquire, Answered, SaveFails, Failed, Raise, cached, Cache!OpenTemp
<1>9. ASSUME NEW j \in Jobs, NEW f \in Files, Saved(j, f)
      PROVE  [Book!Next]_<<KnownOf, ShownOf, Alone>>
  <2>1. UNCHANGED <<uploaded, row>>
    BY <1>9 DEF Saved
  <2>2. \A g : (Own(g)' <=> Own(g)) /\ Shown(g)' = Shown(g)
    BY <2>1, OwnStays, ShownStays
  <2>3. \A g : g # f /\ Own(g) => Known(g)' = Known(g)
    BY <1>9, SavedOther
  <2>4. CASE ~Own(f) \/ f \notin BookFiles
    BY <1>1, <1>13, <2>2, <2>3, <2>4
  <2>5. CASE Own(f) /\ f \in BookFiles
    <3>1. PICK p \in Answers : Known(f) = {} /\ Known(f)' = {p}
      BY <1>9, <2>5, Saving
    <3>2. ShownOf' = ShownOf
      BY <1>0, <2>2 DEF ShownOf
    <3>3. KnownOf[f] = {} /\ KnownOf' = [KnownOf EXCEPT ![f] = {p}]
      BY <1>0, <2>2, <2>3, <2>5, <3>1 DEF KnownOf
    <3>4. Book!Learn
      BY <1>13, <2>5, <3>1, <3>2, <3>3 DEF Book!Learn, KnownOf, ShownOf, BookFiles
    <3>5. QED BY <3>4 DEF Book!Next
  <2>6. QED BY <2>4, <2>5
<1>10. ASSUME NEW j \in Jobs, Commit(j) PROVE [Book!Next]_<<KnownOf, ShownOf, Alone>>
  <2>1. UNCHANGED uploaded /\ entry' = entry
    BY <1>10 DEF Commit, cached
  <2>2. \A g : (Own(g)' <=> Own(g)) /\ Known(g)' = Known(g)
    BY <2>1, OwnStays, KnownStays
  <2>3. \A g : Own(g) => Shown(g)' = IF Known(g) = {} THEN {Outcome("error")} ELSE Known(g)
    BY <1>10, OwnKeys, CommitShows DEF AllInv, IInv
  <2> DEFINE S == {f \in BookFiles : Own(f)}
  <2>4. KnownOf' = KnownOf
    BY <1>0, <2>2 DEF KnownOf
  <2>5. ShownOf' = [f \in BookFiles |-> IF f \notin S THEN ShownOf[f]
                                        ELSE IF KnownOf[f] = {} THEN {Outcome("error")} ELSE KnownOf[f]]
    BY <1>0, <2>2, <2>3 DEF KnownOf, ShownOf
  <2>6. S \in SUBSET BookFiles
    OBVIOUS
  <2> HIDE DEF S
  <2>7. Book!Publish
    BY <1>13, <2>4, <2>5, <2>6 DEF Book!Publish, KnownOf, ShownOf, BookFiles
  <2>8. QED BY <2>7 DEF Book!Next
<1>11. CASE UNCHANGED vars
  BY <1>4, <1>11 DEF vars, uploaded
<1>12. QED BY <1>13, <1>5, <1>6, <1>7, <1>8, <1>9, <1>10, <1>11 DEF Next

\* No file of an upload is left out of the book, when uploads are of bounded length.
LEMMA BookHasAll ==
    ASSUME IInv, NEW b \in Nat, \A q \in Requests : Len(q) <= b
    PROVE  Files \subseteq BookFiles
<1>1. \A q \in Requests : Len(q) \in Nat
  BY RequestType
<1>2. request \in Requests /\ Files = 1..Len(request)
  BY RequestType DEF IInv, IntakeInv, Files
<1>3. Lengths \in SUBSET Nat /\ Len(request) \in Lengths /\ \A n \in Lengths : n <= b
  BY <1>1, <1>2 DEF Lengths
<1>4. \E n \in Lengths : \A k \in Lengths : k <= n
  BY <1>3, GreatestNat
<1>5. MaxFiles \in Lengths /\ \A k \in Lengths : k <= MaxFiles
  BY <1>4 DEF MaxFiles
<1>6. QED BY <1>2, <1>3, <1>5 DEF BookFiles

\* Jobs that fail, die and start again implement AnswerBook, the model is believed
\* once per file, until a job is started beside another or beside coroutines that
\* a failed one left (classification_service.py).
THEOREM KeepsBook == Spec => ImplementsBook
<1>1. Init => Book!Init
  <2> SUFFICES ASSUME Init PROVE Book!Init
    OBVIOUS
  <2>1. records = <<>>
    BY DEF Init, IntakeInit
  <2>2. \A f : ~Own(f)
    BY <2>1 DEF Own
  <2>3. Alone = TRUE
    BY DEF Init, Alone
  <2>4. QED BY <2>2, <2>3 DEF Book!Init
<1>2. AllInv /\ [Next]_vars => [Book!Next]_<<KnownOf, ShownOf, Alone>>
  BY BookRefined
<1>3. Spec => Book!Init /\ [][Book!Next]_<<KnownOf, ShownOf, Alone>>
  BY <1>1, <1>2, AllAlways, PTL DEF Spec
<1>4. QED BY <1>3, PTL DEF ImplementsBook, Book!Spec, KnownOf, ShownOf, BookFiles

-----------------------------------------------------------------------------
(* Jobs run out of steps and do not get stuck.  JobsEnd needs fairness; what   *)
(* it needs of the code is shown here, for any overlap and any race for the    *)
(* files of the cache.                                                         *)

\* What a coroutine in the state t can still do, when its process saves as w.
StepsLeft(t, w) ==
    CASE t.pc = "start" -> 5 [] t.pc = "wait" -> 4 [] t.pc = "call" -> 3
      [] t.pc = "save" -> (IF w.written THEN 1 ELSE 2)
      [] OTHER -> 0

\* While a job is under way, whatever changes in it brings one coroutine nearer
\* to its end and leaves the others where they are.
CoroutinesRunOut ==
    [][\A j \in Jobs :
         /\ job[j].pc # "idle" /\ job'[j].pc # "idle"
         /\ task'[j] # task[j] \/ writer'[j].written # writer[j].written
         => \E f \in Files :
              /\ StepsLeft(task'[j][f], writer'[j]) < StepsLeft(task[j][f], writer[j])
              /\ \A g \in Files \ {f} :
                   StepsLeft(task'[j][g], writer'[j]) = StepsLeft(task[j][g], writer[j])]_vars

SlotFree(j) == Cardinality({g \in Files : task[j][g].pc = "call"}) < Slots

\* The coroutine can go on: it has a slot or needs none, or it has written its
\* text and the rename now succeeds or fails.
Ready(j, f) ==
    \/ Resumed(j, f, "start") \/ Resumed(j, f, "call")
    \/ Resumed(j, f, "wait") /\ SlotFree(j)
    \/ task[j][f].pc = "save" /\ writer[j].written /\ writer[j].key # {}

\* Its process has a text to write and a file open for it.
Writing(j) ==
    /\ writer[j].link # "closed" /\ ~writer[j].written
    /\ writer[j].key # {} /\ writer[j].payload # {}

\* A job under way can commit, or one of its coroutines can go on, or the save of
\* some job of its process can, which the event loop is in.
NoneIsStuck ==
    \A j \in Jobs : job[j].pc = "running" =>
        \/ \A f \in Files : task[j][f].pc = "done"
        \/ \E f \in Files : Ready(j, f)
        \/ \E i \in Jobs : /\ Home[i] = Home[j] /\ writer[i].link # "closed"
                           /\ Writing(i) \/ \E f \in Files : Ready(i, f)

\* A job under way lost none of its coroutines: one that raises fails the job.
AllPresent == \A j \in Jobs : job[j].pc = "running" => \A f \in Files : task[j][f].pc # "none"

LEMMA NeverStuck == IInv /\ TypeInv /\ AllPresent => NoneIsStuck
<1> SUFFICES ASSUME IInv, TypeInv, AllPresent, NEW j \in Jobs, job[j].pc = "running",
                    NEW f \in Files, task[j][f].pc # "done"
             PROVE  \/ \E g \in Files : Ready(j, g)
                    \/ \E i \in Jobs : /\ Home[i] = Home[j] /\ writer[i].link # "closed"
                                       /\ Writing(i) \/ \E g \in Files : Ready(i, g)
  BY DEF NoneIsStuck
<1>0. /\ \A i \in Jobs : SavesOf(i) /\ writer[i] \in Save
      /\ \A i \in Jobs, g \in Files : task[i][g] \in Task /\ TaskTyped(task[i][g])
      /\ \A g \in Files : task[j][g].pc # "none"
  BY DEF IInv, FilesInv, CacheInv, TypeInv, JobTypes, SavesInv, AllPresent
<1>1. ASSUME NEW i \in Jobs, Home[i] = Home[j], writer[i].link # "closed"
      PROVE  Writing(i) \/ \E g \in Files : Ready(i, g)
  <2>1. PICK g \in Files : task[i][g].pc = "save"
    BY <1>0, <1>1 DEF SavesOf
  <2>2. SavesOf(i) /\ TaskTyped(task[i][g])
    BY <1>0
  <2>3. writer[i].payload = task[i][g].payload /\ writer[i].key # {}
    BY <2>1, <2>2 DEF SavesOf
  <2>4. task[i][g].payload # {}
    BY <2>1, <2>2 DEF TaskTyped
  <2>5. QED BY <1>1, <2>1, <2>3, <2>4 DEF Writing, Ready
<1>2. CASE \A i \in Jobs : Home[i] = Home[j] => writer[i].link = "closed"
  <2>1. \A g \in Files : task[j][g].pc # "save"
    BY <1>0, <1>2 DEF SavesOf
  <2>2. task[j][f].pc \in {"start", "wait", "call"}
    BY <1>0, <2>1 DEF Task
  <2>3. CASE \E g \in Files : task[j][g].pc = "call"
    BY <1>2, <2>3 DEF Ready, Resumed
  <2>4. CASE ~\E g \in Files : task[j][g].pc = "call"
    <3>1. {g \in Files : task[j][g].pc = "call"} = {}
      BY <2>4
    <3>2. Cardinality({g \in Files : task[j][g].pc = "call"}) = 0
      BY <3>1, FS_EmptySet
    <3>3. SlotFree(j)
      BY <3>2, ClassificationConstants DEF SlotFree, Slots
    <3>4. QED BY <1>2, <2>2, <3>3 DEF Ready, Resumed
  <2>5. QED BY <2>3, <2>4
<1>3. QED BY <1>1, <1>2

\* A coroutine that raises takes its job along.
LEMMA StepPresent ==
    ASSUME IInv, TypeInv, NEW j \in Jobs, NEW f \in Files, Step(j, f)
    PROVE  /\ task'[j][f].pc = "none" => job'[j].pc = "failed"
           /\ StepsLeft(task'[j][f], writer'[j]) < StepsLeft(task[j][f], writer[j])
<1>0. /\ task \in [Jobs -> [Files -> Task]] /\ writer \in [Jobs -> Save]
      /\ job \in [Jobs -> JobState] /\ SavesOf(j)
  BY DEF IInv, FilesInv, CacheInv, TypeInv, JobTypes, SavesInv
<1>1. task[j][f].pc # "none"
  BY DEF Step, ByName, Lookup, Acquire, Answered, Saved, SaveFails, Failed, Raise, Resumed
<1>2. job[j].pc # "idle"
  BY <1>0, <1>1, NoTaskType DEF SavesOf
<1>3. ASSUME Raises(j, f) PROVE task'[j][f].pc = "none" /\ job'[j].pc = "failed"
  <2>1. job[j] \in [pc : {"running", "failed"}, loaded : [Files -> Row]]
    BY <1>0, <1>2 DEF JobState, NoJob
  <2>2. QED BY <1>0, <1>3, <2>1, NoTaskType DEF Raises, Become
<1>4. ASSUME NEW p, NEW hit, Return(j, f, p, hit) PROVE task'[j][f].pc = "done"
  BY <1>0, <1>4 DEF Return, Become
<1>5. ASSUME NEW pc, Become(j, f, [task[j][f] EXCEPT !.pc = pc]) PROVE task'[j][f].pc = pc
  BY <1>0, <1>5 DEF Become, Task
<1>6. CASE ByName(j, f) \/ Failed(j, f)
  <2>1. task'[j][f].pc = "done" /\ task[j][f].pc \in {"start", "call"}
    BY <1>4, <1>6 DEF ByName, Failed, Resumed
  <2>2. QED BY <2>1 DEF StepsLeft
<1>7. CASE Lookup(j, f)
  <2>1. task[j][f].pc = "start"
    BY <1>7 DEF Lookup, Resumed
  <2>2. \/ task'[j][f].pc \in {"wait", "done"}
        \/ task'[j][f].pc = "none" /\ job'[j].pc = "failed"
    BY <1>3, <1>4, <1>5, <1>7 DEF Lookup
  <2>3. QED BY <2>1, <2>2 DEF StepsLeft
<1>8. CASE Acquire(j, f)
  <2>1. task[j][f].pc = "wait" /\ task'[j][f].pc = "call"
    BY <1>5, <1>8 DEF Acquire, Resumed
  <2>2. QED BY <2>1 DEF StepsLeft
<1>9. CASE Answered(j, f)
  <2>1. task[j][f].pc = "call" /\ task'[j][f].pc = "save" /\ writer'[j].written = FALSE
    BY <1>0, <1>9 DEF Answered, Resumed, Become, Cache!OpenTemp
  <2>2. QED BY <2>1 DEF StepsLeft
<1>10. CASE Saved(j, f)
  <2>1. task[j][f].pc = "save" /\ task'[j][f].pc = "done" /\ writer[j].written
    BY <1>5, <1>10 DEF Saved, Cache!Rename
  <2>2. QED BY <2>1 DEF StepsLeft
<1>11. CASE SaveFails(j, f) \/ Raise(j, f)
  <2>1. task[j][f].pc \in {"save", "start", "call"} /\ task'[j][f].pc = "none" /\ job'[j].pc = "failed"
    BY <1>3, <1>11 DEF SaveFails, Raise, Resumed
  <2>2. QED BY <2>1 DEF StepsLeft
<1>12. QED BY <1>6, <1>7, <1>8, <1>9, <1>10, <1>11 DEF Step

\* The others of its process do not notice a step of a coroutine, and the other
\* processes keep what they have written.
LEMMA StepAlone ==
    ASSUME IInv, TypeInv, NEW j \in Jobs, NEW f \in Files, Step(j, f)
    PROVE  /\ \A g \in Files \ {f} : /\ task'[j][g] = task[j][g]
                                     /\ StepsLeft(task'[j][g], writer'[j]) = StepsLeft(task[j][g], writer[j])
           /\ \A i \in Jobs \ {j} : /\ task'[i] = task[i] /\ job'[i] = job[i]
                                    /\ writer'[i].written = writer[i].written
           /\ Files' = Files
<1>0. task \in [Jobs -> [Files -> Task]] /\ writer \in [Jobs -> Save] /\ job \in [Jobs -> JobState] /\ SavesOf(j)
  BY DEF IInv, FilesInv, CacheInv, TypeInv, JobTypes, SavesInv
<1>1. /\ UNCHANGED uploaded /\ (UNCHANGED job \/ job' = [job EXCEPT ![j].pc = "failed"])
      /\ \E t \in Task : Become(j, f, t)
  BY StepShape DEF TypeInv
<1>2. /\ \A g \in Files \ {f} : task'[j][g] = task[j][g] /\ Files' = Files
      /\ \A i \in Jobs \ {j} : task'[i] = task[i] /\ job'[i] = job[i]
  BY <1>0, <1>1 DEF Become, uploaded, Files
<1>3. CASE writer' = writer
  BY <1>1, <1>2, <1>3 DEF uploaded, Files
<1>4. CASE Answered(j, f) \/ Saved(j, f) \/ SaveFails(j, f)
  <2>1. \A g \in Files \ {f} : task[j][g].pc # "save"
    BY <1>0, <1>4 DEF Answered, Saved, SaveFails, Resumed, SavesOf
  <2>2. \A g \in Files \ {f} : StepsLeft(task'[j][g], writer'[j]) = StepsLeft(task[j][g], writer[j])
    BY <1>2, <2>1 DEF StepsLeft
  <2>3. \A i \in Jobs \ {j} : writer'[i].written = writer[i].written
    <3>1. CASE Answered(j, f)
      BY <1>0, <3>1 DEF Answered, Cache!OpenTemp
    <3>2. CASE SaveFails(j, f)
      BY <1>0, <3>2 DEF SaveFails, Cache!Abandon
    <3>3. CASE Saved(j, f)
      <4>1. PICK k \in writer[j].key :
              writer' = [v \in Jobs |->
                   IF v = j THEN Cache!NotSaving
                   ELSE IF writer[v].key # {k} THEN writer[v]
                   ELSE [writer[v] EXCEPT !.link = CASE @ = "temp" -> "entry"
                                                     [] @ = "entry" -> "unlinked"
                                                     [] OTHER -> @]]
        BY <3>3 DEF Saved, Cache!Rename
      <4>2. ASSUME NEW i \in Jobs \ {j} PROVE writer'[i].written = writer[i].written
        <5>1. \E l : writer'[i] = [writer[i] EXCEPT !.link = l] \/ writer'[i] = writer[i]
          BY <4>1
        <5>2. writer[i] \in Save
          BY <1>0
        <5>3. QED BY <5>1, <5>2 DEF Save
      <4>3. QED BY <4>2
    <3>4. QED BY <1>4, <3>1, <3>2, <3>3
  <2>4. QED BY <1>1, <1>2, <2>2, <2>3 DEF uploaded, Files
<1>5. writer' = writer \/ Answered(j, f) \/ Saved(j, f) \/ SaveFails(j, f)
  BY DEF Step, ByName, Lookup, Acquire, Failed, Raise, cached
<1>6. QED BY <1>3, <1>4, <1>5

LEMMA PresentKept == IInv /\ TypeInv /\ AllPresent /\ [Next]_vars => AllPresent'
<1> SUFFICES ASSUME IInv, TypeInv, AllPresent, [Next]_vars PROVE AllPresent'
  OBVIOUS
<1>0. task \in [Jobs -> [Files -> Task]] /\ job \in [Jobs -> JobState]
  BY DEF IInv, FilesInv, TypeInv, JobTypes
<1>1. CASE UNCHANGED <<request, task, job>>
  BY <1>1 DEF AllPresent, Files
<1>2. CASE Upload
  <2>1. UNCHANGED <<job, task, request>>
    BY <1>2 DEF Upload, cached, IntakeNext, CreateBatch, Reject, Accept, Store, AddRecords, UploadFails
  <2>2. QED BY <1>1, <2>1
<1>3. ASSUME NEW j \in Jobs, Start(j) \/ Commit(j) \/ Stop(j) PROVE AllPresent'
  <2>1. /\ \A i \in Jobs \ {j} : task'[i] = task[i] /\ job'[i] = job[i]
        /\ Files' = Files
    BY <1>0, <1>3 DEF Start, Commit, Stop, uploaded, Files
  <2>2. CASE Start(j)
    <3>1. \A f \in Files : task'[j][f] = [NoTask EXCEPT !.pc = "start"]
      BY <1>0, <2>2 DEF Start
    <3>2. \A f \in Files : task'[j][f].pc # "none"
      BY <3>1 DEF NoTask
    <3>3. QED BY <2>1, <3>2 DEF AllPresent
  <2>3. CASE Commit(j) \/ Stop(j)
    <3>1. job'[j].pc # "running"
      BY <1>0, <2>3 DEF Commit, Stop, NoJob
    <3>2. QED BY <2>1, <3>1 DEF AllPresent
  <2>4. QED BY <1>3, <2>2, <2>3
<1>4. ASSUME NEW j \in Jobs, Write(j) PROVE AllPresent'
  BY <1>1, <1>4 DEF Write, uploaded
<1>5. ASSUME NEW j \in Jobs, NEW f \in Files, Step(j, f) PROVE AllPresent'
  <2>1. /\ \A g \in Files \ {f} : task'[j][g] = task[j][g]
        /\ \A i \in Jobs \ {j} : task'[i] = task[i] /\ job'[i] = job[i]
        /\ Files' = Files
    BY <1>5, StepAlone
  <2>2. task'[j][f].pc = "none" => job'[j].pc = "failed"
    BY <1>5, StepPresent
  <2>3. job'[j].pc = "running" => job[j].pc = "running"
    <3>1. UNCHANGED job \/ job' = [job EXCEPT ![j].pc = "failed"]
      BY <1>5, StepShape DEF TypeInv
    <3>2. CASE job' = [job EXCEPT ![j].pc = "failed"]
      <4>1. job'[j] = [job[j] EXCEPT !.pc = "failed"]
        BY <1>0, <3>2
      <4>2. job'[j].pc # "running"
        BY <1>0, <4>1 DEF JobState, NoJob
      <4>3. QED BY <4>2
    <3>3. QED BY <3>1, <3>2
  <2>4. QED BY <2>1, <2>2, <2>3 DEF AllPresent
<1>6. QED BY <1>1, <1>2, <1>3, <1>4, <1>5 DEF Next, vars

\* classify_batch comes to an end whatever the number of files, processes and
\* slots and however they race for the cache: a coroutine takes five steps at
\* most, and a job under way always has one to take.
THEOREM ClassificationsRunOut == Spec => []NoneIsStuck /\ CoroutinesRunOut
<1> DEFINE Nearer ==
      \A j \in Jobs :
         /\ job[j].pc # "idle" /\ job'[j].pc # "idle"
         /\ task'[j] # task[j] \/ writer'[j].written # writer[j].written
         => \E f \in Files :
              /\ StepsLeft(task'[j][f], writer'[j]) < StepsLeft(task[j][f], writer[j])
              /\ \A g \in Files \ {f} :
                   StepsLeft(task'[j][g], writer'[j]) = StepsLeft(task[j][g], writer[j])
<1>1. Init => AllPresent
  BY DEF Init, NoJob, AllPresent
<1>2. ASSUME IInv, TypeInv, Next PROVE Nearer
  <2>0. /\ task \in [Jobs -> [Files -> Task]] /\ job \in [Jobs -> JobState]
        /\ writer \in [Jobs -> Save] /\ SavesInv
    BY <1>2 DEF IInv, FilesInv, CacheInv, TypeInv, JobTypes
  <2>1. CASE Upload
    BY <2>1 DEF Upload, cached
  <2>2. ASSUME NEW j \in Jobs, Start(j) \/ Commit(j) \/ Stop(j) PROVE Nearer
    <3>1. \A i \in Jobs \ {j} : task'[i] = task[i] /\ writer'[i] = writer[i]
      BY <2>0, <2>2 DEF Start, Commit, Stop, cached, Cache!Abandon
    <3>2. job[j].pc = "idle" \/ job'[j].pc = "idle"
      <4>1. CASE Start(j)
        BY <4>1 DEF Start
      <4>2. CASE job' = [job EXCEPT ![j] = NoJob]
        BY <2>0, <4>2 DEF NoJob
      <4>3. QED BY <2>2, <4>1, <4>2 DEF Commit, Stop
    <3>3. QED BY <3>1, <3>2
  <2>3. ASSUME NEW j \in Jobs, Write(j) PROVE Nearer
    <3>1. /\ task' = task /\ ~writer[j].written /\ writer[j].link # "closed"
          /\ writer' = [writer EXCEPT ![j].written = TRUE]
      BY <2>3 DEF Write, Cache!WriteText
    <3>2. writer'[j].written /\ \A i \in Jobs \ {j} : writer'[i] = writer[i]
      BY <2>0, <3>1 DEF Save
    <3>3. PICK f \in Files : task[j][f].pc = "save" /\ \A g \in Files \ {f} : task[j][g].pc # "save"
      BY <2>0, <3>1 DEF SavesInv, SavesOf
    <3>4. StepsLeft(task'[j][f], writer'[j]) < StepsLeft(task[j][f], writer[j])
      BY <3>1, <3>2, <3>3 DEF StepsLeft
    <3>5. \A g \in Files \ {f} : StepsLeft(task'[j][g], writer'[j]) = StepsLeft(task[j][g], writer[j])
      BY <3>1, <3>3 DEF StepsLeft
    <3>6. QED BY <3>1, <3>2, <3>4, <3>5
  <2>4. ASSUME NEW j \in Jobs, NEW f \in Files, Step(j, f) PROVE Nearer
    <3>1. StepsLeft(task'[j][f], writer'[j]) < StepsLeft(task[j][f], writer[j])
      BY <1>2, <2>4, StepPresent
    <3>2. /\ \A g \in Files \ {f} : StepsLeft(task'[j][g], writer'[j]) = StepsLeft(task[j][g], writer[j])
          /\ \A i \in Jobs \ {j} : task'[i] = task[i] /\ writer'[i].written = writer[i].written
      BY <1>2, <2>4, StepAlone
    <3>3. QED BY <3>1, <3>2
  <2>5. QED BY <1>2, <2>1, <2>2, <2>3, <2>4 DEF Next
<1> HIDE DEF Nearer
<1>3. IInv /\ TypeInv /\ [Next]_vars => [Nearer]_vars
  BY <1>2
<1>4. Spec => [][Nearer]_vars
  BY <1>3, Inductive, TypesAlways, PTL DEF Spec
<1>5. Spec => []AllPresent
  BY <1>1, PresentKept, Inductive, TypesAlways, PTL DEF Spec
<1>6. QED BY <1>4, <1>5, NeverStuck, Inductive, TypesAlways, PTL DEF CoroutinesRunOut, Nearer
=============================================================================
