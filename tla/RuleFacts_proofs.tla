-------------------------- MODULE RuleFacts_proofs --------------------------
(***************************************************************************)
(* Theorems about RuleFacts, for every batch, every answer of the model    *)
(* and every payload: how extraction records succeed each other, that a    *)
(* rule which hits shows where, and what each rule finds in the documents, *)
(* whatever their order: the filters and the accumulator are recursive     *)
(* functions, about which Induction's UpTo shows what holds up to a number.*)
(***************************************************************************)
EXTENDS RuleFacts, Induction

-----------------------------------------------------------------------------
(* Types of files and records *)

StoredTypes == DocTypes \cup {"none", "unsupported_document", "classification_error"}

RecordsTyped ==
    \A r \in records : /\ r.file \in Files /\ r.schema \in DocTypes
                       /\ r.at \in 1..(clock - 1) /\ r.data \in Data[r.schema]

\* Between two records of one schema of a file lies one of another schema.
SchemasAlternate ==
    \A r, q \in records : r.file = q.file /\ r.at < q.at /\ r.schema = q.schema =>
      \E x \in records : x.file = r.file /\ r.at < x.at /\ x.at < q.at /\ x.schema # r.schema

IInv == docType \in [Files -> StoredTypes] /\ clock \in Nat \ {0} /\ RecordsTyped /\ SchemasAlternate

LEMMA ClassifiedType ==
    ASSUME NEW f \in Files, NEW a \in Answers
    PROVE  Classified(f, a[f]) \in StoredTypes
<1>1. Answered(f, a[f]) \in DocTypes \cup {"classification_error", "other"}
  BY FactConstants DEF Answered
<1>2. QED BY <1>1, FactConstants DEF Classified, StoredTypes

\* A job that stores the payloads d keeps the records in order: what it
\* overwrites is the latest record of its file, so no record between two that
\* stay is lost, and a record that stays for want of being the latest has one of
\* another schema after it.
LEMMA StoredKeeps ==
    ASSUME IInv, NEW d, DOMAIN d \subseteq Files,
           \A f \in DOMAIN d : docType[f] \in DocTypes /\ d[f] \in Data[docType[f]],
           records' = Stored(d), clock' = clock + 1, docType' = docType
    PROVE  IInv'
<1> DEFINE fresh(f) == [file |-> f, schema |-> docType[f], at |-> clock, data |-> d[f]]
           new == {fresh(f) : f \in DOMAIN d}
           old == {r \in UNION {Latest(f) : f \in DOMAIN d} : r.schema = docType[r.file]}
<1>1. records' = (records \ old) \cup new
  BY DEF Stored
<1>2. \A r \in old : r.schema = docType[r.file] /\ \A q \in records : q.file = r.file => q.at <= r.at
  BY DEF Latest
<1>3. \A r \in records \ old : r.file \in DOMAIN d /\ r.schema = docType[r.file] =>
         \E q \in records : q.file = r.file /\ r.at < q.at
  BY DEF Latest, IInv, RecordsTyped
<1>4. \A r \in new : /\ r.file \in DOMAIN d /\ r.schema = docType[r.file] /\ r.at = clock
                     /\ r.data = d[r.file]
  OBVIOUS
<1> HIDE DEF new, old
<1>5. \A r \in records : r.at \in Nat /\ r.at < clock
  BY DEF IInv, RecordsTyped
<1>6. RecordsTyped'
  <2>1. ASSUME NEW r \in records \ old
        PROVE  /\ r.file \in Files /\ r.schema \in DocTypes
               /\ r.at \in 1..((clock + 1) - 1) /\ r.data \in Data[r.schema]
    BY DEF IInv, RecordsTyped
  <2>2. ASSUME NEW r \in new
        PROVE  /\ r.file \in Files /\ r.schema \in DocTypes
               /\ r.at \in 1..((clock + 1) - 1) /\ r.data \in Data[r.schema]
    BY <1>4 DEF IInv
  <2>3. QED BY <1>1, <2>1, <2>2 DEF RecordsTyped
<1>7. SchemasAlternate'
  <2> SUFFICES ASSUME NEW r \in records', NEW q \in records',
                      r.file = q.file, r.at < q.at, r.schema = q.schema
               PROVE  \E x \in records' : /\ x.file = r.file /\ r.at < x.at /\ x.at < q.at
                                          /\ x.schema # r.schema
    BY DEF SchemasAlternate
  <2>1. r \in records \ old
    BY <1>1, <1>4, <1>5 DEF IInv
  <2>2. ASSUME NEW p \in records, p.file = r.file, r.at < p.at, p.schema = r.schema
        PROVE  \E x \in records \ old : /\ x.file = r.file /\ r.at < x.at /\ x.at < p.at
                                        /\ x.schema # r.schema
    <3>1. PICK x \in records : /\ x.file = r.file /\ r.at < x.at /\ x.at < p.at
                               /\ x.schema # r.schema
      BY <2>1, <2>2 DEF IInv, SchemasAlternate
    <3>2. x \notin old
      BY <1>2, <1>5, <2>2, <3>1
    <3>3. QED BY <3>1, <3>2
  <2>3. CASE q \in records \ old
    BY <1>1, <2>2, <2>3
  <2>4. CASE q \in new
    <3>1. q.at = clock /\ r.file \in DOMAIN d /\ r.schema = docType[r.file]
      BY <1>4, <2>4
    <3>2. PICK p \in records : p.file = r.file /\ r.at < p.at
      BY <1>3, <2>1, <3>1
    <3>3. CASE p.schema = r.schema
      <4>1. PICK x \in records \ old : /\ x.file = r.file /\ r.at < x.at /\ x.at < p.at
                                       /\ x.schema # r.schema
        BY <2>2, <3>2, <3>3
      <4>2. QED BY <1>1, <1>5, <3>1, <4>1
    <3>4. CASE p.schema # r.schema
      <4>1. p \notin old
        BY <1>2, <3>1, <3>2, <3>4
      <4>2. QED BY <1>1, <1>5, <3>1, <3>2, <3>4, <4>1
    <3>5. QED BY <3>3, <3>4
  <2>5. QED BY <1>1, <2>3, <2>4
<1>8. QED BY <1>6, <1>7 DEF IInv

LEMMA StepKeeps == IInv /\ [Next]_vars => IInv'
<1> SUFFICES ASSUME IInv, [Next]_vars PROVE IInv'
  OBVIOUS
<1>1. CASE Classify
  <2>1. PICK a \in Answers : docType' = [f \in Files |-> Classified(f, a[f])]
    BY <1>1 DEF Classify
  <2>2. docType' \in [Files -> StoredTypes]
    BY <2>1, ClassifiedType
  <2>3. QED BY <1>1, <2>2 DEF Classify, IInv, RecordsTyped, SchemasAlternate
<1>2. CASE Extract
  <2> DEFINE typed == {f \in Files : docType[f] \in DocTypes}
  <2>1. PICK d \in [typed -> UNION {Data[t] : t \in DocTypes}] :
          (\A f \in typed : d[f] \in Data[docType[f]]) /\ records' = Stored(d)
    BY <1>2 DEF Extract
  <2>2. DOMAIN d = typed /\ clock' = clock + 1 /\ docType' = docType
    BY <1>2, <2>1 DEF Extract
  <2>3. QED BY <2>1, <2>2, StoredKeeps
<1>3. CASE UNCHANGED vars
  BY <1>3 DEF vars, IInv, RecordsTyped, SchemasAlternate
<1>4. QED BY <1>1, <1>2, <1>3 DEF Next

\* The steps keep it from the start.
LEMMA Inductive == Spec => []IInv
<1>1. Init => IInv
  BY DEF Init, IInv, StoredTypes, RecordsTyped, SchemasAlternate
<1>2. QED BY <1>1, StepKeeps, PTL DEF Spec

\* Types and records are well formed, and two records of one schema of a file
\* are separated by one of another (extract_batch's choice between update
\* and insert), for any history of classifications and extractions.
THEOREM RecordsAlternate == Spec => []TypeOK
<1>1. IInv => TypeOK
  BY DEF IInv, TypeOK, StoredTypes, RecordsTyped, SchemasAlternate
<1>2. QED BY <1>1, Inductive, PTL

-----------------------------------------------------------------------------
(* Evidence of the hits *)

\* Some documents have a first one.
LEMMA FirstSome ==
    ASSUME NEW docs, Len(docs) \in Nat \ {0}, NEW n \in Nat \ {0}
    PROVE  First(docs, n) # {}
<1>1. \A a, b \in Nat \ {0} : Min({a, b}) \in Nat \ {0}
  <2> SUFFICES ASSUME NEW a \in Nat \ {0}, NEW b \in Nat \ {0} PROVE Min({a, b}) \in Nat \ {0}
    OBVIOUS
  <2>1. \E x \in {a, b} : \A y \in {a, b} : x <= y
    OBVIOUS
  <2>2. QED BY <2>1 DEF Min
<1>2. 1 \in 1..Min({n, Len(docs)})
  BY <1>1
<1>3. QED BY <1>2 DEF First

LEMMA DefectsHit == ASSUME NEW S PROVE Defects(S).hit => Defects(S).evidence # {}
BY DEF Defects

\* Where there are documents, every rule that hits has evidence, whatever the
\* documents are: run_rule_engine's guard never drops a hit (evaluate_rule).
LEMMA HitsAreShown ==
    ASSUME NEW docs, Len(docs) \in Nat \ {0}, NEW r
    PROVE  Verdict(r, docs).hit => Verdict(r, docs).evidence # {}
<1>1. Presence(r, docs).hit => Presence(r, docs).evidence # {}
  BY FirstSome DEF Presence
<1>2. RequiredField(r, docs).hit => RequiredField(r, docs).evidence # {}
  BY DefectsHit DEF RequiredField, OfDocs
<1>3. NotExpired(r, docs).hit => NotExpired(r, docs).evidence # {}
  BY DefectsHit DEF NotExpired, OfDocs
<1>4. RoleConsistent(docs).hit => RoleConsistent(docs).evidence # {}
  BY DefectsHit DEF RoleConsistent, OfPeople
<1>5. TrainingClosed(docs).hit => TrainingClosed(docs).evidence # {}
  BY DefectsHit DEF TrainingClosed, OfPeople
<1>6. ChainComplete(docs).hit => ChainComplete(docs).evidence # {}
  BY DefectsHit DEF ChainComplete, OfPeople
<1>7. JsaComplete(docs).hit => JsaComplete(docs).evidence # {}
  BY DefectsHit DEF JsaComplete, OfDocs
<1>8. ASSUME NEW field PROVE Consistent(field, docs).hit => Consistent(field, docs).evidence # {}
  <2>1. Consistent(field, docs) \in {[hit |-> TRUE, evidence |-> First(docs, 2)],
                                      [hit |-> FALSE, evidence |-> {}]}
    BY DEF Consistent
  <2>2. First(docs, 2) # {}
    BY FirstSome
  <2>3. QED BY <2>1, <2>2
<1>9. DateOrder(r, docs).hit => DateOrder(r, docs).evidence # {}
  BY DEF DateOrder
<1>10. QED
  BY <1>1, <1>2, <1>3, <1>4, <1>5, <1>6, <1>7, <1>8, <1>9 DEF Verdict

-----------------------------------------------------------------------------
(* Selections from a sequence *)

\* The values chosen up to n, number by number.
Choosing(v, I, n, f) ==
    f = [k \in 0..n |-> IF k = 0 THEN <<>>
                        ELSE IF k \in I THEN Append(f[k - 1], v[k]) ELSE f[k - 1]]

LEMMA ChoosingStep ==
    ASSUME NEW v, NEW I, NEW n \in Nat, NEW f, Choosing(v, I, n, f)
    PROVE  /\ f[0] = <<>>
           /\ \A k \in 1..n : f[k] = IF k \in I THEN Append(f[k - 1], v[k]) ELSE f[k - 1]
<1>1. \A k \in 0..n : f[k] = IF k = 0 THEN <<>>
                             ELSE IF k \in I THEN Append(f[k - 1], v[k]) ELSE f[k - 1]
  BY Zenon DEF Choosing
<1>2. 0 \in 0..n /\ \A k \in 1..n : k \in 0..n /\ k # 0
  OBVIOUS
<1>3. QED BY <1>1, <1>2, Zenon

LEMMA ChoosingExists ==
    ASSUME NEW n \in Nat, NEW v, NEW I
    PROVE  \E f : Choosing(v, I, n, f)
<1> DEFINE S == {m \in 0..n : \E f : Choosing(v, I, m, f)}
<1>1. 0 \in S
  <2>1. Choosing(v, I, 0, [k \in 0..0 |-> <<>>])
    BY DEF Choosing
  <2>2. QED BY <2>1
<1>2. ASSUME NEW m \in 0..n, m \in S, m < n PROVE m + 1 \in S
  <2>1. PICK f : Choosing(v, I, m, f)
    BY <1>2
  <2> DEFINE g == [k \in 0..(m + 1) |-> IF k <= m THEN f[k]
                                       ELSE IF k \in I THEN Append(f[k - 1], v[k]) ELSE f[k - 1]]
  <2>2. ASSUME NEW k \in 0..(m + 1)
        PROVE  g[k] = IF k = 0 THEN <<>>
                      ELSE IF k \in I THEN Append(g[k - 1], v[k]) ELSE g[k - 1]
    <3>1. CASE k = 0
      <4>1. f[0] = <<>> /\ g[0] = f[0]
        BY <2>1, ChoosingStep
      <4>2. QED BY <3>1, <4>1
    <3>2. CASE k \in 1..m
      <4>1. /\ f[k] = IF k \in I THEN Append(f[k - 1], v[k]) ELSE f[k - 1]
            /\ g[k] = f[k] /\ g[k - 1] = f[k - 1]
        <5>1. f[k] = IF k \in I THEN Append(f[k - 1], v[k]) ELSE f[k - 1]
          BY <2>1, <3>2, ChoosingStep
        <5>2. g[k] = f[k] /\ g[k - 1] = f[k - 1]
          BY <3>2
        <5>3. QED BY <5>1, <5>2
      <4>2. QED BY <3>2, <4>1
    <3>3. CASE k = m + 1
      <4>1. g[k - 1] = f[k - 1] /\ k # 0 /\ ~(k <= m)
        BY <3>3
      <4>2. QED BY <4>1
    <3>4. QED BY <3>1, <3>2, <3>3
  <2>3. g = [k \in 0..(m + 1) |-> IF k = 0 THEN <<>>
                                  ELSE IF k \in I THEN Append(g[k - 1], v[k]) ELSE g[k - 1]]
    <3>1. g = [k \in 0..(m + 1) |-> g[k]]
      OBVIOUS
    <3> HIDE DEF g
    <3>2. QED BY <2>2, <3>1
  <2> HIDE DEF g
  <2>4. Choosing(v, I, m + 1, g)
    BY <2>3 DEF Choosing
  <2>5. QED BY <1>2, <2>4
<1> HIDE DEF S
<1>3. 0..n \subseteq S
  BY <1>1, <1>2, UpTo
<1>4. n \in S
  BY <1>3
<1>5. QED BY <1>4 DEF S

\* One element more.
LEMMA AppendedSet ==
    ASSUME NEW T, NEW s \in Seq(T), NEW x \in T
    PROVE  ToSet(Append(s, x)) = ToSet(s) \cup {x}
<1>1. /\ Len(s) \in Nat /\ DOMAIN s = 1..Len(s) /\ DOMAIN Append(s, x) = 1..(Len(s) + 1)
      /\ Append(s, x)[Len(s) + 1] = x /\ \A i \in 1..Len(s) : Append(s, x)[i] = s[i]
  OBVIOUS
<1>2. 1..(Len(s) + 1) = (1..Len(s)) \cup {Len(s) + 1}
  BY <1>1
<1>3. QED BY <1>1, <1>2, Zenon DEF ToSet

\* What is chosen is a sequence of the values at the chosen numbers.
LEMMA ChosenValues ==
    ASSUME NEW n \in Nat, NEW v, NEW I
    PROVE  /\ Chosen(v, I, n) \in Seq({v[i] : i \in I \cap (1..n)})
           /\ ToSet(Chosen(v, I, n)) = {v[i] : i \in I \cap (1..n)}
<1> DEFINE T == {v[i] : i \in I \cap (1..n)}
           f == CHOOSE g : Choosing(v, I, n, g)
           Good(k) == /\ f[k] \in Seq(T)
                      /\ ToSet(f[k]) = {v[i] : i \in I \cap (1..k)}
           S == {k \in 0..n : Good(k)}
<1>1. Chosen(v, I, n) = f[n]
  BY DEF Chosen, Choosing
<1>2. Choosing(v, I, n, f)
  BY ChoosingExists
<1> HIDE DEF f
<1>3. f[0] = <<>> /\ \A k \in 1..n : f[k] = IF k \in I THEN Append(f[k - 1], v[k]) ELSE f[k - 1]
  BY <1>2, ChoosingStep
<1>4. 0 \in S
  <2>1. f[0] \in Seq(T) /\ ToSet(f[0]) = {} /\ I \cap (1..0) = {}
    BY <1>3 DEF ToSet
  <2>2. {v[i] : i \in I \cap (1..0)} = {}
    BY <2>1
  <2> HIDE DEF T
  <2>3. Good(0)
    BY <2>1, <2>2
  <2>4. QED BY <2>3
<1>5. ASSUME NEW k \in 0..n, k \in S, k < n PROVE k + 1 \in S
  <2>1. k + 1 \in 1..n /\ (k + 1) - 1 = k /\ I \cap (1..(k + 1)) = (I \cap (1..k)) \cup (I \cap {k + 1})
    BY <1>5
  <2>2. Good(k)
    BY <1>5
  <2>3. CASE k + 1 \in I
    <3>1. f[k + 1] = Append(f[k], v[k + 1]) /\ v[k + 1] \in T
      BY <1>3, <2>1, <2>3
    <3> HIDE DEF T
    <3>2. f[k + 1] \in Seq(T)
      BY <2>2, <3>1
    <3>3. ToSet(f[k + 1]) = ToSet(f[k]) \cup {v[k + 1]}
      <4>1. PICK s \in Seq(T) : s = f[k]
        BY <2>2
      <4>2. PICK x \in T : x = v[k + 1]
        BY <3>1
      <4>3. ToSet(Append(s, x)) = ToSet(s) \cup {x}
        BY AppendedSet
      <4>4. QED BY <3>1, <4>1, <4>2, <4>3
    <3>4. ToSet(f[k + 1]) = {v[i] : i \in I \cap (1..(k + 1))}
      BY <2>1, <2>2, <2>3, <3>3
    <3>5. QED BY <2>1, <3>2, <3>4
  <2>4. CASE k + 1 \notin I
    <3>1. f[k + 1] = f[k] /\ I \cap (1..(k + 1)) = I \cap (1..k)
      BY <1>3, <2>1, <2>4
    <3>2. QED BY <2>1, <2>2, <3>1
  <2>5. QED BY <2>3, <2>4
<1> HIDE DEF S
<1>6. n \in S
  <2>1. 0..n \subseteq S
    BY <1>4, <1>5, UpTo
  <2>2. QED BY <2>1
<1>7. Good(n)
  BY <1>6 DEF S
<1>8. QED BY <1>1, <1>7

LEMMA ConcatSet ==
    ASSUME NEW T, NEW s \in Seq(T), NEW t \in Seq(T)
    PROVE  s \o t \in Seq(T) /\ ToSet(s \o t) = ToSet(s) \cup ToSet(t)
<1>1. /\ Len(s) \in Nat /\ DOMAIN s = 1..Len(s) /\ Len(t) \in Nat /\ DOMAIN t = 1..Len(t)
      /\ DOMAIN (s \o t) = 1..(Len(s) + Len(t)) /\ s \o t \in Seq(T)
      /\ \A i \in 1..Len(s) : (s \o t)[i] = s[i]
      /\ \A i \in 1..Len(t) : (s \o t)[Len(s) + i] = t[i]
  OBVIOUS
<1>2. ASSUME NEW i \in 1..(Len(s) + Len(t))
      PROVE  (s \o t)[i] \in ToSet(s) \cup ToSet(t)
  <2>1. CASE i \in 1..Len(s)
    BY <1>1, <2>1 DEF ToSet
  <2>2. CASE i \notin 1..Len(s)
    <3>1. i - Len(s) \in 1..Len(t) /\ i = Len(s) + (i - Len(s))
      BY <1>1, <2>2
    <3>2. (s \o t)[i] = t[i - Len(s)]
      BY <1>1, <3>1
    <3>3. QED BY <1>1, <3>1, <3>2 DEF ToSet
  <2>3. QED BY <2>1, <2>2
<1>3. \A i \in 1..Len(t) : Len(s) + i \in 1..(Len(s) + Len(t))
  BY <1>1
<1>4. \A i \in 1..Len(s) : i \in 1..(Len(s) + Len(t))
  BY <1>1
<1>5. ToSet(s \o t) \subseteq ToSet(s) \cup ToSet(t)
  BY <1>1, <1>2 DEF ToSet
<1>6. ToSet(s) \subseteq ToSet(s \o t)
  <2>1. \A i \in DOMAIN s : s[i] = (s \o t)[i] /\ i \in DOMAIN (s \o t)
    BY <1>1, <1>4
  <2>2. QED BY <2>1, Zenon DEF ToSet
<1>7. ToSet(t) \subseteq ToSet(s \o t)
  <2>1. \A i \in DOMAIN t : t[i] = (s \o t)[Len(s) + i] /\ Len(s) + i \in DOMAIN (s \o t)
    BY <1>1, <1>3
  <2>2. QED BY <2>1, Zenon DEF ToSet
<1>8. QED BY <1>1, <1>5, <1>6, <1>7

\* What passes a test.
LEMMA ChosenSet ==
    ASSUME NEW T, NEW s \in Seq(T), NEW S
    PROVE  /\ Chosen(s, {i \in DOMAIN s : s[i] \in S}, Len(s)) \in Seq(T)
           /\ ToSet(Chosen(s, {i \in DOMAIN s : s[i] \in S}, Len(s))) = ToSet(s) \cap S
<1> DEFINE I == {i \in DOMAIN s : s[i] \in S}
           V == {s[i] : i \in I \cap (1..Len(s))}
<1>1. /\ Len(s) \in Nat /\ DOMAIN s = 1..Len(s) /\ \A i \in DOMAIN s : s[i] \in T
  OBVIOUS
<1>2. Chosen(s, I, Len(s)) \in Seq(V) /\ ToSet(Chosen(s, I, Len(s))) = V
  BY <1>1, ChosenValues
<1>3. V \subseteq T /\ V = ToSet(s) \cap S
  BY <1>1 DEF ToSet
<1> HIDE DEF V, I
<1>4. Chosen(s, I, Len(s)) \in Seq(T)
  BY <1>2, <1>3
<1>5. QED BY <1>2, <1>3, <1>4 DEF I

\* The document types that count as t.
Counted(t) == IF t \in Equivalent THEN {MergeOrder[1], MergeOrder[2]} ELSE {t}

\* The entries of a type are the documents of the types that count as it.
LEMMA EntriesSet ==
    ASSUME NEW D, NEW docs \in Seq(D), NEW t
    PROVE  /\ Entries(docs, t) \in Seq(D)
           /\ ToSet(Entries(docs, t)) = {d \in ToSet(docs) : d.type \in Counted(t)}
<1>1. ASSUME NEW u
      PROVE  OfType(docs, u) \in Seq(D) /\ ToSet(OfType(docs, u)) = {d \in ToSet(docs) : d.type = u}
  <2> DEFINE S == {d \in ToSet(docs) : d.type = u}
  <2>1. {i \in DOMAIN docs : docs[i].type = u} = {i \in DOMAIN docs : docs[i] \in S}
    BY DEF ToSet
  <2>2. OfType(docs, u) = Chosen(docs, {i \in DOMAIN docs : docs[i] \in S}, Len(docs))
    BY <2>1 DEF OfType
  <2>3. ToSet(docs) \cap S = S
    OBVIOUS
  <2> HIDE DEF S
  <2>4. OfType(docs, u) \in Seq(D) /\ ToSet(OfType(docs, u)) = S
    <3> DEFINE c == Chosen(docs, {i \in DOMAIN docs : docs[i] \in S}, Len(docs))
    <3>1. c \in Seq(D) /\ ToSet(c) = ToSet(docs) \cap S
      BY ChosenSet
    <3> HIDE DEF c
    <3>2. QED BY <2>2, <2>3, <3>1 DEF c
  <2>5. QED BY <2>4 DEF S
<1>2. CASE t \in Equivalent
  <2>1. Entries(docs, t) = OfType(docs, MergeOrder[1]) \o OfType(docs, MergeOrder[2])
    BY <1>2 DEF Entries
  <2>2. /\ Entries(docs, t) \in Seq(D)
        /\ ToSet(Entries(docs, t)) = ToSet(OfType(docs, MergeOrder[1])) \cup ToSet(OfType(docs, MergeOrder[2]))
    BY <1>1, <2>1, ConcatSet
  <2>3. QED BY <1>1, <1>2, <2>2 DEF Counted
<1>3. CASE t \notin Equivalent
  BY <1>1, <1>3 DEF Entries, Counted
<1>4. QED BY <1>2, <1>3

LEMMA EmptyList ==
    ASSUME NEW D, NEW s \in Seq(D)
    PROVE  /\ s = <<>> <=> ToSet(s) = {}
           /\ s # <<>> => Len(s) \in Nat \ {0}
<1>1. DOMAIN s = 1..Len(s) /\ Len(s) \in Nat
  OBVIOUS
<1>2. s # <<>> => Len(s) # 0
  OBVIOUS
<1>3. s # <<>> => 1 \in DOMAIN s
  BY <1>1, <1>2
<1>4. s = <<>> => ToSet(s) = {}
  BY DEF ToSet
<1>5. s # <<>> => ToSet(s) # {}
  BY <1>3 DEF ToSet
<1>6. QED BY <1>1, <1>2, <1>4, <1>5

LEMMA LeastOf ==
    ASSUME NEW S \in SUBSET Nat, S # {}
    PROVE  Min(S) \in S /\ \A n \in S : Min(S) <= n
BY LeastNat DEF Min

\* Of some numbers one is greatest and one is least.
LEMMA Extremes ==
    ASSUME NEW n \in Nat \ {0}, NEW v, \A i \in 1..n : v[i] \in Nat
    PROVE  /\ \E i \in 1..n : \A k \in 1..n : v[k] <= v[i]
           /\ \E i \in 1..n : \A k \in 1..n : v[i] <= v[k]
<1> DEFINE S == {m \in 0..n : m = 0 \/ \E i \in 1..m : \A k \in 1..m : v[k] <= v[i]}
<1>1. 0 \in S
  OBVIOUS
<1>2. ASSUME NEW m \in 0..n, m \in S, m < n PROVE m + 1 \in S
  <2>1. m + 1 \in 1..n /\ 1..(m + 1) = (1..m) \cup {m + 1} /\ v[m + 1] \in Nat
    BY <1>2
  <2>2. CASE m = 0
    <3>1. \A k \in 1..1 : k = 1
      OBVIOUS
    <3>2. v[1] <= v[1] /\ 1 \in 1..1 /\ m + 1 = 1
      BY <2>1, <2>2
    <3>3. QED BY <2>1, <2>2, <3>1, <3>2
  <2>3. CASE \E i \in 1..m : \A k \in 1..m : v[k] <= v[i]
    <3>1. PICK i \in 1..m : \A k \in 1..m : v[k] <= v[i]
      BY <2>3
    <3>2. i \in 1..n /\ v[i] \in Nat /\ \A k \in 1..m : v[k] \in Nat
      BY <1>2
    <3>3. CASE v[m + 1] <= v[i]
      <4>1. i \in 1..(m + 1) /\ \A k \in 1..(m + 1) : v[k] <= v[i]
        BY <2>1, <3>1, <3>3
      <4>2. QED BY <2>1, <4>1
    <3>4. CASE ~(v[m + 1] <= v[i])
      <4>1. \A k \in 1..m : v[k] <= v[m + 1]
        <5>1. v[i] <= v[m + 1]
          BY <2>1, <3>2, <3>4
        <5>2. TAKE k \in 1..m
        <5>3. v[k] <= v[i] /\ v[k] \in Nat
          BY <3>1, <3>2
        <5>4. QED BY <2>1, <3>2, <5>1, <5>3
      <4>2. m + 1 \in 1..(m + 1) /\ \A k \in 1..(m + 1) : v[k] <= v[m + 1]
        BY <2>1, <4>1
      <4>3. QED BY <2>1, <4>2
    <3>5. QED BY <3>3, <3>4
  <2>4. QED BY <1>2, <2>2, <2>3
<1> HIDE DEF S
<1>3. n \in S
  <2>1. 0..n \subseteq S
    BY <1>1, <1>2, UpTo
  <2>2. QED BY <2>1
<1>4. \E i \in 1..n : \A k \in 1..n : v[k] <= v[i]
  BY <1>3 DEF S
<1>5. \E i \in 1..n : \A k \in 1..n : v[i] <= v[k]
  <2> DEFINE V == {v[i] : i \in 1..n}
  <2>1. V \in SUBSET Nat /\ v[1] \in V
    OBVIOUS
  <2>2. PICK m \in V : \A x \in V : m <= x
    <3> HIDE DEF V
    <3>1. QED BY <2>1, LeastNat
  <2>3. QED BY <2>2
<1>6. QED BY <1>4, <1>5

\* Every date is a number.
Dates(D, field) == \A d \in D : Day[d.data[field]] \in Nat

\* A latest first date and an earliest second date are compared, so the rule
\* hits just if some first date is after some second one.
LEMMA DateOrderMeans ==
    ASSUME NEW D, NEW docs \in Seq(D), NEW r, Dates(D, r.field), Dates(D, r.field2)
    PROVE  DateOrder(r, docs).hit <=>
             \E d, e \in ToSet(docs) :
               /\ d.type \in Counted(r.type) /\ e.type \in Counted(r.type2)
               /\ Day[d.data[r.field]] # 0 /\ Day[e.data[r.field2]] # 0
               /\ Day[d.data[r.field]] > Day[e.data[r.field2]]
<1> DEFINE DayOf(d, field) == Day[d.data[field]]
           Dated(s, field) == Chosen(s, {i \in DOMAIN s : DayOf(s[i], field) # 0}, Len(s))
           ones == Dated(Entries(docs, r.type), r.field)
           twos == Dated(Entries(docs, r.type2), r.field2)
           late == {i \in DOMAIN ones : \A k \in DOMAIN ones :
                      DayOf(ones[k], r.field) <= DayOf(ones[i], r.field)}
           early == {i \in DOMAIN twos : \A k \in DOMAIN twos :
                       DayOf(twos[i], r.field2) <= DayOf(twos[k], r.field2)}
           latest == ones[Min(late)]
           earliest == twos[Min(early)]
<1>1. DateOrder(r, docs).hit <=>
        ones # <<>> /\ twos # <<>> /\ DayOf(latest, r.field) > DayOf(earliest, r.field2)
  BY DEF DateOrder
<1>2. ASSUME NEW s \in Seq(D), NEW field
      PROVE  Dated(s, field) \in Seq(D) /\ ToSet(Dated(s, field)) = {d \in ToSet(s) : DayOf(d, field) # 0}
  <2> DEFINE S == {d \in ToSet(s) : DayOf(d, field) # 0}
             c == Chosen(s, {i \in DOMAIN s : s[i] \in S}, Len(s))
  <2>1. {i \in DOMAIN s : DayOf(s[i], field) # 0} = {i \in DOMAIN s : s[i] \in S}
    BY DEF ToSet
  <2>2. Dated(s, field) = c
    BY <2>1
  <2>3. ToSet(s) \cap S = S
    OBVIOUS
  <2> HIDE DEF S
  <2>4. c \in Seq(D) /\ ToSet(c) = ToSet(s) \cap S
    BY ChosenSet
  <2> HIDE DEF c, Dated
  <2>5. Dated(s, field) \in Seq(D) /\ ToSet(Dated(s, field)) = S
    BY <2>2, <2>3, <2>4
  <2>6. QED BY <2>5 DEF S
<1>3. ASSUME NEW t, NEW field
      PROVE  /\ Dated(Entries(docs, t), field) \in Seq(D)
             /\ ToSet(Dated(Entries(docs, t), field)) =
                  {d \in ToSet(docs) : d.type \in Counted(t) /\ DayOf(d, field) # 0}
  <2>1. /\ Entries(docs, t) \in Seq(D)
        /\ ToSet(Entries(docs, t)) = {d \in ToSet(docs) : d.type \in Counted(t)}
    BY EntriesSet
  <2> HIDE DEF Dated
  <2>2. QED BY <1>2, <2>1
<1>4. /\ ones \in Seq(D) /\ twos \in Seq(D)
      /\ ToSet(ones) = {d \in ToSet(docs) : d.type \in Counted(r.type) /\ DayOf(d, r.field) # 0}
      /\ ToSet(twos) = {d \in ToSet(docs) : d.type \in Counted(r.type2) /\ DayOf(d, r.field2) # 0}
  <2> HIDE DEF Dated
  <2>1. QED BY <1>3
<1> HIDE DEF Dated, ones, twos
<1>5. /\ \A i \in DOMAIN ones : i \in Nat /\ DayOf(ones[i], r.field) \in Nat
      /\ \A i \in DOMAIN twos : i \in Nat /\ DayOf(twos[i], r.field2) \in Nat
  <2>1. /\ \A i \in DOMAIN ones : i \in Nat /\ ones[i] \in D
        /\ \A i \in DOMAIN twos : i \in Nat /\ twos[i] \in D
    BY <1>4
  <2>2. QED BY <2>1 DEF Dates
<1>6. ASSUME ones # <<>>
      PROVE  latest \in ToSet(ones) /\ \A d \in ToSet(ones) : DayOf(d, r.field) <= DayOf(latest, r.field)
  <2>1. Len(ones) \in Nat \ {0} /\ DOMAIN ones = 1..Len(ones)
    BY <1>4, <1>6, EmptyList
  <2> DEFINE v == [i \in 1..Len(ones) |-> DayOf(ones[i], r.field)]
  <2>2. \A i \in 1..Len(ones) : v[i] \in Nat
    BY <1>5, <2>1
  <2>3. PICK i \in 1..Len(ones) : \A k \in 1..Len(ones) : v[k] <= v[i]
    <3> HIDE DEF v
    <3>1. QED BY <2>1, <2>2, Extremes
  <2>4. i \in late /\ late \in SUBSET Nat
    BY <1>5, <2>1, <2>3
  <2>5. Min(late) \in late
    <3> HIDE DEF late
    <3>1. QED BY <2>4, LeastOf
  <2>6. QED BY <2>5 DEF ToSet
<1>7. ASSUME twos # <<>>
      PROVE  earliest \in ToSet(twos) /\ \A d \in ToSet(twos) : DayOf(earliest, r.field2) <= DayOf(d, r.field2)
  <2>1. Len(twos) \in Nat \ {0} /\ DOMAIN twos = 1..Len(twos)
    BY <1>4, <1>7, EmptyList
  <2> DEFINE v == [i \in 1..Len(twos) |-> DayOf(twos[i], r.field2)]
  <2>2. \A i \in 1..Len(twos) : v[i] \in Nat
    BY <1>5, <2>1
  <2>3. PICK i \in 1..Len(twos) : \A k \in 1..Len(twos) : v[i] <= v[k]
    <3> HIDE DEF v
    <3>1. QED BY <2>1, <2>2, Extremes
  <2>4. i \in early /\ early \in SUBSET Nat
    BY <1>5, <2>1, <2>3
  <2>5. Min(early) \in early
    <3> HIDE DEF early
    <3>1. QED BY <2>4, LeastOf
  <2>6. QED BY <2>5 DEF ToSet
<1> HIDE DEF late, early, latest, earliest
<1>8. ones # <<>> <=> ToSet(ones) # {}
  BY <1>4, EmptyList
<1>9. twos # <<>> <=> ToSet(twos) # {}
  BY <1>4, EmptyList
<1>10. /\ \A d \in ToSet(ones) : DayOf(d, r.field) \in Nat
       /\ \A d \in ToSet(twos) : DayOf(d, r.field2) \in Nat
  BY <1>5 DEF ToSet
<1>11. ASSUME NEW d \in ToSet(ones), NEW e \in ToSet(twos), DayOf(d, r.field) > DayOf(e, r.field2)
       PROVE  DateOrder(r, docs).hit
  <2>1. ones # <<>> /\ twos # <<>>
    BY <1>8, <1>9
  <2>2. DayOf(d, r.field) <= DayOf(latest, r.field) /\ DayOf(earliest, r.field2) <= DayOf(e, r.field2)
    BY <1>6, <1>7, <2>1
  <2>3. /\ DayOf(d, r.field) \in Nat /\ DayOf(e, r.field2) \in Nat
        /\ DayOf(latest, r.field) \in Nat /\ DayOf(earliest, r.field2) \in Nat
    BY <1>6, <1>7, <1>10, <2>1
  <2>4. DayOf(latest, r.field) > DayOf(earliest, r.field2)
    BY <1>11, <2>2, <2>3
  <2>5. QED BY <1>1, <2>1, <2>4
<1>12. ASSUME DateOrder(r, docs).hit
       PROVE  \E d \in ToSet(ones), e \in ToSet(twos) : DayOf(d, r.field) > DayOf(e, r.field2)
  BY <1>1, <1>6, <1>7, <1>12
<1>13. QED BY <1>4, <1>11, <1>12

\* The names in a list of documents are finitely many.
LEMMA NamesFinite ==
    ASSUME NEW D, NEW docs \in Seq(D), NEW field
    PROVE  IsFiniteSet({Text[d.data[field]] : d \in ToSet(docs)} \ {"none"})
<1> DEFINE N == {Text[d.data[field]] : d \in ToSet(docs)}
           f == [i \in 1..Len(docs) |-> Text[docs[i].data[field]]]
<1>1. Len(docs) \in Nat /\ DOMAIN docs = 1..Len(docs)
  OBVIOUS
<1>2. f \in Surjection(1..Len(docs), N)
  BY <1>1 DEF ToSet, Surjection
<1>3. IsFiniteSet(1..Len(docs))
  BY <1>1, FS_Interval
<1> HIDE DEF f
<1>4. IsFiniteSet(N)
  BY <1>2, <1>3, FS_Surjection
<1> HIDE DEF N
<1>5. IsFiniteSet(N \ {"none"})
  BY <1>4, FS_RemoveElement
<1>6. QED BY <1>5 DEF N

\* More documents have at least the defects of fewer, and at least their types.
LEMMA MoreDocuments ==
    ASSUME NEW D, NEW docs \in Seq(D), NEW fewer \in Seq(D), ToSet(fewer) \subseteq ToSet(docs),
           NEW r, r.logic = "date_order" => Dates(D, r.field) /\ Dates(D, r.field2)
    PROVE  /\ r.logic \in OfDocuments => (Verdict(r, fewer).hit => Verdict(r, docs).hit)
           /\ r.logic = "require_doc_type" => (Verdict(r, docs).hit => Verdict(r, fewer).hit)
<1>1. \A t : ToSet(Entries(fewer, t)) \subseteq ToSet(Entries(docs, t))
  BY EntriesSet
<1>2. ASSUME r.logic = "require_doc_type", Verdict(r, docs).hit
      PROVE  Verdict(r, fewer).hit
  <2>1. Entries(docs, r.type) = <<>>
    BY <1>2 DEF Verdict, Presence
  <2>2. Entries(fewer, r.type) = <<>>
    <3>1. Entries(docs, r.type) \in Seq(D) /\ Entries(fewer, r.type) \in Seq(D)
      BY EntriesSet
    <3>2. ToSet(Entries(docs, r.type)) = {}
      BY <2>1, <3>1, EmptyList
    <3>3. ToSet(Entries(fewer, r.type)) = {}
      BY <1>1, <3>2
    <3>4. QED BY <3>1, <3>3, EmptyList
  <2>3. QED BY <1>2, <2>2 DEF Verdict, Presence
<1>3. ASSUME NEW S, NEW T \in SUBSET S
      PROVE  OfDocs(T).hit => OfDocs(S).hit
  BY DEF OfDocs, Defects
<1>4. ASSUME r.logic = "require_field", Verdict(r, fewer).hit
      PROVE  Verdict(r, docs).hit
  <2> DEFINE Bad(l) == {d \in ToSet(Entries(l, r.type)) : d.data[r.field] = "none"}
  <2>1. Bad(fewer) \subseteq Bad(docs)
    BY <1>1
  <2>2. \A l : Verdict(r, l) = OfDocs(Bad(l))
    BY <1>4 DEF Verdict, RequiredField
  <2> HIDE DEF Bad
  <2>3. QED BY <1>3, <1>4, <2>1, <2>2
<1>5. ASSUME r.logic = "date_not_expired", Verdict(r, fewer).hit
      PROVE  Verdict(r, docs).hit
  <2> DEFINE Bad(l) == {d \in ToSet(Entries(l, r.type)) : Day[d.data[r.field]] \in 1..(Today - 1)}
  <2>1. Bad(fewer) \subseteq Bad(docs)
    BY <1>1
  <2>2. \A l : Verdict(r, l) = OfDocs(Bad(l))
    BY <1>5 DEF Verdict, NotExpired
  <2> HIDE DEF Bad
  <2>3. QED BY <1>3, <1>5, <2>1, <2>2
<1>6. ASSUME r.logic = "jsa_control_completeness", Verdict(r, fewer).hit
      PROVE  Verdict(r, docs).hit
  <2> DEFINE Poor(d) == \/ Length[d.data.hazards] = 0 \/ Length[d.data.controls] = 0
                        \/ Length[d.data.controls] < Length[d.data.hazards] \/ LowSpecificity(d.data)
             Bad(l) == {d \in ToSet(Entries(l, "jsa")) : Poor(d)}
  <2>1. Bad(fewer) \subseteq Bad(docs)
    BY <1>1
  <2>2. \A l : Verdict(r, l) = OfDocs(Bad(l))
    BY <1>6 DEF Verdict, JsaComplete
  <2> HIDE DEF Bad
  <2>3. QED BY <1>3, <1>6, <2>1, <2>2
<1>7. ASSUME NEW field, Consistent(field, fewer).hit PROVE Consistent(field, docs).hit
  <2> DEFINE N(l) == {Text[d.data[field]] : d \in ToSet(l)} \ {"none"}
  <2>1. \A l : Consistent(field, l).hit <=> Cardinality(N(l)) > 1
    BY DEF Consistent
  <2>2. N(fewer) \subseteq N(docs)
    OBVIOUS
  <2>3. IsFiniteSet(N(docs))
    BY NamesFinite
  <2> HIDE DEF N
  <2>4. /\ Cardinality(N(fewer)) <= Cardinality(N(docs))
        /\ Cardinality(N(fewer)) \in Nat /\ Cardinality(N(docs)) \in Nat
    BY <2>2, <2>3, FS_Subset, FS_CardinalityType
  <2>5. QED BY <1>7, <2>1, <2>4
<1>8. ASSUME r.logic \in {"project_name_consistency", "contractor_name_consistency"}, Verdict(r, fewer).hit
      PROVE  Verdict(r, docs).hit
  BY <1>7, <1>8 DEF Verdict
<1>9. ASSUME r.logic = "date_order", Verdict(r, fewer).hit
      PROVE  Verdict(r, docs).hit
  <2>1. \A l : Verdict(r, l) = DateOrder(r, l)
    BY <1>9 DEF Verdict
  <2>2. QED BY <1>9, <2>1, DateOrderMeans
<1>10. QED BY <1>2, <1>4, <1>5, <1>6, <1>8, <1>9 DEF OfDocuments

-----------------------------------------------------------------------------
(* The people *)

\* Two documents are of one person just if their keys are the same.
LEMMA KeysTell ==
    ASSUME NEW d, NEW e
    PROVE  SamePerson(d, e) <=> PersonKey(d.data) = PersonKey(e.data)
<1>1. \A a, b, x : <<"id", a>> # <<"name_role", b, x>>
  OBVIOUS
<1>2. \A a, b : <<"id", a>> = <<"id", b>> <=> a = b
  OBVIOUS
<1>3. \A a, b, x, y : <<"name_role", a, b>> = <<"name_role", x, y>> <=> a = x /\ b = y
  OBVIOUS
<1>4. CASE Normal[d.data.id_no] # "none" /\ Normal[e.data.id_no] # "none"
  BY <1>2, <1>4 DEF SamePerson, PersonKey
<1>5. CASE Normal[d.data.id_no] # "none" /\ Normal[e.data.id_no] = "none"
  BY <1>1, <1>5 DEF SamePerson, PersonKey
<1>6. CASE Normal[d.data.id_no] = "none" /\ Normal[e.data.id_no] # "none"
  BY <1>1, <1>6 DEF SamePerson, PersonKey
<1>7. CASE Normal[d.data.id_no] = "none" /\ Normal[e.data.id_no] = "none"
  BY <1>3, <1>7 DEF SamePerson, PersonKey
<1>8. QED BY <1>4, <1>5, <1>6, <1>7

\* The documents in D of the person with a key, and the roles that those from
\* one source give him.
OfPerson(D, key) == {d \in D : d.data.person_name # "none" /\ PersonKey(d.data) = key}
RolesOf(D, key, s) == {Normal[d.data.role] : d \in {e \in OfPerson(D, key) : Source(e.type) = s}} \ {"none"}

\* What the accumulator holds of a person after the documents in D.
Described(p, D, key) ==
    /\ p = [key |-> key, roles |-> p.roles, chain |-> p.chain, files |-> p.files]
    /\ p.roles = [s \in Chain |-> p.roles[s]]
    /\ p.chain = {Source(d.type) : d \in OfPerson(D, key)} \cap Chain
    /\ \A s \in Chain : \/ p.roles[s] \in RolesOf(D, key, s)
                        \/ p.roles[s] = "none" /\ RolesOf(D, key, s) = {}

\* The accumulator after the documents in D: one entry for every person.
Census(P, D) ==
    /\ \A p \in P : Described(p, D, p.key) /\ OfPerson(D, p.key) # {}
    /\ \A p, q \in P : p.key = q.key => p = q
    /\ \A key : OfPerson(D, key) # {} => \E p \in P : p.key = key

\* A description is about the documents of the person only.
LEMMA SameDocuments ==
    ASSUME NEW D, NEW E, NEW key, OfPerson(E, key) = OfPerson(D, key), NEW p, Described(p, D, key)
    PROVE  Described(p, E, key)
<1>1. \A s : RolesOf(E, key, s) = RolesOf(D, key, s)
  BY DEF RolesOf
<1>2. {Source(d.type) : d \in OfPerson(E, key)} = {Source(d.type) : d \in OfPerson(D, key)}
  OBVIOUS
<1>3. QED BY <1>1, <1>2, Zenon DEF Described

LEMMA KnownPerson ==
    ASSUME NEW P, NEW D, Census(P, D), NEW key
    PROVE  /\ Described(Known(P, key), D, key)
           /\ \A p \in P : p.key = key <=> p = Known(P, key)
<1>1. CASE \E p \in P : p.key = key
  <2>1. Known(P, key) \in P /\ Known(P, key).key = key
    BY <1>1 DEF Known
  <2>2. QED BY <2>1 DEF Census
<1>2. CASE \A p \in P : p.key # key
  <2> DEFINE k == [key |-> key, roles |-> [s \in Chain |-> "none"], chain |-> {}, files |-> {}]
  <2>1. Known(P, key) = k
    BY <1>2 DEF Known
  <2>2. OfPerson(D, key) = {} /\ \A s : RolesOf(D, key, s) = {}
    <3>1. OfPerson(D, key) = {}
      BY <1>2 DEF Census
    <3>2. QED BY <3>1 DEF RolesOf
  <2>3. /\ k = [key |-> key, roles |-> k.roles, chain |-> k.chain, files |-> k.files]
        /\ k.roles = [s \in Chain |-> k.roles[s]] /\ k.chain = {} /\ k.key = key
        /\ \A s \in Chain : k.roles[s] = "none"
    OBVIOUS
  <2> HIDE DEF k
  <2>4. Described(k, D, key)
    BY <2>2, <2>3 DEF Described
  <2>5. QED BY <1>2, <2>1, <2>3, <2>4
<1>3. QED BY <1>1, <1>2

\* One document more of a person.
LEMMA OneMore ==
    ASSUME NEW D, NEW d, d.data.person_name # "none", NEW key, key = PersonKey(d.data),
           NEW old, Described(old, D, key),
           NEW new, new = [old EXCEPT
                  !.roles = [s \in Chain |-> IF s = Source(d.type) /\ Normal[d.data.role] # "none"
                                             THEN Normal[d.data.role] ELSE @[s]],
                  !.chain = @ \cup ({Source(d.type)} \cap Chain),
                  !.files = @ \cup {d.file}]
    PROVE  Described(new, D \cup {d}, key)
<1>1. OfPerson(D \cup {d}, key) = OfPerson(D, key) \cup {d}
  BY DEF OfPerson
<1>2. /\ new = [key |-> key, roles |-> new.roles, chain |-> new.chain, files |-> new.files]
      /\ new.roles = [s \in Chain |-> IF s = Source(d.type) /\ Normal[d.data.role] # "none"
                                      THEN Normal[d.data.role] ELSE old.roles[s]]
      /\ new.chain = old.chain \cup ({Source(d.type)} \cap Chain)
  <2>1. PICK a, b, c : old = [key |-> key, roles |-> a, chain |-> b, files |-> c]
    BY DEF Described
  <2>2. old.roles = a /\ old.chain = b /\ old.files = c
    BY <2>1
  <2> DEFINE A == [s \in Chain |-> IF s = Source(d.type) /\ Normal[d.data.role] # "none"
                                   THEN Normal[d.data.role] ELSE a[s]]
             B == b \cup ({Source(d.type)} \cap Chain)
             C == c \cup {d.file}
  <2>3. new = [key |-> key, roles |-> A, chain |-> B, files |-> C]
    BY <2>1
  <2>4. /\ new = [key |-> key, roles |-> new.roles, chain |-> new.chain, files |-> new.files]
        /\ new.roles = A /\ new.chain = B
    <3> HIDE DEF A, B, C
    <3>1. QED BY ONLY <2>3
  <2>5. QED BY <2>2, <2>4
<1>3. new.chain = {Source(e.type) : e \in OfPerson(D \cup {d}, key)} \cap Chain
  <2> DEFINE X == {Source(e.type) : e \in OfPerson(D, key)}
             Y == {Source(e.type) : e \in OfPerson(D \cup {d}, key)}
  <2>1. Y = X \cup {Source(d.type)}
    BY <1>1
  <2>2. old.chain = X \cap Chain
    BY DEF Described
  <2> HIDE DEF X, Y
  <2>3. new.chain = Y \cap Chain
    BY <1>2, <2>1, <2>2
  <2>4. QED BY <2>3 DEF Y
<1>4. ASSUME NEW s \in Chain
      PROVE  \/ new.roles[s] \in RolesOf(D \cup {d}, key, s)
             \/ new.roles[s] = "none" /\ RolesOf(D \cup {d}, key, s) = {}
  <2>1. RolesOf(D \cup {d}, key, s) =
          RolesOf(D, key, s) \cup (IF Source(d.type) = s THEN {Normal[d.data.role]} \ {"none"} ELSE {})
    BY <1>1 DEF RolesOf
  <2>2. new.roles[s] = IF s = Source(d.type) /\ Normal[d.data.role] # "none"
                       THEN Normal[d.data.role] ELSE old.roles[s]
    BY <1>2
  <2>3. \/ old.roles[s] \in RolesOf(D, key, s)
        \/ old.roles[s] = "none" /\ RolesOf(D, key, s) = {}
    BY DEF Described
  <2>4. QED BY <2>1, <2>2, <2>3
<1>5. new.roles = [s \in Chain |-> new.roles[s]]
  BY <1>2
<1>6. QED BY <1>2, <1>3, <1>4, <1>5 DEF Described

LEMMA CensusGrows ==
    ASSUME NEW P, NEW D, Census(P, D), NEW d
    PROVE  Census(Accumulated(P, d), D \cup {d})
<1> DEFINE key == PersonKey(d.data)
           old == Known(P, key)
           new == [old EXCEPT
                  !.roles = [s \in Chain |-> IF s = Source(d.type) /\ Normal[d.data.role] # "none"
                                             THEN Normal[d.data.role] ELSE @[s]],
                  !.chain = @ \cup ({Source(d.type)} \cap Chain),
                  !.files = @ \cup {d.file}]
<1>1. CASE d.data.person_name = "none"
  <2>1. Accumulated(P, d) = P
    BY <1>1 DEF Accumulated
  <2>2. \A k : OfPerson(D \cup {d}, k) = OfPerson(D, k)
    BY <1>1 DEF OfPerson
  <2>3. \A p \in P : Described(p, D \cup {d}, p.key)
    BY <2>2, SameDocuments DEF Census
  <2>4. QED BY <2>1, <2>2, <2>3 DEF Census
<1>2. CASE d.data.person_name # "none"
  <2>1. Accumulated(P, d) = (P \ {old}) \cup {new}
    BY <1>2 DEF Accumulated
  <2>2. Described(old, D, key) /\ \A p \in P : p.key = key <=> p = old
    BY KnownPerson
  <2>3. Described(new, D \cup {d}, key)
    BY <1>2, <2>2, OneMore
  <2>4. d \in OfPerson(D \cup {d}, key)
    BY <1>2 DEF OfPerson
  <2>5. \A k : k # key => OfPerson(D \cup {d}, k) = OfPerson(D, k)
    BY DEF OfPerson
  <2> HIDE DEF key, old, new
  <2>6. new.key = key
    BY <2>3 DEF Described
  <2>7. \A p \in P \ {old} : p.key # key /\ Described(p, D \cup {d}, p.key) /\ OfPerson(D \cup {d}, p.key) # {}
    <3>1. TAKE p \in P \ {old}
    <3>2. p.key # key /\ OfPerson(D \cup {d}, p.key) = OfPerson(D, p.key)
      BY <2>2, <2>5
    <3>3. Described(p, D, p.key) /\ OfPerson(D, p.key) # {}
      BY DEF Census
    <3>4. Described(p, D \cup {d}, p.key)
      BY <3>2, <3>3, SameDocuments
    <3>5. QED BY <3>2, <3>3, <3>4
  <2>8. ASSUME NEW k, OfPerson(D \cup {d}, k) # {} PROVE \E p \in (P \ {old}) \cup {new} : p.key = k
    <3>1. CASE k = key
      BY <2>6, <3>1
    <3>2. CASE k # key
      <4>1. PICK p \in P : p.key = k
        BY <2>5, <2>8, <3>2 DEF Census
      <4>2. p \in P \ {old}
        BY <2>2, <3>2, <4>1
      <4>3. QED BY <4>1, <4>2
    <3>3. QED BY <3>1, <3>2
  <2>9. \A p, q \in (P \ {old}) \cup {new} : p.key = q.key => p = q
    BY <2>6, <2>7 DEF Census
  <2>10. \A p \in (P \ {old}) \cup {new} : Described(p, D \cup {d}, p.key) /\ OfPerson(D \cup {d}, p.key) # {}
    BY <2>3, <2>4, <2>6, <2>7
  <2>11. QED BY <2>1, <2>8, <2>9, <2>10 DEF Census
<1>3. QED BY <1>1, <1>2

\* The accumulator, document by document.
Counting(docs, n, f) ==
    f = [k \in 0..n |-> IF k = 0 THEN {} ELSE Accumulated(f[k - 1], docs[k])]

LEMMA CountingStep ==
    ASSUME NEW docs, NEW n \in Nat, NEW f, Counting(docs, n, f)
    PROVE  /\ f[0] = {}
           /\ \A k \in 1..n : f[k] = Accumulated(f[k - 1], docs[k])
<1>1. \A k \in 0..n : f[k] = IF k = 0 THEN {} ELSE Accumulated(f[k - 1], docs[k])
  BY Zenon DEF Counting
<1>2. 0 \in 0..n /\ \A k \in 1..n : k \in 0..n /\ k # 0
  OBVIOUS
<1>3. QED BY <1>1, <1>2, Zenon

LEMMA CountingExists ==
    ASSUME NEW n \in Nat, NEW docs
    PROVE  \E f : Counting(docs, n, f)
<1> DEFINE S == {m \in 0..n : \E f : Counting(docs, m, f)}
<1>1. 0 \in S
  <2>1. Counting(docs, 0, [k \in 0..0 |-> {}])
    BY DEF Counting
  <2>2. QED BY <2>1
<1>2. ASSUME NEW m \in 0..n, m \in S, m < n PROVE m + 1 \in S
  <2>1. PICK f : Counting(docs, m, f)
    BY <1>2
  <2> DEFINE g == [k \in 0..(m + 1) |-> IF k <= m THEN f[k] ELSE Accumulated(f[k - 1], docs[k])]
  <2>2. ASSUME NEW k \in 0..(m + 1)
        PROVE  g[k] = IF k = 0 THEN {} ELSE Accumulated(g[k - 1], docs[k])
    <3>1. CASE k = 0
      <4>1. f[0] = {} /\ g[0] = f[0]
        BY <2>1, CountingStep
      <4>2. QED BY <3>1, <4>1
    <3>2. CASE k \in 1..m
      <4>1. f[k] = Accumulated(f[k - 1], docs[k])
        BY <2>1, <3>2, CountingStep
      <4>2. g[k] = f[k] /\ g[k - 1] = f[k - 1]
        BY <3>2
      <4>3. QED BY <3>2, <4>1, <4>2
    <3>3. CASE k = m + 1
      <4>1. g[k - 1] = f[k - 1] /\ k # 0 /\ ~(k <= m)
        BY <3>3
      <4>2. QED BY <4>1
    <3>4. QED BY <3>1, <3>2, <3>3
  <2>3. g = [k \in 0..(m + 1) |-> IF k = 0 THEN {} ELSE Accumulated(g[k - 1], docs[k])]
    <3>1. g = [k \in 0..(m + 1) |-> g[k]]
      OBVIOUS
    <3> HIDE DEF g
    <3>2. QED BY <2>2, <3>1
  <2> HIDE DEF g
  <2>4. Counting(docs, m + 1, g)
    BY <2>3 DEF Counting
  <2>5. QED BY <1>2, <2>4
<1> HIDE DEF S
<1>3. 0..n \subseteq S
  BY <1>1, <1>2, UpTo
<1>4. n \in S
  BY <1>3
<1>5. QED BY <1>4 DEF S

\* The accumulator has counted every person of the documents.
LEMMA PeopleCounted ==
    ASSUME NEW D, NEW docs \in Seq(D)
    PROVE  Census(People(docs), ToSet(docs))
<1> DEFINE n == Len(docs)
           f == CHOOSE g : Counting(docs, n, g)
           Prefix(k) == {docs[i] : i \in 1..k}
           S == {k \in 0..n : Census(f[k], Prefix(k))}
<1>1. n \in Nat /\ DOMAIN docs = 1..n
  OBVIOUS
<1>2. People(docs) = f[n]
  BY DEF People, Counting
<1>3. Counting(docs, n, f)
  BY <1>1, CountingExists
<1> HIDE DEF f, n
<1>4. f[0] = {} /\ \A k \in 1..n : f[k] = Accumulated(f[k - 1], docs[k])
  BY <1>1, <1>3, CountingStep
<1>5. 0 \in S
  <2>1. Prefix(0) = {} /\ 0 \in 0..n
    BY <1>1
  <2>2. Census({}, {})
    BY DEF Census, OfPerson
  <2>3. QED BY <1>4, <2>1, <2>2
<1>6. ASSUME NEW k \in 0..n, k \in S, k < n PROVE k + 1 \in S
  <2>1. k + 1 \in 1..n /\ (k + 1) - 1 = k /\ 1..(k + 1) = (1..k) \cup {k + 1}
    BY <1>1, <1>6
  <2>2. f[k + 1] = Accumulated(f[k], docs[k + 1])
    BY <1>4, <2>1
  <2>3. Prefix(k + 1) = Prefix(k) \cup {docs[k + 1]}
    BY <2>1
  <2>4. Census(f[k], Prefix(k))
    BY <1>6
  <2> HIDE DEF Prefix
  <2>5. Census(f[k + 1], Prefix(k + 1))
    BY <2>2, <2>3, <2>4, CensusGrows
  <2>6. QED BY <1>1, <2>1, <2>5
<1> HIDE DEF S
<1>7. n \in S
  <2>1. 0..n \subseteq S
    BY <1>1, <1>5, <1>6, UpTo
  <2>2. QED BY <1>1, <2>1
<1>8. Census(f[n], Prefix(n))
  BY <1>7 DEF S
<1>9. Prefix(n) = ToSet(docs)
  BY <1>1 DEF ToSet
<1> HIDE DEF Prefix
<1>10. QED BY <1>2, <1>8, <1>9

\* A rule on people hits if it finds someone.
LEMMA SomeoneBad == ASSUME NEW bad PROVE OfPeople(bad).hit <=> bad # {}
BY DEF OfPeople, Defects

\* The rules on people mean what they should, of any documents.
LEMMA PeopleRules ==
    ASSUME NEW D, NEW docs \in Seq(D)
    PROVE  LET named == {d \in ToSet(docs) : d.data.person_name # "none"}
               Of(s) == {d \in named : Source(d.type) = s}
               conflict == \E q \in Of("qualification"), p \in Of("permit") : RolesDiffer(q, p)
               single == \A d, e \in named :
                           SamePerson(d, e) /\ Source(d.type) = Source(e.type) => d = e
           IN  /\ TrainingClosed(docs).hit <=>
                    \E p \in Of("permit") : \A t \in Of("training") : ~SamePerson(p, t)
               /\ ChainComplete(docs).hit <=>
                    \E d \in named, c \in Chain : \A e \in Of(c) : ~SamePerson(d, e)
               /\ RoleConsistent(docs).hit => conflict
               /\ single /\ conflict => RoleConsistent(docs).hit
<1> DEFINE T == ToSet(docs)
           named == {d \in T : d.data.person_name # "none"}
           Of(s) == {d \in named : Source(d.type) = s}
           conflict == \E q \in Of("qualification"), p \in Of("permit") : RolesDiffer(q, p)
           single == \A d, e \in named :
                       SamePerson(d, e) /\ Source(d.type) = Source(e.type) => d = e
           P == People(docs)
<1>1. Census(P, T)
  BY PeopleCounted
<1> HIDE DEF T, P
<1>2. ASSUME NEW x \in P
      PROVE  /\ \A s \in Chain : s \in x.chain <=> \E d \in Of(s) : PersonKey(d.data) = x.key
             /\ x.chain \subseteq Chain
             /\ \E d \in named : PersonKey(d.data) = x.key
  <2>1. OfPerson(T, x.key) = {d \in named : PersonKey(d.data) = x.key}
    BY DEF OfPerson
  <2>2. x.chain = {Source(d.type) : d \in OfPerson(T, x.key)} \cap Chain /\ OfPerson(T, x.key) # {}
    BY <1>1 DEF Census, Described
  <2>3. \A s : s \in {Source(d.type) : d \in OfPerson(T, x.key)}
              <=> \E d \in Of(s) : PersonKey(d.data) = x.key
    BY <2>1
  <2>4. QED BY <2>1, <2>2, <2>3
<1>3. ASSUME NEW d \in named PROVE \E x \in P : x.key = PersonKey(d.data)
  BY <1>1 DEF Census, OfPerson
<1>4. TrainingClosed(docs).hit <=> \E p \in Of("permit") : \A t \in Of("training") : ~SamePerson(p, t)
  <2>1. TrainingClosed(docs).hit <=> \E x \in P : "permit" \in x.chain /\ "training" \notin x.chain
    BY SomeoneBad DEF TrainingClosed, P
  <2>2. \A x \in P : /\ "permit" \in x.chain <=> \E p \in Of("permit") : PersonKey(p.data) = x.key
                     /\ "training" \in x.chain <=> \E t \in Of("training") : PersonKey(t.data) = x.key
    BY <1>2 DEF Chain
  <2>3. \A p, t : SamePerson(p, t) <=> PersonKey(p.data) = PersonKey(t.data)
    BY KeysTell
  <2>4. Of("permit") \subseteq named
    OBVIOUS
  <2> HIDE DEF named, Of
  <2>5. QED BY <1>3, <2>1, <2>2, <2>3, <2>4
<1>5. ChainComplete(docs).hit <=> \E d \in named, c \in Chain : \A e \in Of(c) : ~SamePerson(d, e)
  <2>1. ChainComplete(docs).hit <=> \E x \in P : x.chain # Chain
    BY SomeoneBad DEF ChainComplete, P
  <2>2. \A x \in P : x.chain # Chain <=> \E c \in Chain : c \notin x.chain
    BY <1>2
  <2>3. \A p, t : SamePerson(p, t) <=> PersonKey(p.data) = PersonKey(t.data)
    BY KeysTell
  <2> HIDE DEF named, Of
  <2>4. QED BY <1>2, <1>3, <2>1, <2>2, <2>3
<1>6. /\ RoleConsistent(docs).hit => conflict
      /\ single /\ conflict => RoleConsistent(docs).hit
  <2> DEFINE Two(x) == /\ x.roles["qualification"] # "none" /\ x.roles["permit"] # "none"
                       /\ Text[x.roles["qualification"]] # Text[x.roles["permit"]]
  <2>1. RoleConsistent(docs).hit <=> \E x \in P : Two(x)
    BY SomeoneBad DEF RoleConsistent, P
  <2>2. ASSUME NEW x \in P, NEW s \in Chain
        PROVE  /\ x.roles[s] # "none" =>
                    \E d \in Of(s) : PersonKey(d.data) = x.key /\ Normal[d.data.role] = x.roles[s]
               /\ (\E d \in Of(s) : PersonKey(d.data) = x.key /\ Normal[d.data.role] # "none")
                    => x.roles[s] # "none"
    <3>1. \/ x.roles[s] \in RolesOf(T, x.key, s)
          \/ x.roles[s] = "none" /\ RolesOf(T, x.key, s) = {}
      BY <1>1 DEF Census, Described
    <3>2. RolesOf(T, x.key, s) = {Normal[d.data.role] : d \in {e \in Of(s) : PersonKey(e.data) = x.key}} \ {"none"}
      BY DEF RolesOf, OfPerson
    <3>3. QED BY <3>1, <3>2
  <2>3. \A p, t : SamePerson(p, t) <=> PersonKey(p.data) = PersonKey(t.data)
    BY KeysTell
  <2>4. "qualification" \in Chain /\ "permit" \in Chain
    BY DEF Chain
  <2>5. ASSUME NEW x \in P, Two(x) PROVE conflict
    <3>1. PICK q \in Of("qualification") : /\ PersonKey(q.data) = x.key
                                           /\ Normal[q.data.role] = x.roles["qualification"]
      BY <2>2, <2>4, <2>5
    <3>2. PICK p \in Of("permit") : /\ PersonKey(p.data) = x.key
                                    /\ Normal[p.data.role] = x.roles["permit"]
      BY <2>2, <2>4, <2>5
    <3>3. RolesDiffer(q, p)
      BY <2>3, <2>5, <3>1, <3>2 DEF RolesDiffer
    <3>4. QED BY <3>3
  <2>6. ASSUME single, NEW q \in Of("qualification"), NEW p \in Of("permit"), RolesDiffer(q, p)
        PROVE  \E x \in P : Two(x)
    <3>1. /\ SamePerson(q, p) /\ Normal[q.data.role] # "none" /\ Normal[p.data.role] # "none"
          /\ Text[Normal[q.data.role]] # Text[Normal[p.data.role]]
      BY <2>6 DEF RolesDiffer
    <3>2. q \in named /\ p \in named /\ PersonKey(q.data) = PersonKey(p.data)
      BY <2>3, <3>1
    <3>3. PICK x \in P : x.key = PersonKey(q.data)
      BY <1>3, <3>2
    <3>4. ASSUME NEW s \in Chain, NEW d \in Of(s), PersonKey(d.data) = x.key, Normal[d.data.role] # "none"
          PROVE  x.roles[s] = Normal[d.data.role]
      <4>1. x.roles[s] # "none"
        BY <2>2, <3>4
      <4>2. PICK e \in Of(s) : PersonKey(e.data) = x.key /\ Normal[e.data.role] = x.roles[s]
        BY <2>2, <4>1
      <4>3. SamePerson(d, e) /\ Source(d.type) = Source(e.type) /\ d \in named /\ e \in named
        BY <2>3, <3>4, <4>2
      <4>4. d = e
        BY <2>6, <4>3
      <4>5. QED BY <4>2, <4>4
    <3>5. x.roles["qualification"] = Normal[q.data.role] /\ x.roles["permit"] = Normal[p.data.role]
      BY <2>4, <3>1, <3>2, <3>3, <3>4
    <3>6. Two(x)
      BY <3>1, <3>5
    <3>7. QED BY <3>6
  <2> HIDE DEF Two, Of, named, single
  <2>7. QED BY <2>1, <2>5, <2>6
<1>7. QED BY <1>4, <1>5, <1>6 DEF T

-----------------------------------------------------------------------------
(* The documents of a batch *)

\* Every order is one of all the files.
LEMMA OrdersCover ==
    ASSUME NEW order \in Orders
    PROVE  order \in Seq(Files) /\ ToSet(order) = Files
<1> DEFINE n == Cardinality(Files)
<1>1. n \in Nat /\ IsFiniteSet(Files)
  BY FactConstants, FS_CardinalityType
<1>2. order \in [1..n -> Files] /\ \A i, j \in 1..n : i # j => order[i] # order[j]
  BY DEF Orders, SetToSeqs
<1>3. IsFiniteSet(1..n) /\ Cardinality(1..n) = n
  BY <1>1, FS_Interval
<1> HIDE DEF n
<1>4. order \in Injection(1..n, Files)
  BY <1>2 DEF Injection, IsInjective
<1>5. order \in Surjection(1..n, Files)
  BY <1>1, <1>3, <1>4, FS_Injection DEF n
<1>6. ToSet(order) = Files
  BY <1>2, <1>5 DEF Surjection, ToSet
<1>7. order \in Seq(Files)
  BY <1>1, <1>2
<1>8. QED BY <1>6, <1>7

Recorded == {r.file : r \in records}

\* The documents are those of the files that have a record.
LEMMA DocumentsSet ==
    ASSUME NEW order \in Seq(Files)
    PROVE  /\ Documents(order) \in Seq({Document(f) : f \in Recorded})
           /\ ToSet(Documents(order)) = {Document(f) : f \in ToSet(order) \cap Recorded}
<1> DEFINE D == {Document(f) : f \in Recorded}
           v == [i \in DOMAIN order |-> Document(order[i])]
           I == {i \in DOMAIN order : \E r \in records : r.file = order[i]}
           V == {v[i] : i \in I \cap (1..Len(order))}
<1>1. Len(order) \in Nat /\ DOMAIN order = 1..Len(order)
  OBVIOUS
<1>2. Documents(order) = Chosen(v, I, Len(order))
  BY DEF Documents
<1>3. I = {i \in DOMAIN order : order[i] \in Recorded}
  BY DEF Recorded
<1>4. V = {Document(f) : f \in ToSet(order) \cap Recorded}
  BY <1>1, <1>3 DEF ToSet
<1> HIDE DEF v, I
<1>5. Documents(order) \in Seq(V) /\ ToSet(Documents(order)) = V
  BY <1>1, <1>2, ChosenValues
<1>6. V \subseteq D
  BY <1>4
<1> HIDE DEF V, D
<1>7. Documents(order) \in Seq(D)
  BY <1>5, <1>6
<1>8. QED BY <1>4, <1>5, <1>7 DEF D

\* A document holds the payload of one of its file's records.
LEMMA DocumentData ==
    ASSUME IInv, NEW f \in Recorded
    PROVE  Document(f).data \in [Fields -> Values]
<1> DEFINE all == {r \in records : r.file = f}
           matched == {r \in all : r.schema = EffectiveType(f)}
           selected == IF matched = {} THEN all ELSE matched
           times == {r.at : r \in selected}
<1>1. Document(f).data = Record(f).data /\ selected \subseteq records /\ selected # {}
  BY DEF Document, Recorded
<1>2. \A r \in records : r.at \in Nat /\ r.at <= clock /\ r.schema \in DocTypes /\ r.data \in Data[r.schema]
  BY DEF IInv, RecordsTyped
<1>3. Record(f) = CHOOSE r \in selected : \A q \in selected : q.at <= r.at
  BY DEF Record
<1> HIDE DEF selected
<1>4. \E r \in selected : \A q \in selected : q.at <= r.at
  <2>1. times \in SUBSET Nat /\ times # {} /\ clock \in Nat /\ \A n \in times : n <= clock
    BY <1>1, <1>2 DEF IInv
  <2>2. PICK n \in times : \A m \in times : m <= n
    <3> HIDE DEF times
    <3>1. QED BY <2>1, GreatestNat
  <2>3. QED BY <2>2
<1>5. Record(f) \in records
  BY <1>1, <1>3, <1>4
<1>6. QED BY <1>1, <1>2, <1>5, FactConstants

\* The dates that the rules compare are numbers.
LEMMA DatesAreNumbers ==
    ASSUME IInv, NEW field \in Fields
    PROVE  Dates({Document(f) : f \in Recorded}, field)
BY DocumentData, FactConstants DEF Dates

\* Fewer documents of the batch have fewer defects.
LEMMA FewerFiles ==
    ASSUME IInv, NEW order \in Seq(Files), NEW other \in Seq(Files), ToSet(other) \subseteq ToSet(order),
           NEW r \in Rules
    PROVE  /\ r.logic \in OfDocuments =>
                (Verdict(r, Documents(other)).hit => Verdict(r, Documents(order)).hit)
           /\ r.logic = "require_doc_type" =>
                (Verdict(r, Documents(order)).hit => Verdict(r, Documents(other)).hit)
<1> DEFINE D == {Document(f) : f \in Recorded}
           docs == Documents(order)
           fewer == Documents(other)
<1>1. docs \in Seq(D) /\ fewer \in Seq(D) /\ ToSet(fewer) \subseteq ToSet(docs)
  <2>1. docs \in Seq(D) /\ fewer \in Seq(D)
    BY DocumentsSet
  <2>2. /\ ToSet(docs) = {Document(f) : f \in ToSet(order) \cap Recorded}
        /\ ToSet(fewer) = {Document(f) : f \in ToSet(other) \cap Recorded}
    BY DocumentsSet
  <2> HIDE DEF docs, fewer
  <2>3. QED BY <2>1, <2>2
<1>2. r.logic = "date_order" => Dates(D, r.field) /\ Dates(D, r.field2)
  BY DatesAreNumbers, FactConstants
<1> HIDE DEF D, docs, fewer
<1>3. /\ r.logic \in OfDocuments => (Verdict(r, fewer).hit => Verdict(r, docs).hit)
      /\ r.logic = "require_doc_type" => (Verdict(r, docs).hit => Verdict(r, fewer).hit)
  BY <1>1, <1>2, MoreDocuments
<1>4. QED BY <1>3 DEF docs, fewer

\* A verdict is a hit or not.
LEMMA HitOrNot == ASSUME NEW docs, NEW r PROVE Verdict(r, docs).hit \in BOOLEAN
<1>1. \A S : Defects(S).hit \in BOOLEAN
  BY DEF Defects
<1>2. Presence(r, docs).hit \in BOOLEAN
  BY DEF Presence
<1>3. \A field : Consistent(field, docs).hit \in BOOLEAN
  BY DEF Consistent
<1>4. DateOrder(r, docs).hit \in BOOLEAN
  BY DEF DateOrder
<1>5. QED
  BY <1>1, <1>2, <1>3, <1>4 DEF Verdict, RequiredField, NotExpired, RoleConsistent, TrainingClosed,
     JsaComplete, ChainComplete, OfDocs, OfPeople

\* The rules on people do not depend on the order of the documents.
LEMMA PeopleIgnoreOrder ==
    ASSUME NEW D, NEW docs \in Seq(D), NEW other \in Seq(D), ToSet(docs) = ToSet(other)
    PROVE  /\ TrainingClosed(docs).hit <=> TrainingClosed(other).hit
           /\ ChainComplete(docs).hit <=> ChainComplete(other).hit
BY PeopleRules

-----------------------------------------------------------------------------
(* The rules on a batch *)

\* Whatever the model extracts, and in whatever order the files come, every hit
\* has evidence once a file has a record: run_rule_engine never drops one.
THEOREM EvidenceOfHits == Spec => []HitsHaveEvidence
<1>1. HitsHaveEvidence
  <2> SUFFICES ASSUME NEW order \in Orders, Documents(order) # <<>>, NEW r \in Rules,
                      Verdict(r, Documents(order)).hit
               PROVE  Verdict(r, Documents(order)).evidence # {}
    BY DEF HitsHaveEvidence
  <2>1. order \in Seq(Files)
    BY OrdersCover
  <2>2. Len(Documents(order)) \in Nat \ {0}
    BY <2>1, DocumentsSet, EmptyList
  <2>3. QED BY <2>2, HitsAreShown
<1>2. QED BY <1>1, PTL

\* The rules on people (evaluator.py) find just what they are for in any batch:
\* the accumulator of normalize_batch_facts loses no document of a person.
THEOREM ExactPeopleRules == Spec => []PeopleRulesAreExact
<1>1. PeopleRulesAreExact
  BY OrdersCover, DocumentsSet, PeopleRules, Zenon DEF PeopleRulesAreExact
<1>2. QED BY <1>1, PTL

\* A file more never hides a defect of the others from a rule on documents, and
\* never makes a required type missing.
THEOREM DefectsStay == Spec => []DefectsAccumulate
<1>1. IInv => DefectsAccumulate
  <2> SUFFICES ASSUME IInv, NEW order \in Orders, NEW f \in Files PROVE
        LET docs == Documents(order)
            fewer == Documents(Chosen(order, {i \in DOMAIN order : order[i] # f}, Len(order)))
        IN  \A r \in Rules :
              /\ r.logic \in OfDocuments => (Verdict(r, fewer).hit => Verdict(r, docs).hit)
              /\ r.logic = "require_doc_type" => (Verdict(r, docs).hit => Verdict(r, fewer).hit)
    BY DEF DefectsAccumulate
  <2> DEFINE other == Chosen(order, {i \in DOMAIN order : order[i] \in Files \ {f}}, Len(order))
  <2>1. order \in Seq(Files) /\ ToSet(order) = Files
    BY OrdersCover
  <2>2. other \in Seq(Files) /\ ToSet(other) = ToSet(order) \cap (Files \ {f})
    BY <2>1, ChosenSet
  <2>3. {i \in DOMAIN order : order[i] # f} = {i \in DOMAIN order : order[i] \in Files \ {f}}
    BY <2>1
  <2> HIDE DEF other
  <2>4. \A r \in Rules :
          /\ r.logic \in OfDocuments =>
               (Verdict(r, Documents(other)).hit => Verdict(r, Documents(order)).hit)
          /\ r.logic = "require_doc_type" =>
               (Verdict(r, Documents(order)).hit => Verdict(r, Documents(other)).hit)
    BY <2>1, <2>2, FewerFiles
  <2>5. QED BY <2>3, <2>4 DEF other
<1>2. QED BY <1>1, Inductive, PTL

\* The order of the unsorted SELECT changes no verdict but that of the rule on
\* roles, for any batch.
THEOREM OrderIsIgnored == Spec => []VerdictsIgnoreOrder
<1>1. IInv => VerdictsIgnoreOrder
  <2> SUFFICES ASSUME IInv, NEW one \in Orders, NEW two \in Orders, NEW r \in Rules,
                      r.logic # "person_role_consistency"
               PROVE  Verdict(r, Documents(one)).hit = Verdict(r, Documents(two)).hit
    BY DEF VerdictsIgnoreOrder
  <2>1. one \in Seq(Files) /\ two \in Seq(Files) /\ ToSet(one) = ToSet(two)
    BY OrdersCover
  <2>2. CASE r.logic \in OfDocuments \cup {"require_doc_type"}
    <3>1. Verdict(r, Documents(one)).hit <=> Verdict(r, Documents(two)).hit
      BY <2>1, <2>2, FewerFiles
    <3>2. QED BY <3>1, HitOrNot
  <2>3. CASE r.logic \in {"person_training_closure", "person_chain_missing_links"}
    <3> DEFINE docs == Documents(one)
               other == Documents(two)
               D == {Document(f) : f \in Recorded}
    <3>1. docs \in Seq(D) /\ other \in Seq(D) /\ ToSet(docs) = ToSet(other)
      BY <2>1, DocumentsSet
    <3> HIDE DEF docs, other, D
    <3>2. /\ TrainingClosed(docs).hit <=> TrainingClosed(other).hit
          /\ ChainComplete(docs).hit <=> ChainComplete(other).hit
      BY <3>1, PeopleIgnoreOrder
    <3>3. \A l : Verdict(r, l) = IF r.logic = "person_training_closure" THEN TrainingClosed(l) ELSE ChainComplete(l)
      BY <2>3 DEF Verdict
    <3>4. Verdict(r, docs).hit <=> Verdict(r, other).hit
      BY <3>2, <3>3
    <3>5. QED BY <3>4, HitOrNot DEF docs, other
  <2>4. CASE r.logic \notin OfDocuments \cup {"require_doc_type", "person_role_consistency",
                 "person_training_closure", "person_chain_missing_links"}
    BY <2>4 DEF Verdict, OfDocuments
  <2>5. QED BY <2>2, <2>3, <2>4
<1>2. QED BY <1>1, Inductive, PTL
=============================================================================
