-------------------------- MODULE Evaluation_proofs --------------------------
(***************************************************************************)
(* Theorems about Evaluation, for any gold labels, issues and facts.       *)
(***************************************************************************)
EXTENDS Evaluation, Induction

\* A quotient of a part by the whole is at most one.
LEMMA PartOfWhole ==
    ASSUME NEW x \in Nat, NEW y \in Nat \ {0}, x <= y
    PROVE  (Unit * x) \div y \in 0..Unit
<1>1. Unit * x <= Unit * y
  BY SMT DEF Unit
<1>2. PICK q \in Nat : q = (Unit * x) \div y
  BY SMT DEF Unit
<1>3. y * q <= Unit * x
  BY <1>2, SMT DEF Unit
<1>4. ~(q > Unit)
  <2>1. SUFFICES ASSUME q >= Unit + 1 PROVE FALSE
    BY <1>2, SMT DEF Unit
  <2>2. y * q >= y * (Unit + 1)
    BY <2>1, SMT DEF Unit
  <2>3. y * (Unit + 1) > y * Unit
    BY SMT DEF Unit
  <2>4. QED BY <1>1, <1>3, <2>2, <2>3, SMT DEF Unit
<1>5. QED BY <1>2, <1>4, SMT DEF Unit

\* Two finite sets are similar to a degree between none and all, and not at all
\* if they are not both empty and share nothing.
LEMMA JaccardType ==
    ASSUME NEW a, NEW b, IsFiniteSet(a), IsFiniteSet(b)
    PROVE  /\ Jaccard(a, b) \in 0..Unit
           /\ (a # {} \/ b # {}) /\ a \cap b = {} => Jaccard(a, b) = 0
<1>1. CASE a = {} /\ b = {}
  BY <1>1, SMT DEF Jaccard, Unit
<1>2. CASE ~(a = {} /\ b = {})
  <2>1. IsFiniteSet(a \cup b) /\ a \cap b \subseteq a \cup b /\ a \cup b # {}
    BY <1>2, FS_Union
  <2>2. IsFiniteSet(a \cap b) /\ Cardinality(a \cap b) <= Cardinality(a \cup b)
    BY <2>1, FS_Subset
  <2>3. Cardinality(a \cap b) \in Nat /\ Cardinality(a \cup b) \in Nat \ {0}
    BY <2>1, <2>2, FS_CardinalityType, FS_EmptySet
  <2>4. Jaccard(a, b) = (Unit * Cardinality(a \cap b)) \div Cardinality(a \cup b)
    BY <1>2 DEF Jaccard
  <2>5. Jaccard(a, b) \in 0..Unit
    BY <2>2, <2>3, <2>4, PartOfWhole
  <2>6. ASSUME a \cap b = {} PROVE Jaccard(a, b) = 0
    <3>1. Cardinality(a \cap b) = 0
      BY <2>6, FS_EmptySet
    <3>2. QED BY <2>3, <2>4, <3>1, SMT DEF Unit
  <2>7. QED BY <2>5, <2>6
<1>3. QED BY <1>1, <1>2

\* A score is a number, and below the threshold if the two name other files.
LEMMA ScoreType ==
    ASSUME NEW i \in Issues, NEW k \in DOMAIN Gold
    PROVE  /\ Score(i, Gold[k]) \in Nat
           /\ i.files # {} /\ Gold[k].files # {} /\ i.files \cap Gold[k].files = {}
              => Score(i, Gold[k]) < Threshold
<1> DEFINE g == Gold[k]
           J == Jaccard(i.files, g.files)
           T == Jaccard(i.tokens, g.tokens)
           R == Ratio[<<i.text, g.text>>]
<1>1. J \in 0..Unit /\ T \in 0..Unit /\ R \in 0..Unit
  BY JaccardType, EvaluationConstants
<1>2. Penalty(i, g) \in {5, 100} /\ CategoryWeight(i, g) \in {30, 100}
  BY DEF Penalty, CategoryWeight
<1>3. Score(i, g) = (65 * J + 20 * T + 15 * R) * Penalty(i, g) * CategoryWeight(i, g)
  BY DEF Score
<1> HIDE DEF g, J, T, R
<1>4. Score(i, g) \in Nat
  BY <1>1, <1>2, <1>3, SMT DEF Unit
<1>5. ASSUME i.files # {} /\ g.files # {} /\ i.files \cap g.files = {}
      PROVE  Score(i, g) < Threshold
  <2>1. Penalty(i, g) = 5
    BY <1>5 DEF Penalty
  <2>2. J = 0
    BY <1>5, JaccardType, EvaluationConstants DEF J, g
  <2>3. QED BY <1>1, <1>2, <1>3, <2>1, <2>2, SMT DEF Unit, Threshold
<1>6. QED BY <1>4, <1>5 DEF g

-----------------------------------------------------------------------------

\* What the loop knows of the pairs it has left behind: they come before those
\* that it has not seen, which is why an assigned pair is no worse than the
\* pairs that it blocks.
Handled == ((DOMAIN rows) \X gold) \ todo
IInv ==
    /\ TypeOK
    /\ \A p \in Handled, q \in todo : Before(p, q)
    /\ \A p \in assigned : ScoreOf(p) >= Threshold
    /\ \A p, q \in assigned : Share(p, q) => p = q
    /\ \A p \in Handled \ assigned :
         ScoreOf(p) < Threshold \/ \E q \in assigned : Share(p, q) /\ Before(q, p)

\* A row is an issue, so every pair has a score.
LEMMA PairScore ==
    ASSUME TypeOK, NEW p \in (DOMAIN rows) \X gold
    PROVE  /\ rows[p[1]] \in Issues /\ p[2] \in DOMAIN Gold
           /\ ScoreOf(p) \in Nat
<1>1. rows[p[1]] \in Issues /\ p[2] \in DOMAIN Gold
  BY DEF TypeOK, Orders
<1>2. QED BY <1>1, ScoreType DEF ScoreOf

\* A batch may have no issue.
LEMMA NoRows == <<>> \in Orders
<1>1. <<>> \in [1..0 -> Issues] /\ 1..0 = {}
  OBVIOUS
<1>2. QED BY <1>1, EvaluationConstants DEF Orders

\* The invariant gives the two properties.
LEMMA MappingFollows == IInv => MappingIsStable /\ HitsShareAFile
<1> SUFFICES ASSUME IInv PROVE MappingIsStable /\ HitsShareAFile
  OBVIOUS
<1>1. TypeOK
  BY DEF IInv
<1>2. \A p \in (DOMAIN rows) \X gold : ScoreOf(p) \in Nat
  BY <1>1, PairScore
<1>3. ASSUME NEW p \in Handled \ assigned
      PROVE  ScoreOf(p) < Threshold \/ \E q \in assigned : Share(p, q) /\ ScoreOf(q) >= ScoreOf(p)
  <2>1. CASE ScoreOf(p) < Threshold
    BY <2>1
  <2>2. CASE \E q \in assigned : Share(p, q) /\ Before(q, p)
    <3>1. PICK q \in assigned : Share(p, q) /\ Before(q, p)
      BY <2>2
    <3>2. ScoreOf(p) \in Nat /\ ScoreOf(q) \in Nat
      BY <1>1, <1>2 DEF TypeOK, Handled
    <3>3. ScoreOf(q) >= ScoreOf(p)
      BY <3>1, <3>2 DEF Before
    <3>4. QED BY <3>1, <3>3
  <2>3. QED BY <2>1, <2>2 DEF IInv
<1>4. MappingIsStable
  <2>1. ((DOMAIN rows) \X gold) \ (todo \cup assigned) = Handled \ assigned
    BY DEF Handled
  <2>2. QED BY <1>3, <2>1 DEF IInv, MappingIsStable
<1>5. ASSUME NEW p \in assigned,
             rows[p[1]].files # {}, Gold[p[2]].files # {}
      PROVE  rows[p[1]].files \cap Gold[p[2]].files # {}
  <2>1. p \in (DOMAIN rows) \X gold
    BY <1>1 DEF TypeOK
  <2>2. rows[p[1]] \in Issues /\ p[2] \in DOMAIN Gold /\ ScoreOf(p) \in Nat
    BY <1>1, <2>1, PairScore
  <2>3. ~(ScoreOf(p) < Threshold)
    <3>1. ScoreOf(p) >= Threshold
      BY DEF IInv
    <3>2. QED BY <2>2, <3>1 DEF Threshold, Unit
  <2>4. QED BY <1>5, <2>2, <2>3, ScoreType DEF ScoreOf
<1>6. QED BY <1>4, <1>5 DEF HitsShareAFile

\* The loop takes the best pair that is left.
LEMMA MapStep == IInv /\ Map => IInv'
<1> SUFFICES ASSUME IInv, Map PROVE IInv'
  OBVIOUS
<1>1. TypeOK
  BY DEF IInv
<1>2. PICK p \in todo :
        /\ Best(p)
        /\ todo' = todo \ {p}
        /\ assigned' = IF Free(p) /\ ScoreOf(p) >= Threshold
                       THEN assigned \cup {p} ELSE assigned
  BY DEF Map
<1>3. UNCHANGED <<facts, rows, gold, phase, report, reports>>
  BY DEF Map
<1>4. p \in (DOMAIN rows) \X gold
  BY <1>1 DEF TypeOK
<1>5. \A q, r : (ScoreOf(q)' = ScoreOf(q)) /\ (Before(q, r)' <=> Before(q, r))
  BY <1>3 DEF ScoreOf, Before, Score, Earlier
<1>6. Handled' = Handled \cup {p}
  BY <1>2, <1>3, <1>4 DEF Handled
<1>7. TypeOK'
  BY <1>1, <1>2, <1>3, <1>4 DEF TypeOK
<1>8. \A q \in Handled', r \in todo' : Before(q, r)
  BY <1>2, <1>6 DEF IInv, Best
<1>9. \A q \in assigned' : ScoreOf(q) >= Threshold
  BY <1>2 DEF IInv
<1>10. \A q, r \in assigned' : Share(q, r) => q = r
  <2>1. \A q, r : Share(q, r) <=> Share(r, q)
    BY DEF Share
  <2>2. QED BY <1>2, <2>1 DEF IInv, Free
<1>11. ASSUME NEW q \in Handled' \ assigned'
       PROVE  ScoreOf(q) < Threshold \/ \E r \in assigned' : Share(q, r) /\ Before(r, q)
  <2>1. CASE q # p
    <3>1. q \in Handled \ assigned /\ assigned \subseteq assigned'
      BY <1>2, <1>6, <1>11, <2>1
    <3>2. QED BY <3>1 DEF IInv
  <2>2. CASE q = p /\ Free(p)
    <3>1. ~(ScoreOf(p) >= Threshold)
      BY <1>2, <1>11, <2>2
    <3>2. ScoreOf(p) \in Nat
      BY <1>1, <1>4, PairScore
    <3>3. QED BY <2>2, <3>1, <3>2 DEF Threshold, Unit
  <2>3. CASE q = p /\ ~Free(p)
    <3>1. PICK r \in assigned : Share(r, p)
      BY <2>3 DEF Free, Share
    <3>2. r \in Handled
      BY <1>1 DEF TypeOK, Handled
    <3>3. Before(r, p)
      BY <1>2, <3>2 DEF IInv
    <3>4. QED BY <1>2, <2>3, <3>1, <3>3 DEF Share
  <2>4. QED BY <2>1, <2>2, <2>3
<1>12. (\A q \in Handled, r \in todo : Before(q, r))'
  BY <1>5, <1>8
<1>13. (\A q \in assigned : ScoreOf(q) >= Threshold)'
  BY <1>5, <1>9 DEF Threshold
<1>14. (\A q \in Handled \ assigned :
          ScoreOf(q) < Threshold \/ \E r \in assigned : Share(q, r) /\ Before(r, q))'
  BY <1>5, <1>11 DEF Threshold, Share
<1>15. (\A q, r \in assigned : Share(q, r) => q = r)'
  BY <1>10 DEF Share
<1>16. QED BY <1>7, <1>12, <1>13, <1>14, <1>15 DEF IInv

\* Between evaluations there is nothing to map.
LEMMA OtherSteps == IInv /\ (Load \/ Report \/ UNCHANGED vars) => IInv'
<1> SUFFICES ASSUME IInv, Load \/ Report \/ UNCHANGED vars PROVE IInv'
  OBVIOUS
<1>1. TypeOK
  BY DEF IInv
<1>2. CASE Load
  <2>1. /\ rows' \in Orders /\ gold' \subseteq DOMAIN Gold
        /\ todo' = (DOMAIN rows') \X gold' /\ assigned' = {}
    BY <1>2 DEF Load, GoldOf
  <2>2. TypeOK'
    BY <1>1, <1>2, <2>1 DEF Load, TypeOK
  <2>3. Handled' = {}
    BY <2>1 DEF Handled
  <2>4. QED BY <2>1, <2>2, <2>3 DEF IInv
<1>3. CASE Report
  <2>1. /\ rows' = <<>> /\ gold' = {} /\ todo' = {} /\ assigned' = {}
        /\ reports' = reports + 1 /\ phase' = "idle" /\ facts' = facts
    BY <1>3 DEF Report
  <2>2. rows' \in Orders
    BY <2>1, NoRows
  <2>5. reports' \in 0..MaxReports
    BY <1>1, <1>3, <2>1, EvaluationConstants DEF Report, TypeOK
  <2>6. TypeOK'
    BY <1>1, <2>1, <2>2, <2>5 DEF TypeOK
  <2>3. Handled' = {}
    BY <2>1 DEF Handled
  <2>4. QED BY <2>1, <2>6, <2>3 DEF IInv
<1>4. CASE UNCHANGED vars
  <2>1. UNCHANGED <<facts, rows, gold, todo, assigned, phase, reports>>
    BY <1>4 DEF vars
  <2>2. \A p, q : (ScoreOf(p)' = ScoreOf(p)) /\ (Before(p, q)' <=> Before(p, q))
    BY <2>1 DEF ScoreOf, Before, Score, Earlier
  <2>3. TypeOK' /\ Handled' = Handled
    BY <1>1, <2>1 DEF TypeOK, Handled
  <2>4. QED BY <2>1, <2>2, <2>3 DEF IInv, Share, Threshold
<1>5. QED BY <1>2, <1>3, <1>4

\* The mapping keeps the invariant from the first evaluation on.
LEMMA Inductive == Spec => []IInv
<1>1. Init => IInv
  <2>1. SUFFICES ASSUME Init PROVE IInv
    OBVIOUS
  <2>2. rows \in Orders /\ reports \in 0..MaxReports
    BY <2>1, NoRows, EvaluationConstants DEF Init
  <2>3. gold = {} /\ todo = {} /\ assigned = {} /\ phase = "idle" /\ facts \in Facts
    BY <2>1 DEF Init
  <2>4. TypeOK
    BY <2>2, <2>3 DEF TypeOK
  <2>5. Handled = {}
    BY <2>3 DEF Handled
  <2>6. QED BY <2>3, <2>4, <2>5 DEF IInv
<1>2. IInv /\ [Next]_vars => IInv'
  BY MapStep, OtherSteps DEF Next
<1>3. QED BY <1>1, <1>2, PTL DEF Spec

\* Whatever the scores, map_actual_issues_to_assertions is one to one, and a pair
\* is passed over only for one whose score is no lower.
THEOREM StableMapping == Spec => []MappingIsStable
BY Inductive, MappingFollows, PTL

\* score_actual_to_assertion never maps an issue to an assertion about other
\* files, however alike their words and descriptions are.
THEOREM SharedFiles == Spec => []HitsShareAFile
BY Inductive, MappingFollows, PTL

-----------------------------------------------------------------------------
(* Two evaluations of a batch *)

\* Pairs of an issue and an assertion, in the order in which the loop takes them
\* from rows s.
Worth(p) == Score(p[1], Gold[p[2]])
Ahead(s, p, q) ==
    \/ Worth(p) > Worth(q)
    \/ /\ Worth(p) = Worth(q)
       /\ \/ Position(s, p[1]) < Position(s, q[1])
          \/ p[1] = q[1] /\ p[2] < q[2]

\* A is what the loop assigns of rows s and assertions keys.
Settled(s, keys, A) ==
    /\ A \subseteq Elements(s) \X keys
    /\ \A p \in A : Worth(p) >= Threshold
    /\ \A p, q \in A : Share(p, q) => p = q
    /\ \A p \in (Elements(s) \X keys) \ A :
         Worth(p) < Threshold \/ \E q \in A : Share(p, q) /\ Ahead(s, q, p)

\* The report names what was assigned, and what the facts bridge.
ReportInv ==
    /\ report.rows \in Orders /\ report.gold \subseteq DOMAIN Gold
    /\ reports # 0 =>
         \E A : /\ Settled(report.rows, report.gold, A)
                /\ report.hits = {p[2] : p \in A} \cup {k \in report.gold : Bridged(k)}

\* The rows are numbered, and no issue is there twice.
LEMMA Positions ==
    ASSUME NEW s \in Orders
    PROVE  /\ Elements(s) \subseteq Issues
           /\ \A i \in DOMAIN s : i \in Nat /\ s[i] \in Elements(s) /\ Position(s, s[i]) = i
           /\ \A x \in Elements(s) : Position(s, x) \in DOMAIN s /\ s[Position(s, x)] = x
<1>1. PICK n \in Nat : s \in [1..n -> Issues] /\ \A i, k \in 1..n : s[i] = s[k] => i = k
  BY EvaluationConstants DEF Orders
<1>2. \A x \in Elements(s) : Position(s, x) \in DOMAIN s /\ s[Position(s, x)] = x
  BY DEF Elements, Position
<1>3. \A i \in DOMAIN s : i \in Nat /\ s[i] \in Elements(s)
  BY <1>1 DEF Elements
<1>4. \A i \in DOMAIN s : Position(s, s[i]) = i
  BY <1>1, <1>2, <1>3
<1>5. QED BY <1>1, <1>2, <1>3, <1>4 DEF Elements

\* The score of a perfect match.
Top == 60000000

\* A score is bounded.
LEMMA WorthType ==
    ASSUME NEW s \in Orders, NEW p \in Elements(s) \X DOMAIN Gold
    PROVE  /\ Worth(p) \in Nat /\ Worth(p) <= Top
           /\ Position(s, p[1]) \in Nat /\ p[2] \in Nat
<1>1. p[1] \in Issues /\ p[2] \in DOMAIN Gold /\ p[1] \in Elements(s)
  BY Positions
<1> DEFINE i == p[1]
           g == Gold[p[2]]
           J == Jaccard(i.files, g.files)
           T == Jaccard(i.tokens, g.tokens)
           R == Ratio[<<i.text, g.text>>]
<1>2. J \in 0..Unit /\ T \in 0..Unit /\ R \in 0..Unit
  BY <1>1, JaccardType, EvaluationConstants
<1>3. Penalty(i, g) \in {5, 100} /\ CategoryWeight(i, g) \in {30, 100}
  BY DEF Penalty, CategoryWeight
<1>4. Worth(p) = (65 * J + 20 * T + 15 * R) * Penalty(i, g) * CategoryWeight(i, g)
  BY DEF Score, Worth
<1> HIDE DEF i, g, J, T, R
<1>5. Worth(p) \in Nat /\ Worth(p) <= Top
  <2>1. PICK x \in Nat : x = 65 * J + 20 * T + 15 * R /\ x <= 6000
    BY <1>2, SMT DEF Unit
  <2>2. Worth(p) = x * Penalty(i, g) * CategoryWeight(i, g)
    BY <1>4, <2>1
  <2>3. Worth(p) \in {x * 5 * 30, x * 5 * 100, x * 100 * 30, x * 100 * 100}
    BY <1>3, <2>2
  <2>4. \A y \in {x * 5 * 30, x * 5 * 100, x * 100 * 30, x * 100 * 100} : y \in Nat /\ y <= Top
    <3>1. x \in Nat /\ x <= 6000
      BY <2>1
    <3>2. QED BY <3>1, SMT DEF Top
  <2>5. QED BY <2>3, <2>4
<1>6. QED BY <1>1, <1>5, Positions, EvaluationConstants

\* The order in which the loop takes the pairs is total and transitive.
LEMMA AheadOrder ==
    ASSUME NEW s \in Orders, NEW p \in Elements(s) \X DOMAIN Gold,
           NEW q \in Elements(s) \X DOMAIN Gold, NEW r \in Elements(s) \X DOMAIN Gold
    PROVE  /\ p = q \/ Ahead(s, p, q) \/ Ahead(s, q, p)
           /\ ~(Ahead(s, p, q) /\ Ahead(s, q, p))
           /\ Ahead(s, p, q) /\ Ahead(s, q, r) => Ahead(s, p, r)
<1>1. \A x \in {p, q, r} : Worth(x) \in Nat /\ Position(s, x[1]) \in Nat /\ x[2] \in Nat
  BY WorthType
<1>2. \A x, y \in {p, q, r} : Position(s, x[1]) = Position(s, y[1]) => x[1] = y[1]
  BY Positions
<1>3. \A x, y \in {p, q, r} : x[1] = y[1] /\ x[2] = y[2] => x = y
  OBVIOUS
<1>4. p = q \/ Ahead(s, p, q) \/ Ahead(s, q, p)
  BY <1>1, <1>2, <1>3 DEF Ahead
<1>5. ~(Ahead(s, p, q) /\ Ahead(s, q, p))
  BY <1>1 DEF Ahead
<1>6. Ahead(s, p, q) /\ Ahead(s, q, r) => Ahead(s, p, r)
  BY <1>1 DEF Ahead
<1>7. QED BY <1>4, <1>5, <1>6

\* Of any pairs one is taken first.
LEMMA FirstPair ==
    ASSUME NEW s \in Orders, NEW S \in SUBSET (Elements(s) \X DOMAIN Gold), S # {}
    PROVE  \E p \in S : \A q \in S : ~Ahead(s, q, p)
<1>1. \A p \in S : Worth(p) \in Nat /\ Worth(p) <= Top /\ Position(s, p[1]) \in Nat /\ p[2] \in Nat
  BY WorthType
<1> DEFINE W == {Worth(p) : p \in S}
<1>2. PICK w \in W : \A v \in W : v <= w
  <2>1. W \in SUBSET Nat /\ W # {} /\ \A v \in W : v <= Top
    BY <1>1
  <2>2. Top \in Nat
    BY SMT DEF Top
  <2> HIDE DEF W
  <2>3. QED BY <2>1, <2>2, GreatestNat
<1> DEFINE T == {p \in S : Worth(p) = w}
           P == {Position(s, p[1]) : p \in T}
<1>3. PICK n \in P : \A m \in P : n <= m
  <2>1. P \in SUBSET Nat /\ P # {}
    BY <1>1
  <2> HIDE DEF P
  <2>2. QED BY <2>1, LeastNat
<1> DEFINE U == {p \in T : Position(s, p[1]) = n}
           K == {p[2] : p \in U}
<1>4. PICK k \in K : \A m \in K : k <= m
  <2>1. K \in SUBSET Nat /\ K # {}
    BY <1>1
  <2> HIDE DEF K
  <2>2. QED BY <2>1, LeastNat
<1>5. PICK p \in U : p[2] = k
  OBVIOUS
<1>6. ASSUME NEW q \in S, Ahead(s, q, p) PROVE FALSE
  <2>1. /\ p \in S /\ Worth(p) = w /\ Position(s, p[1]) = n /\ p[2] = k
        /\ Worth(q) <= w
    BY <1>2, <1>5
  <2>2. Worth(q) = w
    BY <1>1, <1>6, <2>1 DEF Ahead
  <2>3. Position(s, q[1]) >= n
    BY <1>1, <1>3, <2>2
  <2>4. q[1] = p[1] /\ q[2] < p[2]
    BY <1>1, <1>6, <2>1, <2>2, <2>3 DEF Ahead
  <2>5. q[2] \in K
    BY <2>1, <2>2, <2>4
  <2>6. QED BY <1>1, <1>4, <2>1, <2>4, <2>5
<1>7. QED BY <1>5, <1>6

\* What the loop assigned of fewer rows and more assertions, it assigns at no
\* lower score of more rows and fewer assertions: of the assertions for which it
\* does not, take the one whose old pair comes first. That pair lost to a pair of
\* the same issue, whose assertion had a better pair before and has lost it too.
LEMMA HitsGrow ==
    ASSUME NEW old \in Orders, NEW new \in Orders, Elements(old) \subseteq Elements(new),
           NEW K \in SUBSET DOMAIN Gold, NEW L \in SUBSET K,
           SameOrder(old, new) \/ NoTies(Elements(new), K),
           NEW A, Settled(old, K, A), NEW B, Settled(new, L, B)
    PROVE  {p[2] : p \in A} \cap L \subseteq {p[2] : p \in B}
<1> DEFINE Lost == {p \in A : p[2] \in L /\ \A q \in B : q[2] = p[2] => Ahead(new, p, q)}
<1>1. /\ A \subseteq Elements(old) \X K /\ A \subseteq Elements(new) \X DOMAIN Gold
      /\ B \subseteq Elements(new) \X L /\ B \subseteq Elements(new) \X DOMAIN Gold
  BY DEF Settled
<1>2. Lost = {}
  <2>1. SUFFICES ASSUME Lost # {} PROVE FALSE
    OBVIOUS
  <2>2. PICK p \in Lost : \A r \in Lost : ~Ahead(new, r, p)
    <3>1. Lost \in SUBSET (Elements(new) \X DOMAIN Gold)
      BY <1>1
    <3> HIDE DEF Lost
    <3>2. QED BY <2>1, <3>1, FirstPair
  <2>3. /\ p \in A /\ p[2] \in L /\ Worth(p) >= Threshold
        /\ p \in Elements(new) \X L /\ p \in Elements(old) \X K
        /\ p \in Elements(new) \X DOMAIN Gold
    BY <1>1, <2>2 DEF Settled
  <2>4. p \notin B
    <3>1. ~Ahead(new, p, p)
      BY <2>3, AheadOrder
    <3>2. QED BY <2>2, <3>1
  <2>5. ~(Worth(p) < Threshold)
    <3>1. Worth(p) \in Nat
      BY <2>3, WorthType
    <3>2. QED BY <2>3, <3>1 DEF Threshold, Unit
  <2>6. PICK q \in B : Share(p, q) /\ Ahead(new, q, p)
    BY <2>3, <2>4, <2>5 DEF Settled
  <2>7. q \in Elements(new) \X L /\ q \in Elements(new) \X DOMAIN Gold
    BY <1>1
  <2>8. q[1] = p[1] /\ q[2] # p[2]
    <3>1. ~Ahead(new, p, q)
      BY <2>3, <2>6, <2>7, AheadOrder
    <3>2. QED BY <2>2, <2>6, <3>1 DEF Share
  <2>9. q \in (Elements(old) \X K) \ A
    <3>1. q \in Elements(old) \X K
      BY <2>3, <2>7, <2>8
    <3>2. q \in A => p = q
      BY <2>3, <2>6 DEF Settled
    <3>3. QED BY <2>8, <3>1, <3>2
  <2>10. ~(Worth(q) < Threshold)
    <3>1. Worth(q) >= Threshold /\ Worth(q) \in Nat
      BY <2>7, WorthType DEF Settled
    <3>2. QED BY <3>1 DEF Threshold, Unit
  <2>11. PICK r \in A : Share(q, r) /\ Ahead(old, r, q)
    BY <2>9, <2>10 DEF Settled
  <2>12. /\ r \in Elements(old) \X K /\ r \in Elements(new) \X DOMAIN Gold
         /\ r \in Elements(old) \X DOMAIN Gold /\ q \in Elements(old) \X DOMAIN Gold
         /\ p \in Elements(old) \X DOMAIN Gold /\ r # q
    BY <1>1, <2>3, <2>9
  <2>13. r[1] # q[1]
    <3>1. SUFFICES ASSUME r[1] = q[1] PROVE FALSE
      OBVIOUS
    <3>2. r = p
      BY <2>3, <2>8, <3>1 DEF Settled, Share
    <3>3. Ahead(old, p, q)
      BY <2>11, <3>2
    <3>4. /\ Position(old, p[1]) \in Nat /\ Position(new, p[1]) \in Nat
          /\ Worth(p) \in Nat /\ Worth(q) \in Nat /\ p[2] \in Nat /\ q[2] \in Nat
      BY <2>3, <2>7, <2>12, WorthType
    <3>5. QED BY <2>6, <2>8, <3>3, <3>4 DEF Ahead
  <2>14. r[2] = q[2]
    BY <2>11, <2>13 DEF Share
  <2>15. Ahead(new, r, q)
    <3>1. CASE Worth(r) > Worth(q)
      BY <3>1 DEF Ahead
    <3>2. CASE Worth(r) = Worth(q) /\ SameOrder(old, new)
      <4>1. Position(old, r[1]) < Position(old, q[1])
        BY <2>11, <2>13, <3>2, <2>7, WorthType DEF Ahead
      <4>2. Position(new, r[1]) < Position(new, q[1])
        BY <2>9, <2>12, <3>2, <4>1 DEF SameOrder
      <4>3. QED BY <3>2, <4>2 DEF Ahead
    <3>3. CASE Worth(r) = Worth(q) /\ NoTies(Elements(new), K)
      <4>1. r \in Elements(new) \X K /\ q \in Elements(new) \X K
        BY <2>7, <2>12
      <4>2. Worth(r) # Worth(q) \/ Worth(r) < Threshold
        <5>1. Share(r, q) /\ r # q
          BY <2>12, <2>14 DEF Share
        <5>2. QED BY <3>3, <4>1, <5>1 DEF NoTies, Worth
      <4>3. QED BY <2>10, <3>3, <4>2
    <3>4. QED BY <2>11, <3>1, <3>2, <3>3 DEF Ahead
  <2>16. r \in Lost
    <3>1. r[2] \in L
      BY <2>7, <2>14
    <3>2. \A s \in B : s[2] = r[2] => s = q
      BY <2>14 DEF Settled, Share
    <3>3. QED BY <2>15, <3>1, <3>2
  <2>17. Ahead(new, r, p)
    BY <2>3, <2>6, <2>7, <2>12, <2>15, AheadOrder
  <2>18. QED BY <2>2, <2>16, <2>17
<1>3. ASSUME NEW p \in A, p[2] \in L PROVE \E q \in B : q[2] = p[2]
  BY <1>2, <1>3
<1>4. QED BY <1>3

\* When nothing is left to do, the loop has settled the rows.
LEMMA MappedSettles ==
    ASSUME IInv, todo = {}
    PROVE  /\ Settled(rows, gold, {<<rows[p[1]], p[2]>> : p \in assigned})
           /\ {q[2] : q \in {<<rows[p[1]], p[2]>> : p \in assigned}} = {p[2] : p \in assigned}
<1> DEFINE Named(p) == <<rows[p[1]], p[2]>>
           A == {Named(p) : p \in assigned}
<1>1. rows \in Orders /\ gold \subseteq DOMAIN Gold /\ assigned \subseteq (DOMAIN rows) \X gold
  BY DEF IInv, TypeOK
<1>2. \A p \in (DOMAIN rows) \X gold :
        /\ Named(p) \in Elements(rows) \X gold /\ Worth(Named(p)) = ScoreOf(p)
        /\ Position(rows, Named(p)[1]) = p[1] /\ Named(p)[2] = p[2]
  BY <1>1, Positions DEF Worth, ScoreOf
<1>3. \A x \in Elements(rows) \X gold :
        <<Position(rows, x[1]), x[2]>> \in (DOMAIN rows) \X gold
        /\ Named(<<Position(rows, x[1]), x[2]>>) = x
  BY <1>1, Positions
<1>4. \A p, q \in (DOMAIN rows) \X gold : Share(Named(p), Named(q)) => Share(p, q)
  <2>1. TAKE p, q \in (DOMAIN rows) \X gold
  <2>2. SUFFICES ASSUME Share(Named(p), Named(q)) PROVE Share(p, q)
    OBVIOUS
  <2>3. /\ Position(rows, Named(p)[1]) = p[1] /\ Position(rows, Named(q)[1]) = q[1]
        /\ Named(p)[2] = p[2] /\ Named(q)[2] = q[2]
    BY <1>2
  <2> HIDE DEF Named
  <2>4. QED BY <2>2, <2>3 DEF Share
<1>5. \A p, q \in (DOMAIN rows) \X gold : Share(p, q) => Share(Named(p), Named(q))
  BY DEF Share
<1>6. \A p, q \in (DOMAIN rows) \X gold : Before(p, q) => Ahead(rows, Named(p), Named(q))
  <2>1. TAKE p, q \in (DOMAIN rows) \X gold
  <2>2. SUFFICES ASSUME Before(p, q) PROVE Ahead(rows, Named(p), Named(q))
    OBVIOUS
  <2>3. /\ Worth(Named(p)) = ScoreOf(p) /\ Worth(Named(q)) = ScoreOf(q)
        /\ Position(rows, Named(p)[1]) = p[1] /\ Position(rows, Named(q)[1]) = q[1]
        /\ Named(p)[2] = p[2] /\ Named(q)[2] = q[2] /\ (p[1] = q[1] => Named(p)[1] = Named(q)[1])
    BY <1>2
  <2> HIDE DEF Named
  <2>4. QED BY <2>2, <2>3 DEF Before, Earlier, Ahead
<1>7. Handled = (DOMAIN rows) \X gold
  BY DEF Handled
<1>8. A \subseteq Elements(rows) \X gold
  BY <1>1, <1>2
<1>9. \A x \in A : Worth(x) >= Threshold
  BY <1>1, <1>2 DEF IInv
<1>10. \A x, y \in A : Share(x, y) => x = y
  BY <1>1, <1>4 DEF IInv
<1>11. ASSUME NEW x \in (Elements(rows) \X gold) \ A
       PROVE  Worth(x) < Threshold \/ \E y \in A : Share(x, y) /\ Ahead(rows, y, x)
  <2>1. PICK p \in (DOMAIN rows) \X gold : Named(p) = x
    BY <1>3
  <2>2. p \in Handled \ assigned
    BY <1>7, <1>11, <2>1
  <2>3. ScoreOf(p) < Threshold \/ \E q \in assigned : Share(p, q) /\ Before(q, p)
    BY <2>2 DEF IInv
  <2>4. CASE ScoreOf(p) < Threshold
    BY <1>2, <2>1, <2>4
  <2>5. CASE \E q \in assigned : Share(p, q) /\ Before(q, p)
    <3>1. PICK q \in assigned : Share(p, q) /\ Before(q, p)
      BY <2>5
    <3>2. Share(Named(p), Named(q)) /\ Ahead(rows, Named(q), Named(p)) /\ Named(q) \in A
      BY <1>1, <1>5, <1>6, <2>1, <3>1
    <3> HIDE DEF Named, A
    <3>3. QED BY <2>1, <3>2
  <2>6. QED BY <2>3, <2>4, <2>5
<1>12. {x[2] : x \in A} = {p[2] : p \in assigned}
  <2>1. \A p \in assigned : Named(p)[2] = p[2]
    OBVIOUS
  <2>2. QED BY <2>1
<1> HIDE DEF A
<1>13. Settled(rows, gold, A)
  BY <1>8, <1>9, <1>10, <1>11 DEF Settled
<1>14. QED BY <1>12, <1>13 DEF A

\* The report keeps the invariant, as the facts do not change.
LEMMA Reported ==
    ASSUME IInv, ReportInv, [Next]_vars
    PROVE  /\ ReportInv'
           /\ \/ report' = report
              \/ Report
<1>1. facts' = facts
  BY DEF Next, Load, Map, Report, vars
<1>2. \A k : Bridged(k)' <=> Bridged(k)
  BY <1>1 DEF Bridged, Touched, ManualReady, FactTrigger, PlanInadequate, PlanHasGaps,
              GeneratorMissing, JsaOutOfScope, Fields
<1>3. CASE ~Report
  <2>1. report' = report /\ reports' = reports
    BY <1>3 DEF Next, Load, Map, vars
  <2>2. ReportInv'
    BY <1>2, <2>1 DEF ReportInv
  <2>3. QED BY <2>1, <2>2
<1>4. CASE Report
  <2>1. report' = [rows |-> rows, gold |-> gold, hits |-> Hits] /\ todo = {}
    BY <1>4 DEF Report
  <2>2. rows \in Orders /\ gold \subseteq DOMAIN Gold
    BY DEF IInv, TypeOK
  <2>3. PICK A : Settled(rows, gold, A) /\ {p[2] : p \in A} = {p[2] : p \in assigned}
    BY <2>1, MappedSettles
  <2>4. report'.hits = {p[2] : p \in A} \cup {k \in report'.gold : Bridged(k)}
    BY <2>1, <2>3 DEF Hits
  <2>5. ReportInv'
    <3>1. Settled(report'.rows, report'.gold, A)
      BY <2>1, <2>3
    <3>2. {k \in report'.gold : Bridged(k)'} = {k \in report'.gold : Bridged(k)}
      BY <1>2
    <3>3. report'.rows \in Orders /\ report'.gold \subseteq DOMAIN Gold
      BY <2>1, <2>2
    <3>4. QED BY <2>4, <3>1, <3>2, <3>3 DEF ReportInv
  <2>6. QED BY <1>4, <2>5
<1>5. QED BY <1>3, <1>4

\* An audit that finds more, or a selection that asks for less, loses no hit of
\* evaluate_from_batch, whatever the scores; another order of the unsorted SELECT
\* loses none unless scores tie.
THEOREM HitsKept == Spec => HitsAreKept
<1> DEFINE Keep == \/ report' = report \/ reports = 0
                   \/ ~(Elements(report.rows) \subseteq Elements(report'.rows) /\ report'.gold \subseteq report.gold)
                   \/ ~(SameOrder(report.rows, report'.rows) \/ NoTies(Elements(report'.rows), report.gold))
                   \/ report.hits \cap report'.gold \subseteq report'.hits
<1>1. Init => ReportInv
  BY NoRows DEF Init, ReportInv, NoReport
<1>2. IInv /\ ReportInv /\ [Next]_vars => ReportInv'
  BY Reported
<1>3. ASSUME IInv, ReportInv, [Next]_vars PROVE Keep
  <2>1. SUFFICES ASSUME Report, reports # 0,
                        Elements(report.rows) \subseteq Elements(report'.rows), report'.gold \subseteq report.gold,
                        SameOrder(report.rows, report'.rows) \/ NoTies(Elements(report'.rows), report.gold)
                 PROVE  report.hits \cap report'.gold \subseteq report'.hits
    BY <1>3, Reported
  <2>2. PICK A : /\ Settled(report.rows, report.gold, A)
                 /\ report.hits = {p[2] : p \in A} \cup {k \in report.gold : Bridged(k)}
    BY <1>3, <2>1 DEF ReportInv
  <2>3. report' = [rows |-> rows, gold |-> gold, hits |-> Hits] /\ todo = {}
    BY <2>1 DEF Report
  <2>4. PICK B : Settled(rows, gold, B) /\ {p[2] : p \in B} = {p[2] : p \in assigned}
    BY <1>3, <2>3, MappedSettles
  <2>5. /\ report.rows \in Orders /\ rows \in Orders
        /\ report.gold \in SUBSET DOMAIN Gold /\ gold \in SUBSET report.gold
    BY <1>3, <2>1, <2>3 DEF ReportInv, IInv, TypeOK
  <2>6. {p[2] : p \in A} \cap gold \subseteq {p[2] : p \in B}
    BY <2>1, <2>2, <2>3, <2>4, <2>5, HitsGrow
  <2>7. report'.hits = {p[2] : p \in B} \cup {k \in gold : Bridged(k)} /\ report'.gold = gold
    BY <2>3, <2>4 DEF Hits
  <2>8. QED BY <2>2, <2>6, <2>7
<1> HIDE DEF Keep
<1>4. IInv /\ ReportInv /\ [Next]_vars => [Keep]_vars
  BY <1>3
<1>5. Spec => [][Keep]_vars
  BY <1>1, <1>2, <1>4, Inductive, PTL DEF Spec
<1>6. QED BY <1>5, PTL DEF HitsAreKept, Keep
=============================================================================
