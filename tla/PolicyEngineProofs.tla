-------------------------- MODULE PolicyEngineProofs --------------------------
(***************************************************************************)
(* Proofs about PolicyEngine: sorting the policies of an organisation and  *)
(* taking the first that applies is what the engine promises, for every    *)
(* table and every request.  A row's place in the sorted list is the       *)
(* number of rows before it; of two rows one is before the other, so no    *)
(* two have the same place and every place is taken (Ranked).              *)
(***************************************************************************)
EXTENDS PolicyEngine, FiniteSetTheorems, SequenceTheorems, WellFoundedInduction, TLAPS

\* A table as the endpoints leave it: finitely many rows, each of a known level.
Leveled(table) ==
  /\ DOMAIN table \subseteq Nat /\ IsFiniteSet(DOMAIN table)
  /\ \A i \in DOMAIN table : table[i].scope_level \in {"org", "team", "agent"}

Ahead(table, rows, i) == {j \in rows : Before(table, j, i)}

Rank(table, rows, i) == Cardinality(Ahead(table, rows, i)) + 1

Nth(table, rows, n) == CHOOSE i \in rows : Rank(table, rows, i) = n

\* A set of numbers that is not empty has a least element.
LEMMA Least ==
  ASSUME NEW T \in SUBSET Nat, T # {}
  PROVE  \E x \in T : \A y \in T : x <= y
<1> DEFINE R == OpToRel(<, Nat)
<1>1. IsWellFoundedOn(R, Nat)
  BY NatLessThanWellFounded
<1>2. \A x, y \in Nat : x < y => <<x, y>> \in R
  BY DEF OpToRel
<1> HIDE DEF R
<1>3. PICK x \in T : \A y \in T : ~(<<y, x>> \in R)
  BY <1>1, WFMin
<1>4. ASSUME NEW y \in T
      PROVE  x <= y
  <2>1. ~(y < x)
    BY <1>2, <1>3
  <2>2. QED
    BY <2>1
<1>5. QED
  BY <1>4

-----------------------------------------------------------------------------
(* The order. *)

\* The levels are ranked by numbers.
LEMMA SpecificityType ==
  ASSUME NEW policy, policy.scope_level \in {"org", "team", "agent"}
  PROVE  Specificity(policy) \in 1 .. 3
BY DEF Specificity

\* Before is a strict total order on the rows of a table.
LEMMA BeforeOrder ==
  ASSUME NEW table, Leveled(table),
         NEW i \in DOMAIN table, NEW j \in DOMAIN table, NEW k \in DOMAIN table
  PROVE  /\ ~Before(table, i, i)
         /\ Before(table, i, j) /\ Before(table, j, k) => Before(table, i, k)
         /\ i = j \/ Before(table, i, j) \/ Before(table, j, i)
<1>1. /\ Specificity(table[i]) \in 1 .. 3 /\ Specificity(table[j]) \in 1 .. 3
      /\ Specificity(table[k]) \in 1 .. 3
      /\ i \in Nat /\ j \in Nat /\ k \in Nat
  BY SpecificityType DEF Leveled
<1>2. QED
  BY <1>1 DEF Before

\* A place is one of the list's, and rows are in the order of their places.
LEMMA RankOrder ==
  ASSUME NEW table, Leveled(table), NEW rows \in SUBSET DOMAIN table,
         NEW i \in rows, NEW j \in rows
  PROVE  /\ IsFiniteSet(rows) /\ Cardinality(rows) \in Nat
         /\ Rank(table, rows, i) \in 1 .. Cardinality(rows)
         /\ Before(table, i, j) => Rank(table, rows, i) < Rank(table, rows, j)
<1> DEFINE A(x) == Ahead(table, rows, x)
<1>1. IsFiniteSet(rows) /\ Cardinality(rows) \in Nat
  <2>1. IsFiniteSet(rows)
    BY FS_Subset DEF Leveled
  <2>2. QED
    BY <2>1, FS_CardinalityType
<1>2. A(i) \in SUBSET rows /\ A(j) \in SUBSET rows /\ i \notin A(i)
  BY BeforeOrder DEF Ahead
<1>3. /\ IsFiniteSet(A(i)) /\ IsFiniteSet(A(j))
      /\ Cardinality(A(i)) \in Nat /\ Cardinality(A(j)) \in Nat
  <2>1. IsFiniteSet(A(i)) /\ IsFiniteSet(A(j))
    BY <1>1, <1>2, FS_Subset
  <2>2. QED
    BY <2>1, FS_CardinalityType
<1>4. Cardinality(A(i)) + 1 <= Cardinality(rows)
  <2>1. Cardinality(A(i)) <= Cardinality(rows)
    BY <1>1, <1>2, FS_Subset
  <2>2. Cardinality(A(i)) # Cardinality(rows)
    BY <1>1, <1>2, FS_Subset
  <2>3. QED
    BY <1>1, <1>3, <2>1, <2>2
<1>5. ASSUME Before(table, i, j)
      PROVE  Cardinality(A(i)) < Cardinality(A(j))
  <2>1. A(i) \in SUBSET A(j)
    BY <1>5, BeforeOrder DEF Ahead
  <2>2. A(i) # A(j)
    BY <1>2, <1>5 DEF Ahead
  <2>3. Cardinality(A(i)) <= Cardinality(A(j))
    BY <1>3, <2>1, FS_Subset
  <2>4. Cardinality(A(i)) # Cardinality(A(j))
    BY <1>3, <2>1, <2>2, FS_Subset
  <2>5. QED
    BY <1>3, <2>3, <2>4
<1> HIDE DEF A
<1>6. /\ Rank(table, rows, i) = Cardinality(A(i)) + 1
      /\ Rank(table, rows, j) = Cardinality(A(j)) + 1
  BY DEF Rank, A
<1>7. QED
  BY <1>1, <1>3, <1>4, <1>5, <1>6

\* Every place of the list is some row's.
LEMMA Ranked ==
  ASSUME NEW table, Leveled(table), NEW rows \in SUBSET DOMAIN table,
         NEW n \in 1 .. Cardinality(rows)
  PROVE  \E i \in rows : Rank(table, rows, i) = n
<1> DEFINE size  == Cardinality(rows)
           place == [i \in rows |-> Rank(table, rows, i)]
<1>1. IsFiniteSet(rows) /\ size \in Nat
  <2>1. IsFiniteSet(rows)
    BY FS_Subset DEF Leveled
  <2>2. QED
    BY <2>1, FS_CardinalityType
<1>2. place \in [rows -> 1 .. size]
  BY RankOrder
<1>3. \A i, j \in rows : place[i] = place[j] => i = j
  <2> SUFFICES ASSUME NEW i \in rows, NEW j \in rows, i # j
               PROVE  Rank(table, rows, i) # Rank(table, rows, j)
    OBVIOUS
  <2>1. Before(table, i, j) \/ Before(table, j, i)
    BY BeforeOrder
  <2>2. Rank(table, rows, i) \in Nat /\ Rank(table, rows, j) \in Nat
    BY RankOrder
  <2>3. Rank(table, rows, i) < Rank(table, rows, j) \/ Rank(table, rows, j) < Rank(table, rows, i)
    BY <2>1, RankOrder
  <2>4. QED
    BY <2>2, <2>3
<1>4. IsFiniteSet(1 .. size) /\ Cardinality(1 .. size) = size
  <2>1. 1 \in Int /\ size \in Int
    BY <1>1
  <2>2. IsFiniteSet(1 .. size) /\ Cardinality(1 .. size) = IF 1 > size THEN 0 ELSE size - 1 + 1
    BY <2>1, FS_Interval
  <2>3. QED
    BY <1>1, <2>2
<1> HIDE DEF place, size
<1>5. place \in Injection(rows, 1 .. size)
  BY <1>2, <1>3 DEF Injection, IsInjective
<1>6. place \in Surjection(rows, 1 .. size)
  BY <1>4, <1>5, FS_Injection DEF size
<1>7. PICK i \in rows : place[i] = n
  BY <1>6 DEF Surjection, size
<1>8. QED
  BY <1>7 DEF place

\* The list has every row once, each at its place, the most specific first.
LEMMA Sorted ==
  ASSUME NEW table, Leveled(table), NEW rows \in SUBSET DOMAIN table
  PROVE  /\ Cardinality(rows) \in Nat
         /\ \A n \in 1 .. Cardinality(rows) :
              /\ Nth(table, rows, n) \in rows
              /\ SpecificFirst(table, rows)[n] = table[Nth(table, rows, n)]
         /\ DOMAIN SpecificFirst(table, rows) = 1 .. Cardinality(rows)
         /\ Len(SpecificFirst(table, rows)) = Cardinality(rows)
         /\ \A i \in rows : \E n \in 1 .. Cardinality(rows) : Nth(table, rows, n) = i
         /\ \A m, n \in 1 .. Cardinality(rows) :
              m < n => Before(table, Nth(table, rows, m), Nth(table, rows, n))
<1> DEFINE size == Cardinality(rows)
<1>1. size \in Nat
  <2>1. IsFiniteSet(rows)
    BY FS_Subset DEF Leveled
  <2>2. QED
    BY <2>1, FS_CardinalityType
<1>2. ASSUME NEW n \in 1 .. size
      PROVE  Nth(table, rows, n) \in rows /\ Rank(table, rows, Nth(table, rows, n)) = n
  BY Ranked DEF Nth
<1>3. SpecificFirst(table, rows) = [n \in 1 .. size |-> table[Nth(table, rows, n)]]
  BY DEF SpecificFirst, Nth, Rank, Ahead
<1>4. Len(SpecificFirst(table, rows)) = size
  BY <1>1, <1>3
<1>5. ASSUME NEW i \in rows, NEW j \in rows, Rank(table, rows, i) = Rank(table, rows, j)
      PROVE  i = j
  <2>1. Rank(table, rows, i) \in Nat /\ Rank(table, rows, j) \in Nat
    BY RankOrder
  <2>2. ~Before(table, i, j) /\ ~Before(table, j, i)
    BY <1>5, <2>1, RankOrder
  <2>3. QED
    BY <2>2, BeforeOrder
<1>6. ASSUME NEW i \in rows
      PROVE  \E n \in 1 .. size : Nth(table, rows, n) = i
  <2>1. PICK n \in 1 .. size : n = Rank(table, rows, i)
    BY RankOrder
  <2>2. Nth(table, rows, n) = i
    BY <1>2, <1>5, <2>1
  <2>3. QED
    BY <2>2
<1>7. ASSUME NEW m \in 1 .. size, NEW n \in 1 .. size, m < n
      PROVE  Before(table, Nth(table, rows, m), Nth(table, rows, n))
  <2>1. PICK i \in rows, j \in rows : i = Nth(table, rows, m) /\ j = Nth(table, rows, n)
    BY <1>2
  <2>2. Rank(table, rows, i) = m /\ Rank(table, rows, j) = n
    BY <1>2, <2>1
  <2>3. m \in Nat /\ n \in Nat /\ ~(n < m)
    BY <1>1, <1>7
  <2>4. i # j /\ ~Before(table, j, i)
    BY <1>7, <2>2, <2>3, RankOrder
  <2>5. Before(table, i, j)
    BY <2>4, BeforeOrder
  <2>6. QED
    BY <2>1, <2>5
<1> HIDE DEF size
<1>8. QED
  BY <1>1, <1>2, <1>3, <1>4, <1>6, <1>7 DEF size

-----------------------------------------------------------------------------
(* The decision. *)

\* A row that decides: it applies, and it is before all others that do.
First(table, req, i) ==
  /\ i \in Applicable(table, req)
  /\ \A j \in Applicable(table, req) : i = j \/ Before(table, i, j)

\* The loop stops at the first row of the sorted list that applies.
LEMMA LoopDecides ==
  ASSUME NEW table, Leveled(table), NEW req
  PROVE  \/ Applicable(table, req) = {} /\ evaluate(table, req) = DefaultDecision
         \/ \E i : First(table, req, i) /\ evaluate(table, req) = Decision(table[i], req)
<1> DEFINE rows     == OfOrg(table, req)
           size     == Cardinality(rows)
           nth(n)   == Nth(table, rows, n)
           policies == SpecificFirst(table, rows)
           T        == {n \in 1 .. Len(policies) : InScope(policies[n], req) /\ EndsLoop(policies[n].compiled, req)}
<1>1. rows \in SUBSET DOMAIN table
  BY DEF OfOrg
<1>2. /\ size \in Nat /\ Len(policies) = size
      /\ \A n \in 1 .. size : nth(n) \in rows /\ policies[n] = table[nth(n)]
      /\ \A i \in rows : \E n \in 1 .. size : nth(n) = i
  BY <1>1, Sorted
<1>3. \A m, n \in 1 .. size : m < n => Before(table, nth(m), nth(n))
  BY <1>1, Sorted
<1>4. evaluate(table, req) = IF (IF T # {} THEN Min(T) ELSE 0) = 0 THEN DefaultDecision
                             ELSE Decision(policies[IF T # {} THEN Min(T) ELSE 0], req)
  BY DEF evaluate, SelectInSeq
<1> HIDE DEF rows, size, nth, policies
<1>5. \A i : i \in Applicable(table, req) <=>
             i \in rows /\ InScope(table[i], req) /\ EndsLoop(table[i].compiled, req)
  BY DEF Applicable, rows, OfOrg
<1>6. \A n : n \in T <=> n \in 1 .. size /\ nth(n) \in Applicable(table, req)
  BY <1>2, <1>5
<1>7. T \subseteq 1 .. size
  BY <1>2
<1> HIDE DEF T
<1>8. CASE T = {}
  <2>1. Applicable(table, req) = {}
    BY <1>2, <1>5, <1>6, <1>8
  <2>2. evaluate(table, req) = DefaultDecision
    BY <1>4, <1>8
  <2>3. QED
    BY <2>1, <2>2
<1>9. CASE T # {}
  <2>1. T \in SUBSET Nat
    BY <1>2, <1>7
  <2>2. \E x \in T : \A y \in T : x <= y
    BY <1>9, <2>1, Least
  <2>3. Min(T) \in T /\ \A y \in T : Min(T) <= y
    BY <2>2 DEF Min
  <2>4. PICK k \in 1 .. size : k = Min(T)
    BY <1>7, <2>3
  <2>5. k # 0 /\ k \in Nat
    BY <1>2
  <2>6. evaluate(table, req) = Decision(table[nth(k)], req)
    BY <1>2, <1>4, <1>9, <2>4, <2>5
  <2>7. nth(k) \in Applicable(table, req)
    BY <1>6, <2>3, <2>4
  <2>8. ASSUME NEW j \in Applicable(table, req)
        PROVE  nth(k) = j \/ Before(table, nth(k), j)
    <3>1. PICK n \in 1 .. size : nth(n) = j
      BY <1>2, <1>5
    <3>2. n \in T
      BY <1>6, <3>1
    <3>3. k = n \/ k < n
      BY <1>2, <2>3, <2>4, <3>2
    <3>4. QED
      BY <1>3, <3>1, <3>3
  <2>9. First(table, req, nth(k))
    BY <2>7, <2>8 DEF First
  <2>10. QED
    BY <2>6, <2>9
<1>10. QED
  BY <1>8, <1>9

\* The row that is before all others that apply is the prescribed one.
LEMMA FirstPrescribed ==
  ASSUME NEW table, Leveled(table), NEW req, NEW i, First(table, req, i)
  PROVE  Prescribed(table, req) = Decision(table[i], req)
<1> DEFINE rows == Applicable(table, req)
           best == {k \in rows : \A j \in rows : Specificity(table[j]) <= Specificity(table[k])}
           Oldest(k) == \A j \in best : k <= j
<1>1. \A j \in rows : j \in Nat /\ Specificity(table[j]) \in 1 .. 3
  BY SpecificityType DEF Leveled, Applicable
<1>2. i \in rows /\ \A j \in rows : i = j \/ Before(table, i, j)
  BY DEF First
<1>3. i \in best
  BY <1>1, <1>2 DEF Before
<1>4. Oldest(i)
  <2> SUFFICES ASSUME NEW j \in best
               PROVE  i <= j
    OBVIOUS
  <2>1. j \in rows /\ Specificity(table[i]) <= Specificity(table[j])
    BY <1>2
  <2>2. i = j \/ Before(table, i, j)
    BY <1>2, <2>1
  <2>3. QED
    BY <1>1, <1>2, <2>1, <2>2 DEF Before
<1>5. \A k \in best : Oldest(k) => k = i
  <2> SUFFICES ASSUME NEW k \in best, Oldest(k)
               PROVE  k = i
    OBVIOUS
  <2>1. k <= i /\ i <= k /\ k \in Nat /\ i \in Nat
    BY <1>1, <1>2, <1>3, <1>4
  <2>2. QED
    BY <2>1
<1>6. (CHOOSE k \in best : Oldest(k)) = i
  BY <1>3, <1>4, <1>5
<1>7. Prescribed(table, req) = Decision(table[CHOOSE k \in best : Oldest(k)], req)
  BY <1>2 DEF Prescribed
<1>8. QED
  BY <1>6, <1>7

\* Every request gets the prescribed decision: a policy of the organisation that
\* applies, none that applies being more specific or as specific and older.
THEOREM EvaluateAgrees ==
  ASSUME NEW table, Leveled(table), NEW req
  PROVE  /\ evaluate(table, req) = Prescribed(table, req)
         /\ simulate(table, req) = evaluate(table, req)
<1>1. simulate(table, req) = evaluate(table, req)
  BY DEF simulate, evaluate
<1>2. CASE Applicable(table, req) = {} /\ evaluate(table, req) = DefaultDecision
  BY <1>1, <1>2 DEF Prescribed
<1>3. ASSUME NEW i, First(table, req, i), evaluate(table, req) = Decision(table[i], req)
      PROVE  evaluate(table, req) = Prescribed(table, req)
  BY <1>3, FirstPrescribed
<1>4. QED
  BY <1>1, <1>2, <1>3, LoopDecides

\* A change that leaves every row alone that applies to a request, before and
\* after, leaves its decision alone.
LEMMA LocalChange ==
  ASSUME NEW table, Leveled(table), NEW changed, Leveled(changed), NEW req,
         DOMAIN table \subseteq DOMAIN changed,
         \A i \in Applicable(table, req) \cup Applicable(changed, req) :
           i \in DOMAIN table /\ changed[i] = table[i]
  PROVE  evaluate(changed, req) = evaluate(table, req)
<1>1. Applicable(table, req) = Applicable(changed, req)
  BY DEF Applicable
<1>2. CASE Applicable(table, req) = {}
  <2>1. ~\E i : First(table, req, i)
    BY <1>2 DEF First
  <2>2. ~\E i : First(changed, req, i)
    BY <1>1, <1>2 DEF First
  <2>3. QED
    BY <2>1, <2>2, LoopDecides
<1>3. CASE Applicable(table, req) # {}
  <2>1. PICK i : First(table, req, i)
    BY <1>3, LoopDecides
  <2>2. i \in Applicable(table, req)
    BY <2>1 DEF First
  <2>3. changed[i] = table[i]
    BY <2>2
  <2>4. First(changed, req, i)
    BY <1>1, <2>1 DEF First, Before
  <2>5. Prescribed(table, req) = Decision(table[i], req) /\ Prescribed(changed, req) = Decision(changed[i], req)
    BY <2>1, <2>4, FirstPrescribed
  <2>6. QED
    BY <2>3, <2>5, EvaluateAgrees
<1>4. QED
  BY <1>2, <1>3
=============================================================================
