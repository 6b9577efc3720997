--------------------------- MODULE PositionsProofs ---------------------------
(***************************************************************************)
(* What appending a line to the scanned prefix does to Ordered: a passing *)
(* line, later than all positions so far, is appended at the end.         *)
(***************************************************************************)
EXTENDS Positions, FiniteSetTheorems, TLAPS

\* Ordered of no positions is the empty list.
LEMMA OrderedEmpty == Ordered({}) = << >>
BY FS_EmptySet DEF Ordered

\* The ordered list of K has one element per position of K.
LEMMA OrderedLen ==
    ASSUME NEW K, IsFiniteSet(K)
    PROVE  /\ Len(Ordered(K)) = Cardinality(K)
           /\ DOMAIN Ordered(K) = 1..Cardinality(K)
<1>1. Cardinality(K) \in Nat
  BY FS_CardinalityType
<1>2. QED
  BY <1>1 DEF Ordered

\* A position later than every position of K is the last of K \cup {x},
\* and the earlier ones keep their places.
LEMMA OrderedExtend ==
    ASSUME NEW K \in SUBSET Nat, IsFiniteSet(K), NEW x \in Nat,
           \A k \in K : k < x
    PROVE  Ordered(K \cup {x}) = Append(Ordered(K), x)
<1> DEFINE L == K \cup {x}
           n == Cardinality(K)
<1>1. n \in Nat /\ x \notin K
  BY FS_CardinalityType
<1>2. IsFiniteSet(L) /\ Cardinality(L) = n + 1
  BY <1>1, FS_AddElement
<1>3. \A k \in K : Rank(L, k) = Rank(K, k)
  <2> TAKE k \in K
  <2>1. {m \in L : m <= k} = {m \in K : m <= k}
    OBVIOUS
  <2>2. QED
    BY <2>1 DEF Rank
<1>4. \A k \in K : Rank(K, k) <= n
  <2> TAKE k \in K
  <2>1. {m \in K : m <= k} \subseteq K
    OBVIOUS
  <2>2. QED
    BY <2>1, FS_Subset DEF Rank
<1>5. Rank(L, x) = n + 1
  <2>1. \A m \in L : m <= x
    OBVIOUS
  <2>2. {m \in L : m <= x} = L
    BY <2>1
  <2>3. QED
    BY <2>2, <1>2 DEF Rank
<1>6. ASSUME NEW j \in 1..n
      PROVE  Ordered(L)[j] = Ordered(K)[j]
  <2>1. ASSUME NEW k
        PROVE  (k \in L /\ Rank(L, k) = j) <=> (k \in K /\ Rank(K, k) = j)
    <3>1. CASE k = x
      BY <3>1, <1>1, <1>5
    <3>2. CASE k # x
      BY <3>2, <1>3
    <3>3. QED
      BY <3>1, <3>2
  <2>2. (CHOOSE k \in L : Rank(L, k) = j) = (CHOOSE k \in K : Rank(K, k) = j)
    BY <2>1, Zenon
  <2>3. j \in 1..Cardinality(L) /\ j \in 1..Cardinality(K)
    BY <1>1, <1>2
  <2>4. QED
    BY <2>2, <2>3 DEF Ordered
<1>7. Ordered(L)[n + 1] = x
  <2>1. ASSUME NEW k
        PROVE  (k \in L /\ Rank(L, k) = n + 1) <=> k = x
    <3>1. CASE k = x
      BY <3>1, <1>5
    <3>2. CASE k \in K
      BY <3>2, <1>1, <1>3, <1>4
    <3>3. QED
      BY <3>1, <3>2
  <2>2. (CHOOSE k \in L : Rank(L, k) = n + 1) = x
    BY <2>1, Zenon
  <2>3. n + 1 \in 1..Cardinality(L)
    BY <1>1, <1>2
  <2>4. QED
    BY <2>2, <2>3 DEF Ordered
<1>8. /\ DOMAIN Ordered(L) = 1..n + 1
      /\ DOMAIN Ordered(K) = 1..n
  BY <1>1, <1>2 DEF Ordered
<1>9. Append(Ordered(K), x) = [j \in 1..n + 1 |-> IF j <= n THEN Ordered(K)[j] ELSE x]
  BY <1>1, <1>8 DEF Ordered
<1>10. Ordered(L) = [j \in 1..n + 1 |-> Ordered(L)[j]]
  BY <1>1, <1>2 DEF Ordered
<1>11. \A j \in 1..n + 1 : Ordered(L)[j] = IF j <= n THEN Ordered(K)[j] ELSE x
  BY <1>1, <1>6, <1>7
<1>12. QED
  BY <1>9, <1>10, <1>11
\* Reading line n + 1: the passing positions among the first n + 1 lines
\* are those among the first n, and n + 1 if it passes; they are finite,
\* one more when n + 1 passes, and n + 1 comes last in their order.
LEMMA PrefixStep ==
    ASSUME NEW T, NEW n \in Nat
    PROVE  /\ IsFiniteSet(T \cap 1..n) /\ T \cap 1..n \subseteq Nat
           /\ Cardinality(T \cap 1..n) \in Nat
           /\ T \cap 1..n + 1 = IF n + 1 \in T THEN (T \cap 1..n) \cup {n + 1}
                                                ELSE T \cap 1..n
           /\ Cardinality(T \cap 1..n + 1) =
                 Cardinality(T \cap 1..n) + (IF n + 1 \in T THEN 1 ELSE 0)
           /\ Ordered(T \cap 1..n + 1) =
                 IF n + 1 \in T THEN Append(Ordered(T \cap 1..n), n + 1)
                                ELSE Ordered(T \cap 1..n)
<1> DEFINE S == T \cap 1..n
           S1 == T \cap 1..n + 1
<1>1. IsFiniteSet(S) /\ S \subseteq Nat /\ Cardinality(S) \in Nat
  <2>1. IsFiniteSet(1..n)
    BY FS_Interval
  <2>2. QED
    BY <2>1, FS_Subset, FS_CardinalityType
<1>2. S1 = IF n + 1 \in T THEN S \cup {n + 1} ELSE S
  OBVIOUS
<1>3. CASE n + 1 \in T
  <2>1. n + 1 \notin S /\ \A k \in S : k < n + 1
    OBVIOUS
  <2>2. Cardinality(S1) = Cardinality(S) + 1
    BY <1>1, <1>2, <1>3, <2>1, FS_AddElement
  <2>3. Ordered(S \cup {n + 1}) = Append(Ordered(S), n + 1)
    <3>1. n + 1 \in Nat
      OBVIOUS
    <3>2. QED
      BY <1>1, <2>1, <3>1, OrderedExtend
  <2>4. Ordered(S1) = Append(Ordered(S), n + 1)
    BY <1>2, <1>3, <2>3
  <2>5. QED
    BY <1>1, <1>2, <1>3, <2>2, <2>4
<1>4. CASE n + 1 \notin T
  BY <1>1, <1>2, <1>4
<1>5. QED
  BY <1>3, <1>4
=============================================================================
