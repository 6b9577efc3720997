------------------------------ MODULE Positions ------------------------------
(***************************************************************************)
(* Line positions in file order.  The scanners append a line's number or  *)
(* value to a list when the line passes a test; the list they build is    *)
(* the set of passing positions read in increasing order.  Ordered(K)     *)
(* states that order without recursion: the j-th element of K is the one  *)
(* with exactly j elements of K up to it.                                 *)
(***************************************************************************)
EXTENDS Naturals, Sequences, FiniteSets

\* The place of k in K counted in increasing order (1 for the least).
Rank(K, k) == Cardinality({m \in K : m <= k})

\* The elements of a finite set of positions, in increasing order.
Ordered(K) == [j \in 1..Cardinality(K) |-> CHOOSE k \in K : Rank(K, k) = j]

=============================================================================
