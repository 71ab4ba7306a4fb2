------------------------------ MODULE KeptPart ------------------------------
(***************************************************************************)
(* The part of a sequence that a loop or a comprehension of the code keeps:*)
(* the elements at some of its positions, in the order they had.  SelectSeq*)
(* is the same by recursion; this definition can be reasoned about without *)
(* induction.  And the sum of a sequence, by recursion on a position.      *)
(***************************************************************************)
EXTENDS Integers, Sequences, FiniteSets

\* The place of position i among the positions in I, from 1.
Rank(i, I) == Cardinality({j \in I : j <= i})

\* The elements of q at the positions in I.
KeptAt(q, I) ==
  [n \in 1..Cardinality(I) |-> q[CHOOSE i \in I : Rank(i, I) = n]]

\* q without the elements of S.
Without(q, S) == KeptAt(q, {i \in DOMAIN q : q[i] \notin S})

\* q after elements have been taken off its left end as long as their
\* positions are in B.
DropLeading(q, B) ==
  LET keep == {i \in 1..(Len(q) + 1) : \A j \in 1..(i - 1) : j \in B}
      first == CHOOSE i \in keep : \A j \in keep : j <= i
  IN SubSeq(q, first, Len(q))

\* The sum of a sequence of numbers.
Total(q) ==
  LET upTo[n \in 0..Len(q)] == IF n = 0 THEN 0 ELSE upTo[n - 1] + q[n]
  IN upTo[Len(q)]
=============================================================================
