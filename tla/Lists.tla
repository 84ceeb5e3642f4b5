-------------------------------- MODULE Lists --------------------------------
(***************************************************************************)
(* What Python does with a list by a comprehension and by sorted(), in     *)
(* terms of the places of the elements.                                    *)
(***************************************************************************)
EXTENDS Integers, Sequences, FiniteSets

\* The elements of a sequence that are in a set, in their order.
Keeping(seq, S) ==
  LET kept   == {i \in DOMAIN seq : seq[i] \in S}
      nth(n) == CHOOSE i \in kept : Cardinality({k \in kept : k < i}) = n - 1
  IN [n \in 1..Cardinality(kept) |-> seq[nth(n)]]

\* The elements of a sequence in the order Before, a stable sort: the place of
\* each is one more than the number of those that come before it.
Arranged(seq, Before(_, _)) ==
  LET ahead(i) == {k \in DOMAIN seq : Before(seq[k], seq[i]) \/ (k < i /\ ~Before(seq[i], seq[k]))}
      nth(n)   == CHOOSE i \in DOMAIN seq : Cardinality(ahead(i)) = n - 1
  IN [n \in DOMAIN seq |-> seq[nth(n)]]
=============================================================================
