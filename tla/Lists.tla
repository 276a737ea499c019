--------------------------------- MODULE Lists ---------------------------------
\* What is found in a list by its places.
EXTENDS Naturals, Sequences, FiniteSets

\* The first of some places.
Least(I) == CHOOSE i \in I : \A j \in I : i <= j

\* Numbers in ascending order.
InOrder(C) == [k \in 1..Cardinality(C) |-> CHOOSE c \in C : Cardinality({b \in C : b <= c}) = k]

\* Array.filter: what a list has at some of its places, in its order.
Taken(s, I) == [k \in 1..Cardinality(I) |-> s[InOrder(I)[k]]]

\* Array.find, with another condition if nothing meets the first: a ?? b.
Preferred(I, J) == IF I # {} THEN I ELSE J

=============================================================================
