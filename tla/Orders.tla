-------------------------------- MODULE Orders -------------------------------
(* Sorting, as the knowledge base uses it: a finite set laid out as a       *)
(* sequence, in a form that can be reasoned about without recursion.        *)
EXTENDS Naturals, FiniteSets

\* The elements of S, those before x in the strict total order R in front of x.
Ordered(S, R) ==
    LET rank(x) == Cardinality({y \in S : <<y, x>> \in R})
    IN  [i \in 1..Cardinality(S) |-> CHOOSE x \in S : rank(x) = i - 1]

Less(S) == {e \in S \X S : e[1] < e[2]}
Ascending(S) == Ordered(S, Less(S))

Least(S) == CHOOSE i \in S : \A j \in S : i <= j
Furthest(S) == CHOOSE i \in S : \A j \in S : j <= i
=============================================================================
