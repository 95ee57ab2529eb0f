------------------------------- MODULE Lists --------------------------------
(* Lists of container/list as sequences, the front first.                    *)
EXTENDS Integers, FiniteSets, Sequences, Functions

\* What is left of s when the elements that are not in S have been removed: at
\* place n the one of them that has n - 1 of them in front of it.
Keeping(s, S) ==
    LET I == {i \in DOMAIN s : s[i] \in S}
    IN  [n \in 1..Cardinality(I) |->
           s[CHOOSE i \in I : Cardinality({j \in I : j <= i}) = n]]

\* s without the elements in S.
Dropping(s, S) == Keeping(s, Range(s) \ S)
=============================================================================
