------------------------------- MODULE Listing -------------------------------
(***************************************************************************)
(* Sorting, filtering and summing, by ranks and sums instead of loops: a   *)
(* sort is the sequence whose k-th element has k - 1 elements before it.   *)
(***************************************************************************)
EXTENDS Integers, Sequences, FiniteSets

\* The pairs of S that a comparison puts in order.
Ordering(S, before(_, _)) == {xy \in S \X S : before(xy[1], xy[2])}

\* One more than the elements of S that come before x.
RankIn(S, R, x) == 1 + Cardinality({y \in S : <<y, x>> \in R})

\* S as a sequence, in the order of R.
InOrder(S, R) == [k \in 1..Cardinality(S) |-> CHOOSE x \in S : RankIn(S, R, x) = k]

\* Some places of a sequence, from first to last.
Places(S) == InOrder(S, Ordering(S, LAMBDA i, j : i < j))

\* The elements of s at these places: what a filter leaves.
Keeping(s, S) == [k \in 1..Cardinality(S) |-> s[Places(S)[k]]]

\* The results that are there, of a sequence of results that may be missing.
Filled(results) ==
    LET there == {i \in DOMAIN results : results[i] # <<>>}
    IN  [k \in 1..Cardinality(there) |-> results[Places(there)[k]][1]]

\* s by falling keys; of equals, the one that came first.
Falling(s, keys) ==
    LET D == DOMAIN s
        before(i, j) == keys[i] > keys[j] \/ (keys[i] = keys[j] /\ i < j)
    IN  [k \in D |-> s[InOrder(D, Ordering(D, before))[k]]]

\* The sequences of a sequence, one after another.
Concat(ss) ==
    LET upTo[n \in 0..Len(ss)] == IF n = 0 THEN <<>> ELSE upTo[n - 1] \o ss[n]
    IN  upTo[Len(ss)]

Total(s) ==
    LET upTo[n \in 0..Len(s)] == IF n = 0 THEN 0 ELSE upTo[n - 1] + s[n]
    IN  upTo[Len(s)]
=============================================================================
