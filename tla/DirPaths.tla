-------------------------------- MODULE DirPaths --------------------------------
(***************************************************************************)
(* Directory paths as the report code takes them apart.  A path is the     *)
(* sequence of its components, so that "/" is the empty sequence, and      *)
(* components are numbers, ordered as the bytes of the names are.          *)
(***************************************************************************)
EXTENDS Integers, SequencesExt

\* What following _parent_of up to "/" visits.
Ancestors(p) == {SubSeq(p, 1, n) : n \in 0 .. Len(p) - 1}

Parent(p) == SubSeq(p, 1, Len(p) - 1)

\* A path at or below prefix: whole components are compared.
MatchesPathPrefix(p, prefix) == IsPrefix(prefix, p)

\* The order of the bytes of two paths.
PathLess(p, q) ==
  \/ IsStrictPrefix(p, q)
  \/ \E n \in 1 .. Len(p) : /\ n <= Len(q)
                            /\ SubSeq(p, 1, n - 1) = SubSeq(q, 1, n - 1)
                            /\ p[n] < q[n]

Abs(n) == IF n < 0 THEN -n ELSE n

\* ORDER BY a, b, ..., path: keys are compared in turn, then the paths.
KeyLess(k, l) ==
  \E n \in 1 .. Len(k) : /\ k[n] < l[n]
                         /\ \A m \in 1 .. n - 1 : k[m] = l[m]

\* The sorted list of a set: n - 1 of its elements come before the n-th.
SortedBy(S, before) ==
  [n \in 1 .. Cardinality(S) |->
     CHOOSE s \in S : Cardinality({t \in S : <<t, s>> \in before}) = n - 1]

RowLess(k, p, l, q) == KeyLess(k, l) \/ (k = l /\ PathLess(p, q))

\* The rows of a set in the order of Key, and of their paths where keys agree.
Ordered(rows, Key(_)) ==
  SortedBy(rows, {x \in rows \X rows :
                    RowLess(Key(x[1]), x[1].path, Key(x[2]), x[2].path)})

\* The first n rows of a list.
Limited(list, n) == SubSeq(list, 1, IF Len(list) < n THEN Len(list) ELSE n)
================================================================================
