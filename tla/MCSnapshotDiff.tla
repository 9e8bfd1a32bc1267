----------------------------- MODULE MCSnapshotDiff -----------------------------
(* Instances of SnapshotDiff and PathHistory for TLC. *)
EXTENDS PathHistory

a == <<1>>
ab == <<1, 1>>
abd == <<1, 1, 1>>
c == <<2>>
cb == <<2, 1>>
e == <<3>>

\* With 1 and 19 in a directory and 19 below it, both sides of the ratio 0.95
\* occur; small and sparse differ in apparent bytes only.
small  == [disk |-> 1, apparent |-> 1]
sparse == [disk |-> 1, apparent |-> 2]
big    == [disk |-> 19, apparent |-> 19]

Closed(ps) == \A p \in ps : Ancestors(p) \subseteq ps

TreesOver(ps, sizes) ==
  UNION {[s \union {Root} -> sizes] : s \in {t \in SUBSET ps : Closed(t \union {Root})}}

\* A chain of three directories beside another one, in which ab may have changed
\* in apparent bytes only, and two subtrees of the same shape, of which one can
\* be the other renamed, beside a large directory.
ChainTrees ==
  {t \in TreesOver({a, ab, abd, c}, {small, sparse, big}) :
     t[Root] = small /\ \A p \in DOMAIN t \ {ab} : t[p] # sparse}
TwinTrees ==
  {t \in TreesOver({a, ab, c, cb, e}, {small, big}) :
     t[Root] = small /\ (e \in DOMAIN t => t[e] = big)}
MCTrees == ChainTrees \union TwinTrees
MCFolds == {{}, {a}}

\* Everything is read; or nothing of a, whose row carries an error; or all but c,
\* which could not be looked up, and e, where a virtual filesystem is mounted.
zero == [disk |-> 0, apparent |-> 0]
MCMisses ==
  {[cut |-> Nothing, absent |-> {}, virtual |-> {}],
   [cut |-> a :> zero, absent |-> {ab}, virtual |-> {}],
   [cut |-> Root :> small, absent |-> {c}, virtual |-> {e}]}
================================================================================
