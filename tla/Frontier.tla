-------------------------------- MODULE Frontier --------------------------------
(***************************************************************************)
(* reporting/frontier.py: which of the directories that grew a report      *)
(* lists, and how a directory's change is broken down by its children.     *)
(* A row is a record with at least path, class, disk (the change of        *)
(* disk_bytes) and apparent (the change of apparent_bytes).                *)
(***************************************************************************)
EXTENDS DirPaths, FiniteSetsExt

Depth(row) == Len(row.path)

\* d explains at least FRONTIER_DOMINANCE_RATIO = 0.95 of a's growth.
Dominates(d, a) == 100 * d.disk >= 95 * a.disk

Candidates(rows) ==
  {r \in rows : r.class \in {"created", "grown"} /\ r.disk > 0}

\* The order in which candidates are considered.
CandidateKey(r) == <<-r.disk, -Depth(r)>>

\* _dominated_ancestor_index: the descendants that stand in for candidate a.
StandIns(a, cands) ==
  {d \in cands : a.path \in Ancestors(d.path) /\ Dominates(d, a)}

Surviving(cands) == {a \in cands : StandIns(a, cands) = {}}

\* Mutant: a candidate that is itself dropped hides its descendants, too.
SuppressedByAny(kept, cands) ==
  {d \in cands : \E a \in cands : /\ a.path \in Ancestors(d.path)
                                  /\ ~ Dominates(d, a)}

\* Mutant: descendants are listed beside the ancestor whose growth they are part of.
SuppressedByNone(kept, cands) == {}

\* _first_retained_suppressing_ancestor: the candidates a retained ancestor hides.
Suppressed(kept, cands) ==
  {d \in cands : \E a \in kept : /\ a.path \in Ancestors(d.path)
                                 /\ ~ Dominates(d, a)}

\* _suppressed_descendant_index: one pass in the order of the candidates.
RetainedOf(surviving, cands) ==
  LET list == Ordered(surviving, CandidateKey)
      kept[n \in 0 .. Len(list)] ==
        IF n = 0 THEN {}
        ELSE LET earlier == kept[n - 1]
             IN  IF list[n] \in Suppressed(earlier, cands) THEN earlier
                 ELSE earlier \union {list[n]}
  IN  kept[Len(list)]

\* prune_growth_frontier, for the rows of one snapshot pair.
PruneGrowthFrontier(rows) ==
  LET cands == Candidates(rows)
  IN  Ordered(RetainedOf(Surviving(cands), cands), CandidateKey)

--------------------------------------------------------------------------------
Total(rows, Value(_)) == SumFunctionOnSet([r \in rows |-> Value(r)], rows)

ChildKey(r) == <<-r.disk, -r.apparent>>

\* The rows explain_path_breakdown lists under one child of its target.
Below(child, descendants, maxDepth) ==
  Ordered({r \in descendants : /\ child.path \in Ancestors(r.path)
                               /\ Depth(r) <= maxDepth},
          LAMBDA r : <<Depth(r)>>)

\* Mutant: every listed row is taken off the target's change.
BreakdownTwice(rows, target, limit, depth) ==
  LET descendants == {r \in rows : /\ target.path \in Ancestors(r.path)
                                   /\ r.class # "unchanged"}
      listed == {r \in descendants : Depth(r) <= Depth(target) + depth}
  IN  [children |-> Ordered(listed, ChildKey),
       unshown  |-> target.disk - Total(listed, LAMBDA r : r.disk)]

\* explain_path_breakdown: children in order until limit rows are listed, each
\* followed by what is below it, and the change no listed child accounts for.
ExplainPathBreakdown(rows, target, limit, depth) ==
  LET descendants == {r \in rows : /\ target.path \in Ancestors(r.path)
                                   /\ r.class # "unchanged"}
      list == Ordered({r \in descendants : Parent(r.path) = target.path}, ChildKey)
      taken == IF depth = 0 THEN 0 ELSE Len(list)
      acc[n \in 0 .. taken] ==
        IF n = 0 THEN [shown |-> {}, children |-> <<>>]
        ELSE LET earlier == acc[n - 1]
             IN  IF Len(earlier.children) >= limit THEN earlier
                 ELSE [shown |-> earlier.shown \union {list[n]},
                       children |->
                         Limited(Append(earlier.children, list[n])
                                   \o (IF depth <= 1 THEN <<>>
                                       ELSE Below(list[n], descendants, Depth(target) + depth)),
                                 limit)]
  IN  [children |-> acc[taken].children,
       unshown  |-> target.disk - Total(acc[taken].shown, LAMBDA r : r.disk)]
================================================================================
