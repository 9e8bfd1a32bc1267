------------------------------ MODULE SnapshotDiff ------------------------------
(***************************************************************************)
(* What diff, report, deleted, explain-path and investigate make of a pair *)
(* of scans of one root (reporting/queries.py, cli.py).  The model keeps   *)
(* the directories that really existed, and what each scan read of them,   *)
(* beside the rows the two scans stored, so that what a report says can be *)
(* held against what happened.                                             *)
(*                                                                         *)
(* A scan stores one row for each directory it reads, except below a       *)
(* directory it collapses; a row holds the sums over what was read of its  *)
(* subtree, as Scanner.tla shows.                                          *)
(***************************************************************************)
EXTENDS Frontier

CONSTANTS
  Trees,       \* what the root can hold: functions from directories to Sizes
  Folds,       \* what a scan can collapse: sets of directories
  Misses,      \* what a scan can leave out
  MaxDepth,    \* CLI_CONFIG.limits.max_fast_depth
  Limit        \* bound: the --limit of the commands

Sizes == [disk : Nat, apparent : Nat]

\* A tree is finite, and the directories above a directory are in it.
IsTree(tree) ==
  /\ tree \in [DOMAIN tree -> Sizes]
  /\ IsFiniteSet(DOMAIN tree)
  /\ DOMAIN tree \subseteq Seq(Nat)
  /\ \A p \in DOMAIN tree : Ancestors(p) \subseteq DOMAIN tree

\* cut: directories not read to the end, and what was counted of each; the row
\* carries an error.  None of its entries were read (it is unreadable, excluded
\* or a mount the policy skips), or the hard-link table was full, or an entry
\* could not be looked up.  absent: the directories in them that were not
\* reached.  virtual: mount points of virtual filesystems, passed over without
\* a row or an error.
IsMiss(miss) ==
  /\ miss.cut \in [DOMAIN miss.cut -> Sizes]
  /\ miss.absent \subseteq Seq(Nat) /\ miss.virtual \subseteq Seq(Nat)
  /\ \A p \in miss.absent : p # <<>> /\ Parent(p) \in DOMAIN miss.cut

ASSUME TreesAssumption == \A tree \in Trees : IsTree(tree)
ASSUME MissesAssumption == \A miss \in Misses : IsMiss(miss)

ASSUME LimitAssumption == Limit \in Nat

VARIABLES
  wasThere, isThere,   \* the directories at the baseline and the current scan
  old, new,            \* what the two scans read of them
  baseline, current    \* the rows they stored

vars == <<wasThere, isThere, old, new, baseline, current>>

Metrics == {"disk", "apparent"}

--------------------------------------------------------------------------------
(* Scans *)

UpTo(p) == {p} \union Ancestors(p)

\* What a scan that leaves miss out reads of a tree.
ReadOf(tree, miss) ==
  [p \in {q \in DOMAIN tree : UpTo(q) \intersect (miss.absent \union miss.virtual) = {}} |->
     IF p \in DOMAIN miss.cut THEN miss.cut[p] ELSE tree[p]]

\* The directories of a tree, and those in a virtual filesystem.
There(tree, miss) ==
  [dirs    |-> DOMAIN tree,
   virtual |-> {p \in DOMAIN tree : UpTo(p) \intersect miss.virtual # {}}]

Subtree(tree, p) == {q \in DOMAIN tree : MatchesPathPrefix(q, p)}

\* The rows of what was read; those in cut carry an error.
ScanOf(tree, fold, cut) ==
  [p \in {q \in DOMAIN tree : Ancestors(q) \intersect fold = {}} |->
     [disk      |-> Total(Subtree(tree, p), LAMBDA q : tree[q].disk),
      apparent  |-> Total(Subtree(tree, p), LAMBDA q : tree[q].apparent),
      collapsed |-> p \in fold,
      error     |-> p \in cut]]

Nothing == [p \in {} |-> 0]

Init ==
  /\ \E tree \in Trees, fold \in Folds, miss \in Misses :
       /\ wasThere = There(tree, miss)
       /\ old = ReadOf(tree, miss)
       /\ baseline = ScanOf(old, fold, DOMAIN miss.cut)
  /\ isThere = Nothing /\ new = Nothing /\ current = Nothing

Rescan ==
  /\ new = Nothing
  /\ \E tree \in Trees, fold \in Folds, miss \in Misses :
       /\ isThere' = There(tree, miss)
       /\ new' = ReadOf(tree, miss)
       /\ current' = ScanOf(new', fold, DOMAIN miss.cut)
  /\ UNCHANGED <<wasThere, old, baseline>>

Next == Rescan

Spec == Init /\ [][Next]_vars

--------------------------------------------------------------------------------
(* Rows of a diff *)

\* COALESCE(rows.m, 0)
Size(rows, p, m) == IF p \in DOMAIN rows THEN rows[p][m] ELSE 0

Change(p, m) == Size(current, p, m) - Size(baseline, p, m)

Direction(delta) == IF delta > 0 THEN "grown" ELSE "shrunk"

\* The CASE of the diff statement.
SqlClassification(p) ==
  IF p \notin DOMAIN baseline THEN "created"
  ELSE IF p \notin DOMAIN current THEN "deleted"
  ELSE IF Change(p, "disk") # 0 THEN Direction(Change(p, "disk"))
  ELSE IF Change(p, "apparent") # 0 THEN Direction(Change(p, "apparent"))
  ELSE "unchanged"

\* The collapsed rows of the current scan that a statement limited to the
\* subtree of target returns.
CurrentCollapsedPaths(target) ==
  {p \in DOMAIN current : current[p].collapsed /\ MatchesPathPrefix(p, target)}

\* Mutant: only the parent of the directory is looked up.
ClassificationByParent(p, collapsed) ==
  IF SqlClassification(p) = "deleted" /\ p # <<>> /\ Parent(p) \in collapsed
    THEN "hidden_by_collapse" ELSE SqlClassification(p)

\* A directory that is missing below a collapsed one is hidden, not deleted.
Classification(p, collapsed) ==
  IF SqlClassification(p) = "deleted" /\ Ancestors(p) \intersect collapsed # {}
    THEN "hidden_by_collapse" ELSE SqlClassification(p)

\* _query_diff_rows for the subtree of target.
DiffRows(target, includeUnchanged) ==
  {[path     |-> p,
    class    |-> Classification(p, CurrentCollapsedPaths(target)),
    previous |-> Size(baseline, p, "disk"),
    disk     |-> Change(p, "disk"),
    apparent |-> Change(p, "apparent")] :
     p \in {q \in DOMAIN baseline \union DOMAIN current :
              /\ MatchesPathPrefix(q, target)
              /\ includeUnchanged \/ SqlClassification(q) # "unchanged"}}

Root == <<>>

RowAt(rows, p) == CHOOSE r \in rows : r.path = p

\* query_deleted_rows, _deleted_rows_from_diff_rows
DeletedRows(rows) ==
  Limited(Ordered({r \in rows : r.class = "deleted"}, LAMBDA r : <<-r.previous>>),
          Limit)

\* Mutant: a directory is taken as folded only if both scans folded it.
FoldedInBoth(target) ==
  {p \in Ancestors(target) \intersect DOMAIN current \intersect DOMAIN baseline :
     current[p].collapsed /\ baseline[p].collapsed}

\* _query_deepest_collapsed_ancestor_path: where the detail below target went.
Folded(target) ==
  {p \in Ancestors(target) :
     \/ p \in DOMAIN current /\ current[p].collapsed
     \/ p \in DOMAIN baseline \ DOMAIN current /\ baseline[p].collapsed}

Deepest(ps) == CHOOSE p \in ps : \A q \in ps : Len(q) <= Len(p)

\* The row query_explain_path_rows explains for target: its own, that of the
\* directory its detail was folded into, or none (path_not_indexed).
ExplainedRow(target) ==
  LET own == DiffRows(target, TRUE)
  IN  IF \E r \in own : r.path = target THEN {RowAt(own, target)}
      ELSE IF Folded(target) = {} THEN {}
      ELSE {RowAt(DiffRows(Deepest(Folded(target)), TRUE), Deepest(Folded(target)))}

\* summarize_diff_rows: the totals of a report.
ReportSummary(rows, frontier) ==
  [counts   |-> [c \in {r.class : r \in rows} |->
                   Cardinality({r \in rows : r.class = c})],
   growth   |-> Total(Range(frontier), LAMBDA r : r.disk),
   root     |-> Total({r \in rows : r.path = Root}, LAMBDA r : r.disk),
   deleted  |-> DeletedRows(rows)]

--------------------------------------------------------------------------------
(* investigate *)

\* _query_fast_delta_rows: rows of depth 1 to MaxDepth that changed one way.
FastRows(sign, n) ==
  LET Moved(p) == \E m \in Metrics : sign * Change(p, m) > 0
      Key(r)   == <<IF sign > 0 THEN -r.disk ELSE -Abs(r.disk),
                    IF sign > 0 THEN -r.apparent ELSE -Abs(r.apparent), Depth(r)>>
  IN  Limited(Ordered({[path     |-> p,
                        class    |-> SqlClassification(p),
                        disk     |-> Change(p, "disk"),
                        apparent |-> Change(p, "apparent")] :
                         p \in {q \in DOMAIN baseline \union DOMAIN current :
                                  Len(q) \in 1 .. MaxDepth /\ Moved(q)}}, Key), n)

\* _remove_dominated_fast_ancestors
Undominated(rows) ==
  {a \in rows : a.disk <= 0 \/ StandIns(a, rows) = {}}

\* A unit of disk is 256 MiB: _RELOCATION_MIN_BYTES, _RELOCATION_MATCH_SLOP_BYTES
\* and _RELOCATION_MATCH_RATIO = 0.10, rounded half to even.
MinBytes == 2
SlopBytes == 1

RoundTenth(n) ==
  LET q == n \div 10
      r == n % 10
  IN  IF r > 5 \/ (r = 5 /\ q % 2 = 1) THEN q + 1 ELSE q

Larger(x, y) == IF x > y THEN x ELSE y

\* Mutant: the sign of what shrank is forgotten.
SizeGapSigned(pos, neg) == Abs(pos.disk - neg.disk)

SizeGap(pos, neg) == Abs(pos.disk - Abs(neg.disk))

MaybeRelocated(pos, neg) ==
  /\ Parent(pos.path) = Parent(neg.path)
  /\ SizeGap(pos, neg) <=
       Larger(SlopBytes, RoundTenth(Larger(pos.disk, Abs(neg.disk))))

\* One growing directory is matched with the closest shrunk one not yet taken,
\* the first of them in the order of shrunk.
Suspect(found, pos, shrunk) ==
  LET fits == {n \in 1 .. Len(shrunk) : /\ shrunk[n] \notin {s.negative : s \in found}
                                        /\ MaybeRelocated(pos, shrunk[n])}
      Gap(n) == SizeGap(pos, shrunk[n])
      best == {n \in fits : \A m \in fits : Gap(n) < Gap(m) \/ (Gap(n) = Gap(m) /\ n <= m)}
  IN  found \union {[positive |-> pos, negative |-> shrunk[n]] : n \in best}

GrowthKey(r) == <<-r.disk, -r.apparent, Depth(r)>>

ShrinkKey(r) == <<-Abs(r.disk), Depth(r)>>

\* _relocation_suspicions, one pass over the growing directories.
RelocationSuspicions(grown, shrunkRows) ==
  LET shrunk == Ordered({r \in shrunkRows : Abs(r.disk) >= MinBytes}, ShrinkKey)
      list == Ordered({r \in grown : r.disk >= MinBytes}, GrowthKey)
      found[n \in 0 .. Len(list)] ==
        IF n = 0 THEN {} ELSE Suspect(found[n - 1], list[n], shrunk)
  IN  found[Len(list)]

\* _compact_investigate_payload: the contributors and the suspected relocations.
Investigate ==
  LET candidates == 3 * Limit      \* investigate_candidate_multiplier
      grown   == Undominated(Range(FastRows(1, candidates)))
      suspects == RelocationSuspicions(grown, Range(FastRows(-1, candidates)))
      primary == {r \in grown : \A s \in suspects :
                                  ~ MatchesPathPrefix(r.path, s.positive.path)}
  IN  [contributors |-> Limited(Ordered(primary, GrowthKey), Limit),
       suspects     |-> suspects]

--------------------------------------------------------------------------------
(* Properties.  They are about the pair, once both scans are there. *)

Paired == new # Nothing

AllRows == DiffRows(Root, TRUE)

\* Every directory that the current scan read can be explained: by its own row,
\* or by that of the directory which the scan folded it into.
CurrentExplained ==
  Paired => \A p \in DOMAIN new :
    \E r \in ExplainedRow(p) : p = r.path \/ r.path \in Ancestors(p)

\* The frontier of a report never counts growth twice: its rows add up to no
\* more than what the directories grew, as the two scans read them, unless the
\* baseline had folded away a directory that the current scan shows.
GrowthNotDoubled ==
  Paired /\ {p \in DOMAIN baseline : baseline[p].collapsed}
              \subseteq {p \in DOMAIN current : current[p].collapsed} =>
    ReportSummary(AllRows, PruneGrowthFrontier(AllRows)).growth <=
      Total(DOMAIN new, LAMBDA p :
              Larger(0, new[p].disk - IF p \in DOMAIN old THEN old[p].disk ELSE 0))

\* No growth falls through the frontier: a growing directory it leaves out has a
\* listed one above or below it.
FrontierCovers ==
  Paired =>
    LET kept == Range(PruneGrowthFrontier(AllRows))
    IN  \A c \in Candidates(AllRows) : \E k \in kept :
          MatchesPathPrefix(c.path, k.path) \/ MatchesPathPrefix(k.path, c.path)

Fold(p) == {q \in {p} \union Ancestors(p) : \E rows \in {baseline, current} :
              q \in DOMAIN rows /\ rows[q].collapsed}

\* When the limit does not cut its list off, what explain-path leaves unexplained
\* is exactly what the files directly in the directory grew or shrank by, as
\* the two scans read them.
RemainderIsDirect ==
  Paired => \A p \in DOMAIN old \intersect DOMAIN new, depth \in 1 .. 2 :
    LET rows == DiffRows(p, TRUE)
        explained == ExplainPathBreakdown(rows, RowAt(rows, p), Limit, depth)
    IN  Fold(p) = {} /\ Len(explained.children) < Limit =>
          explained.unshown = new[p].disk - old[p].disk

\* As the scans read them, new is old with the subtree of a moved to b, and
\* nothing else changed.
Renamed(a, b) ==
  LET To(p) == IF MatchesPathPrefix(p, a) THEN b \o SubSeq(p, Len(a) + 1, Len(p)) ELSE p
  IN  /\ a \in DOMAIN old /\ b \notin DOMAIN old
      /\ Parent(a) = Parent(b)
      /\ DOMAIN new = {To(p) : p \in DOMAIN old}
      /\ \A p \in DOMAIN old : new[To(p)] = old[p]

\* A large directory that was renamed in place is not presented as a cause of
\* disk pressure if both its names are among the candidates.  The exception: one
\* directory below it holds so much of it that it stands in for it
\* (_remove_dominated_fast_ancestors); that one has a new parent and is matched
\* with nothing.
RenameIsNoCulprit ==
  Paired => \A a, b \in DOMAIN old \union DOMAIN new :
    /\ a # Root /\ b # Root /\ Renamed(a, b)
    /\ b \in DOMAIN current /\ a \in DOMAIN baseline /\ baseline[a].disk >= MinBytes
    /\ b \in {r.path : r \in Undominated(Range(FastRows(1, 3 * Limit)))}
    /\ a \in {r.path : r \in Range(FastRows(-1, 3 * Limit))}
    => \A r \in Range(Investigate.contributors) : ~ MatchesPathPrefix(r.path, b)
================================================================================
