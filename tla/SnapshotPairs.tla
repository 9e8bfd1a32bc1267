----------------------------- MODULE SnapshotPairs -----------------------------
(***************************************************************************)
(* Which snapshots a report compares: reporting/pairs.py for diff, report, *)
(* deleted, investigate and explain-path, and the selectors of top and     *)
(* timeline in reporting/queries.py.  The table is what any history of     *)
(* collections and prunes leaves; the clock may have been set back between *)
(* two collections, so that ids and times need not agree.                  *)
(***************************************************************************)
EXTENDS DirPaths, FiniteSetsExt

CONSTANTS
  Roots,      \* the paths of the roots
  Targets,    \* paths asked for
  Times,      \* values of finished_at
  Sinces,     \* values of --since
  Sights,     \* what the scans of a root can have usable rows of: see Row
  MaxId       \* bound: snapshots in the table

ASSUME PathsAssumption == Roots \subseteq Seq(Nat) /\ Targets \subseteq Seq(Nat)
ASSUME TimesAssumption == Times \subseteq Nat \ {0} /\ Sinces \subseteq Nat \ {0}
ASSUME SightsAssumption == Sights \in [Roots -> SUBSET SUBSET {"asked", "linked"}]
ASSUME BoundAssumption == MaxId \in Nat

VARIABLE snapshots    \* the rows of the table

vars == <<snapshots>>

\* A row with finished_at NULL is RUNNING.
Running == 0

Statuses == {"complete", "partial", "failed"}

\* "seen" stands for the rows a history looks for: which of two paths, the one
\* asked for and the directory a symbolic link of that name leads to today, has
\* a row without an error.  A scan may lack either: the path did not exist, lay
\* below a fold or in what the scan left out, or its row carries an error (an
\* entry that vanished is enough, in a COMPLETE scan too).
Row == [id : 1 .. MaxId, root : Roots, status : Statuses, finished : Times \union {Running},
        seen : SUBSET {"asked", "linked"}]

\* The id SQLite gives to a new row.
NextId == Max({s.id : s \in snapshots} \union {0}) + 1

Init == snapshots = {}

\* A collection that has begun, or ended with a status.
Collect ==
  /\ NextId <= MaxId
  /\ \E row \in [id : {NextId}, root : Roots, status : Statuses,
                 finished : Times \union {Running}, seen : SUBSET {"asked", "linked"}] :
       /\ row.finished = Running => row.status = "failed"
       /\ row.seen \in IF row.status = "failed" THEN {{}} ELSE Sights[row.root]
       /\ snapshots' = snapshots \union {row}

Forget == \E s \in snapshots : snapshots' = snapshots \ {s}

Next == Collect \/ Forget

Spec == Init /\ [][Next]_vars

--------------------------------------------------------------------------------
(* resolve_snapshot_pairs *)

\* snapshot_status_from_storage and _snapshot_exclusion_warning
Usable(root) ==
  {s \in snapshots : /\ s.root = root
                     /\ s.finished # Running
                     /\ s.status # "failed"}

\* usable.sort(key=(finished_at, id))
Before(s, t) == s.finished < t.finished \/ (s.finished = t.finished /\ s.id < t.id)

Latest(rows) == CHOOSE s \in rows : \A t \in rows \ {s} : Before(t, s)
Oldest(rows) == CHOOSE s \in rows : \A t \in rows \ {s} : Before(s, t)

InOrder(rows) == SortedBy(rows, {x \in rows \X rows : Before(x[1], x[2])})

PairOf(baseline, current, codes) ==
  [root |-> current.root, baseline |-> baseline, current |-> current,
   warnings |-> codes \union
     (IF "partial" \in {baseline.status, current.status} THEN {"partial_snapshot"} ELSE {})]

\* The pair of a root that has two usable snapshots.
PairOfRoot(root, since) ==
  LET current == Latest(Usable(root))
      earlier == Usable(root) \ {current}
      eligible == {s \in earlier : s.finished <= current.finished - since}
  IN  IF eligible # {} THEN PairOf(Latest(eligible), current, {})
      ELSE PairOf(Oldest(Usable(root)), current, {"baseline_before_since_unavailable"})

Known == {s.root : s \in snapshots}

Paired == {root \in Known : Cardinality(Usable(root)) >= 2}

ResolveSnapshotPairs(since) == {PairOfRoot(root, since) : root \in Paired}

\* The roots of the insufficient_same_root_snapshots warnings.
Insufficient == Known \ Paired

--------------------------------------------------------------------------------
(* resolve_snapshot_pair_by_ids: one pair, or the code of the error *)

Error(code) == [error |-> code]

ResolveByIds(b, c) ==
  LET rows(id) == {s \in snapshots : s.id = id}
      Only(id) == CHOOSE s \in rows(id) : TRUE
      Unusable(s) == s.status = "failed"
  IN  IF b = c THEN Error("invalid_snapshot_pair")
      ELSE IF rows(b) = {} \/ rows(c) = {} THEN Error("snapshot_not_found")
      ELSE IF Only(b).root # Only(c).root THEN Error("snapshot_root_mismatch")
      ELSE IF Unusable(Only(b)) \/ Unusable(Only(c)) THEN Error("unusable_snapshot_pair")
      ELSE IF ~ Before(Only(b), Only(c)) THEN Error("invalid_snapshot_pair_order")
      ELSE PairOf(Only(b), Only(c), {})

--------------------------------------------------------------------------------
(* Other selectors *)

\* Mutant: the warnings about roots without a pair are not looked at.
SelectPairOnly(pairs, target, insufficient) ==
  LET matching == {p \in pairs : MatchesPathPrefix(target, p.root)}
  IN  IF matching = {} THEN Error("path_outside_roots")
      ELSE CHOOSE p \in matching : \A q \in matching : Len(q.root) <= Len(p.root)

\* _select_pair_for_target, given the pairs and warnings of one resolution.
SelectPairForTarget(pairs, target, insufficient) ==
  LET matching == {p \in pairs : MatchesPathPrefix(target, p.root)}
      selected == CHOOSE p \in matching : \A q \in matching : Len(q.root) <= Len(p.root)
  IN  IF matching = {} THEN Error("path_outside_roots")
      ELSE IF \E r \in insufficient : /\ MatchesPathPrefix(target, r)
                                      /\ Len(r) > Len(selected.root)
             THEN Error("insufficient_same_root_snapshots")
      ELSE selected

\* resolve_top_snapshot_selection("latest")
TopSnapshots == {Latest(Usable(root)) : root \in {r \in Known : Usable(r) # {}}}

\* Mutant: only what finished after the cutoff is taken.
TrendAfterCutoff(root, since) ==
  LET rows == Usable(root)
      cutoff == Latest(rows).finished - since
  IN  InOrder({s \in rows : s.finished >= cutoff})

\* _select_trend_snapshots: the last snapshot at or before the cutoff, then
\* those at or after it.
TrendSnapshots(root, since) ==
  LET rows   == Usable(root)
      cutoff == Latest(rows).finished - since
      before == {s \in rows : s.finished <= cutoff}
      anchor == IF before = {} THEN <<>> ELSE <<Latest(before)>>
      window == {s \in rows : s.finished >= cutoff}
  IN  anchor \o InOrder(window \ ToSet(anchor))

--------------------------------------------------------------------------------
(* Histories across a symbolic link (path_history.py).  An observation is a  *)
(* usable snapshot and one of the two paths that it has a usable row of.     *)

\* ORDER BY finished_at, id, (observed_path = current_path)
ObservedBefore(o, p) ==
  \/ Before(o.snapshot, p.snapshot)
  \/ o.snapshot = p.snapshot /\ ~ o.linked /\ p.linked

FirstObserved(list) == CHOOSE o \in list : \A p \in list \ {o} : ObservedBefore(o, p)
LastObserved(list)  == CHOOSE o \in list : \A p \in list \ {o} : ObservedBefore(p, o)

\* Mutant: the newest observation of either path is the current one.
HistoryOfAny(observations, since) ==
  LET current == Latest({o.snapshot : o \in observations})
      earlier == {o \in observations : Before(o.snapshot, current)}
      eligible == {o \in earlier : o.snapshot.finished <= current.finished - since}
      chosen == IF eligible = {} THEN FirstObserved(earlier) ELSE LastObserved(eligible)
  IN  IF earlier = {} THEN Error("insufficient_same_root_snapshots")
      ELSE PairOf(chosen.snapshot, current,
                  IF eligible = {} THEN {"baseline_before_since_unavailable"} ELSE {})

\* _select_history_pair
HistoryPair(observations, since) ==
  LET candidates == {o.snapshot : o \in {p \in observations : p.linked}}
      current == Latest(candidates)
      earlier == {o \in observations : Before(o.snapshot, current)}
      eligible == {o \in earlier : o.snapshot.finished <= current.finished - since}
      chosen == IF eligible = {} THEN FirstObserved(earlier) ELSE LastObserved(eligible)
  IN  IF candidates = {} THEN Error("path_not_indexed")
      ELSE IF earlier = {} THEN Error("insufficient_same_root_snapshots")
      ELSE PairOf(chosen.snapshot, current,
                  IF eligible = {} THEN {"baseline_before_since_unavailable"} ELSE {})

\* _history_observations: the rows with error IS NULL, of finished complete
\* snapshots (intervals) and finished partial ones (diagnostics) of any root.
Observations ==
  {o \in [snapshot : snapshots, linked : BOOLEAN] :
     /\ o.snapshot.finished # Running /\ o.snapshot.status # "failed"
     /\ (IF o.linked THEN "linked" ELSE "asked") \in o.snapshot.seen}

--------------------------------------------------------------------------------
(* Properties *)

\* diff, timeline and top look at the same window although each selects its
\* snapshots by itself: a timeline starts at the baseline of the pair and ends
\* at its current snapshot, which is the one top shows; and the pair can be
\* asked for again by its two ids, with every validation passed.
SelectorsAgree ==
  \A since \in Sinces : \A p \in ResolveSnapshotPairs(since) :
    LET trend == TrendSnapshots(p.root, since)
    IN  /\ Head(trend) = p.baseline
        /\ Last(trend) = p.current
        /\ p.current \in TopSnapshots
        /\ ResolveByIds(p.baseline.id, p.current.id) =
             PairOf(p.baseline, p.current, {})

\* A history goes no further than the pair of the root it ends in, and ends
\* where that pair ends exactly when the newest scan could read the directory.
HistoryEnds(h, p) ==
  "error" \notin DOMAIN h /\ h.current.root = p.root =>
    /\ h.current = p.current <=> "linked" \in p.current.seen
    /\ h.current # p.current => Before(h.current, p.current)

\* Where both scans of the pair have usable rows there is a history, and other
\* observations bring its baseline no further from the cutoff.
HistoryStarts(h, p) ==
  "linked" \in p.current.seen /\ p.baseline.seen # {} =>
    /\ "error" \notin DOMAIN h
    /\ h.current = p.current \/ Before(p.current, h.current)
    /\ h.current = p.current =>
         /\ h.warnings \subseteq p.warnings \union {"partial_snapshot"}
         /\ "baseline_before_since_unavailable" \notin p.warnings =>
              h.baseline = p.baseline \/ Before(p.baseline, h.baseline)

\* Where every scan of the root has a usable row, and no other root has one,
\* the history is the pair.
HistoryIsPair(h, p) ==
  /\ \A s \in Usable(p.root) : s.seen # {}
  /\ \A o \in Observations : o.snapshot.root = p.root
  /\ "linked" \in p.current.seen
  => h.current = p.current /\ h.baseline = p.baseline

\* explain-path answers by a history when the path is a symbolic link and by
\* the pair of the root otherwise (cli._query_explained_path): the two agree on
\* the window as far as the scans could read the two directories.
HistoryExtendsPair ==
  \A since \in Sinces :
    LET h == HistoryPair(Observations, since)
    IN  \A p \in ResolveSnapshotPairs(since) :
          HistoryEnds(h, p) /\ HistoryStarts(h, p) /\ HistoryIsPair(h, p)

\* A path below a nested root is never explained by the history of an outer one
\* (the outer scan stops at the mount), not even when the nested root has too
\* few snapshots for a pair.
NestedRootOwnsPath ==
  \A since \in Sinces, target \in Targets :
    LET p == SelectPairForTarget(ResolveSnapshotPairs(since), target, Insufficient)
    IN  "error" \notin DOMAIN p =>
          \A r \in Known : MatchesPathPrefix(target, r) => Len(r) <= Len(p.root)
================================================================================
