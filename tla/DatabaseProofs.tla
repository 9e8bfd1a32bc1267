----------------------------- MODULE DatabaseProofs -----------------------------
(***************************************************************************)
(* The snapshot database under its writers and its readers, for every      *)
(* number of writers, roots, paths and snapshots: each transaction keeps   *)
(* the invariants of the tables under the precondition the writer commands *)
(* establish, the commands establish it, the database implements           *)
(* SnapshotHistory, and the reports read beside the writers are faithful.  *)
(***************************************************************************)
EXTENDS ReportReader, WellFoundedInduction, TLAPS

--------------------------------------------------------------------------------
(* The transactions of SnapshotStore *)

\* A non-empty set of naturals has a least element and Min returns it: the
\* subquery SELECT MIN(id) of _normalize_interval_boundaries.
LEMMA MinProperty ==
  ASSUME NEW S, S \subseteq Nat, S # {}
  PROVE  Min(S) \in S /\ \A y \in S : Min(S) <= y
<1>. DEFINE less == {ss \in Nat \X Nat : ss[1] < ss[2]}
<1>1. IsWellFoundedOn(less, Nat)
  BY NatLessThanWellFounded, Zenon DEF OpToRel
<1>2. PICK x \in S : \A y \in S : ~(<<y, x>> \in less)
  <2>. HIDE DEF less
  <2>. QED
    BY <1>1, WFMin
<1>3. \A y \in S : x <= y
  <2>. TAKE y \in S
  <2>1. ~(<<y, x>> \in less)
    BY <1>2
  <2>. QED
    BY <2>1
<1>. QED
  BY <1>3 DEF Min

\* An id is positive, and a bound is an id or open.
LEMMA IdFacts ==
  /\ Ids \subseteq Nat
  /\ \A s \in Ids : s > 0
BY MaxIdAssumption DEF Ids

\* Creating a snapshot row (create_snapshot).
LEMMA CreateSnapshotInv ==
  ASSUME StoreTypeOK, StoreInv, NEW id \in Ids, NEW r \in Roots,
         CreateSnapshot(id, r)
  PROVE  StoreTypeOK' /\ StoreInv'
<1>. USE DEF CreateSnapshot
<1>0. id \notin DOMAIN snapshots
  BY IdFacts DEF IsNextId, StoreTypeOK
<1>1. /\ DOMAIN snapshots' = DOMAIN snapshots \union {id}
      /\ snapshots'[id] = [root |-> r, status |-> "running"]
      /\ \A s \in DOMAIN snapshots : snapshots'[s] = snapshots[s]
  BY <1>0
<1>2. StoreTypeOK'
  BY <1>1 DEF StoreTypeOK, Snapshot, Statuses
<1>3. Complete' = Complete
  BY <1>0, <1>1 DEF Complete
<1>4. ViewFaithful'
  BY <1>1, <1>3 DEF ViewFaithful, StoreInv, View, Complete
<1>5. VersionsDisjoint'
  BY DEF StoreInv, VersionsDisjoint
<1>6. BoundsRecorded'
  BY <1>1, <1>0 DEF StoreInv, BoundsRecorded
<1>7. PathsKnown' /\ DoomedListed'
  BY <1>3 DEF StoreInv, PathsKnown, Referenced, DoomedListed
<1>8. DiagnosticsOwned'
  BY <1>1, <1>0 DEF StoreInv, DiagnosticsOwned
<1>. QED
  BY <1>2, <1>4, <1>5, <1>6, <1>7, <1>8 DEF StoreInv

\* Marking snapshots FAILED (finalize_snapshot from the except clause of
\* _collect_single_root and from the signal handler).
LEMMA FailSnapshotsInv ==
  ASSUME StoreTypeOK, StoreInv, NEW ids, ids \intersect doomed = {},
         FailSnapshots(ids)
  PROVE  StoreTypeOK' /\ StoreInv'
<1>. USE DEF FailSnapshots
<1>1. /\ DOMAIN snapshots' = DOMAIN snapshots
      /\ \A s \in DOMAIN snapshots : snapshots'[s].root = snapshots[s].root
      /\ \A s \in DOMAIN snapshots :
            snapshots'[s].status = IF s \in ids THEN "failed" ELSE snapshots[s].status
  BY DEF StoreTypeOK, Snapshot
<1>2. StoreTypeOK'
  BY DEF StoreTypeOK, Snapshot, Statuses
<1>3. Complete' = Complete \ ids
  BY <1>1 DEF Complete
<1>4. ViewFaithful'
  <2>. SUFFICES ASSUME NEW s \in Complete' \ doomed' PROVE View(s)' = recorded'[s]
    BY DEF ViewFaithful
  <2>1. s \in Complete \ doomed /\ s \in DOMAIN snapshots
    BY <1>3 DEF Complete
  <2>2. View(s)' = View(s)
    BY <1>1, <2>1 DEF View, Covers, RowOf
  <2>. QED
    BY <2>1, <2>2 DEF StoreInv, ViewFaithful
<1>5. VersionsDisjoint' /\ PathsKnown' /\ DoomedListed'
  BY <1>3 DEF StoreInv, VersionsDisjoint, PathsKnown, Referenced, DoomedListed
<1>6. BoundsRecorded'
  BY <1>1 DEF StoreInv, BoundsRecorded
<1>7. DiagnosticsOwned'
  BY <1>1 DEF StoreInv, DiagnosticsOwned
<1>. QED
  BY <1>2, <1>4, <1>5, <1>6, <1>7 DEF StoreInv

\* Deleting a snapshot whose id bounds no version (_delete_snapshot_batch).
LEMMA DeleteSnapshotInv ==
  ASSUME StoreTypeOK, StoreInv, NEW s \in DOMAIN snapshots, s \notin Bounds,
         DeleteSnapshot(s)
  PROVE  StoreTypeOK' /\ StoreInv'
<1>. USE DEF DeleteSnapshot
<1>1. /\ DOMAIN snapshots' = DOMAIN snapshots \ {s}
      /\ \A t \in DOMAIN snapshots \ {s} : snapshots'[t] = snapshots[t]
  OBVIOUS
<1>2. StoreTypeOK'
  <2>1. {} \in Scans
    BY DEF Scans
  <2>. QED
    BY <1>1, <2>1 DEF StoreTypeOK
<1>3. Complete' = Complete \ {s}
  BY <1>1 DEF Complete
<1>4. ViewFaithful'
  <2>. SUFFICES ASSUME NEW t \in Complete' \ doomed' PROVE View(t)' = recorded'[t]
    BY DEF ViewFaithful
  <2>1. t \in Complete \ doomed /\ t \in DOMAIN snapshots \ {s}
    BY <1>3 DEF Complete
  <2>2. View(t)' = View(t)
    BY <1>1, <2>1 DEF View, Covers, RowOf
  <2>3. recorded'[t] = recorded[t]
    BY <2>1 DEF StoreTypeOK
  <2>. QED
    BY <2>1, <2>2, <2>3 DEF StoreInv, ViewFaithful
<1>5. VersionsDisjoint' /\ DoomedListed'
  BY <1>3 DEF StoreInv, VersionsDisjoint, DoomedListed
<1>6. BoundsRecorded'
  BY <1>1 DEF StoreInv, BoundsRecorded, Bounds
<1>7. DiagnosticsOwned'
  BY <1>1 DEF StoreInv, DiagnosticsOwned, StoreTypeOK
<1>8. PathsKnown'
  <2>1. \A t \in Ids : diagnostics'[t] \subseteq diagnostics[t]
    BY DEF StoreTypeOK
  <2>2. Referenced' \subseteq Referenced
    BY <2>1 DEF Referenced, PathsOf
  <2>. QED
    BY <2>2 DEF StoreInv, PathsKnown
<1>. QED
  BY <1>2, <1>4, <1>5, <1>6, <1>7, <1>8 DEF StoreInv

\* Deleting the paths no row refers to (_delete_orphan_paths,
\* _delete_unreferenced_paths).
LEMMA DeleteOrphanPathsInv ==
  ASSUME StoreTypeOK, StoreInv, DeleteOrphanPaths
  PROVE  StoreTypeOK' /\ StoreInv'
<1>. USE DEF DeleteOrphanPaths
<1>1. StoreTypeOK'
  BY DEF StoreTypeOK
<1>2. Complete' = Complete /\ Referenced' = Referenced
  BY DEF Complete, Referenced
<1>3. ViewFaithful' /\ VersionsDisjoint' /\ BoundsRecorded'
  BY <1>2 DEF StoreInv, ViewFaithful, View, VersionsDisjoint, BoundsRecorded
<1>4. PathsKnown' /\ DiagnosticsOwned' /\ DoomedListed'
  BY <1>2 DEF StoreInv, PathsKnown, DiagnosticsOwned, DoomedListed
<1>. QED
  BY <1>1, <1>3, <1>4 DEF StoreInv

--------------------------------------------------------------------------------
(* Normalising the bounds to the snapshots a prune retains.                *)

\* What _normalize_interval_boundaries makes of one version that some retained
\* COMPLETE snapshot sees: its range shrinks or grows over ids that are not
\* retained, its bounds become retained ids, and every retained snapshot of
\* its root sees it exactly as before.
LEMMA NormalizedIntervalFacts ==
  ASSUME StoreTypeOK, VersionsDisjoint, NEW chosen \in SUBSET DOMAIN snapshots,
         NEW i \in intervals, Witnesses(i, chosen) # {},
         NEW n, n = NormalizedInterval(i, chosen)
  PROVE  /\ n \in Interval
         /\ RowOf(n) = RowOf(i) /\ n.root = i.root /\ n.path = i.path
         /\ n.state = i.state
         /\ n.from \in RetainedComplete(i.root, chosen) /\ i.from <= n.from
         /\ n.to # Open => /\ n.to \in RetainedComplete(i.root, chosen)
                           /\ n.from < n.to
         /\ \A s \in RetainedComplete(i.root, chosen) :
              /\ Covers(n, s) <=> Covers(i, s)
              /\ i.to # Open /\ i.to <= s => n.to # Open /\ n.to <= s
<1>. DEFINE kept  == RetainedComplete(i.root, chosen)
            later == {s \in kept : s >= i.to}
<1>1. /\ i \in Interval /\ i.from \in Nat /\ i.to \in Nat /\ i.root \in Roots
      /\ i.path \in Paths /\ i.state \in States
      /\ i.to # Open => i.from < i.to
  BY IdFacts DEF StoreTypeOK, Interval, Open, VersionsDisjoint
<1>2. kept \subseteq Ids /\ kept \subseteq Nat /\ later \subseteq Nat
  BY IdFacts DEF RetainedComplete, Complete, StoreTypeOK
<1>3. Witnesses(i, chosen) \subseteq kept /\ Witnesses(i, chosen) \subseteq Nat
  BY <1>2 DEF Witnesses
<1>4. /\ Min(Witnesses(i, chosen)) \in Witnesses(i, chosen)
      /\ \A y \in Witnesses(i, chosen) : Min(Witnesses(i, chosen)) <= y
  BY <1>3, MinProperty
<1>5. later # {} => Min(later) \in later /\ \A y \in later : Min(later) <= y
  BY <1>2, MinProperty
<1>6. /\ n.from = Min(Witnesses(i, chosen)) /\ n.root = i.root
      /\ n.path = i.path /\ n.state = i.state
      /\ n.to = IF i.to = Open \/ later = {} THEN Open ELSE Min(later)
  BY <1>1 DEF NormalizedInterval, NormalizedEnd, Interval
<1>7. n = [root |-> n.root, path |-> n.path, from |-> n.from, to |-> n.to,
           state |-> n.state]
  BY <1>1 DEF NormalizedInterval, Interval
<1>. HIDE DEF later, kept
<1>8. n.from \in kept /\ n.from \in Nat /\ Covers(i, n.from)
  BY <1>2, <1>3, <1>4, <1>6 DEF Witnesses
<1>9. n.to # Open => n.to \in kept /\ n.to \in Nat /\ i.to # Open /\ i.to <= n.to
  BY <1>2, <1>5, <1>6 DEF later
<1>10. n \in Interval
  BY <1>1, <1>2, <1>6, <1>7, <1>8, <1>9 DEF Interval
<1>11. ASSUME NEW s \in kept
       PROVE  /\ Covers(n, s) <=> Covers(i, s)
              /\ i.to # Open /\ i.to <= s => n.to # Open /\ n.to <= s
  <2>1. s \in Nat
    BY <1>2
  <2>2. i.to # Open /\ i.to <= s => s \in later /\ n.to = Min(later) /\ n.to <= s
    BY <1>1, <1>5, <1>6, <2>1 DEF later
  <2>3. i.to # Open /\ i.to <= s => n.to # Open
    BY <2>2, <1>5, <1>2, IdFacts DEF later, Open
  <2>4. Covers(i, s) => n.from <= s
    BY <1>4, <1>6 DEF Witnesses, kept
  <2>5. Covers(i, s) => Covers(n, s)
    BY <2>1, <2>4, <1>1, <1>9 DEF Covers, Open
  <2>6. Covers(n, s) => Covers(i, s)
    BY <2>1, <2>2, <2>3, <1>1, <1>8, <1>9 DEF Covers, Open
  <2>. QED
    BY <2>2, <2>3, <2>5, <2>6
<1>12. i.from <= n.from /\ (n.to # Open => n.from < n.to)
  BY <1>1, <1>8, <1>9 DEF Covers
<1>. QED
  BY <1>6, <1>8, <1>9, <1>10, <1>11, <1>12 DEF RowOf, kept

\* Normalising preserves the invariants, and leaves no bound that is not a
\* retained COMPLETE snapshot.
LEMMA NormalizeInv ==
  ASSUME StoreTypeOK, StoreInv, NEW chosen \in SUBSET DOMAIN snapshots,
         NormalizeIntervalBoundaries(chosen)
  PROVE  StoreTypeOK' /\ StoreInv' /\ Bounds' \subseteq chosen
<1>. DEFINE kept(r) == RetainedComplete(r, chosen)
            seen    == {j \in intervals : Witnesses(j, chosen) # {}}
            norm(i) == NormalizedInterval(i, chosen)
<1>1. /\ intervals' = {norm(i) : i \in seen}
      /\ doomed' = doomed \union (Complete \ chosen)
      /\ UNCHANGED <<snapshots, diagnostics, paths, recorded>>
  BY DEF NormalizeIntervalBoundaries
<1>2. VersionsDisjoint
  BY DEF StoreInv
<1>3. ASSUME NEW i \in seen
      PROVE  /\ norm(i) \in Interval
             /\ RowOf(norm(i)) = RowOf(i) /\ norm(i).root = i.root
             /\ norm(i).path = i.path /\ norm(i).state = i.state
             /\ norm(i).from \in kept(i.root) /\ i.from <= norm(i).from
             /\ norm(i).to # Open => /\ norm(i).to \in kept(i.root)
                                     /\ norm(i).from < norm(i).to
             /\ \A s \in kept(i.root) :
                  /\ Covers(norm(i), s) <=> Covers(i, s)
                  /\ i.to # Open /\ i.to <= s =>
                       norm(i).to # Open /\ norm(i).to <= s
  BY <1>2, NormalizedIntervalFacts
<1>. HIDE DEF norm
<1>4. \A r : kept(r) \subseteq chosen \intersect Complete
  BY DEF RetainedComplete
<1>5. Complete' = Complete /\ DoomedListed'
  BY <1>1 DEF Complete, DoomedListed, StoreInv
<1>6. StoreTypeOK'
  BY <1>1, <1>3 DEF StoreTypeOK, Complete
<1>7. VersionsDisjoint'
  <2>1. \A m \in intervals' : m.to # Open => m.from < m.to
    BY <1>1, <1>3
  <2>2. ASSUME NEW i \in seen, NEW j \in seen, i.root = j.root, i.path = j.path,
               i.to # Open /\ i.to <= j.from
        PROVE  norm(i).to # Open /\ norm(i).to <= norm(j).from
    <3>1. i.to \in Nat /\ j.from \in Nat /\ norm(j).from \in Nat
      BY <1>3, IdFacts DEF StoreTypeOK, Interval, Open
    <3>2. i.to <= norm(j).from /\ norm(j).from \in kept(i.root)
      BY <1>3, <2>2, <3>1
    <3>. QED
      BY <1>3, <2>2, <3>2
  <2>3. ASSUME NEW i \in seen, NEW j \in seen, norm(i) # norm(j),
               norm(i).root = norm(j).root, norm(i).path = norm(j).path
        PROVE  \/ norm(i).to # Open /\ norm(i).to <= norm(j).from
               \/ norm(j).to # Open /\ norm(j).to <= norm(i).from
    <3>1. i # j /\ i.root = j.root /\ i.path = j.path
      BY <1>3, <2>3
    <3>. QED
      BY <1>2, <2>2, <3>1 DEF VersionsDisjoint
  <2>. QED
    BY <1>1, <2>1, <2>3 DEF VersionsDisjoint
<1>8. ViewFaithful'
  <2>. SUFFICES ASSUME NEW s \in Complete' \ doomed' PROVE View(s)' = recorded'[s]
    BY DEF ViewFaithful
  <2>. DEFINE r == snapshots[s].root
  <2>1. s \in Complete \ doomed /\ s \in kept(r) /\ s \in DOMAIN snapshots
    BY <1>1, <1>5 DEF RetainedComplete, Complete
  <2>. HIDE DEF kept
  <2>2. View(s)' = {RowOf(m) : m \in {j \in intervals' : j.root = r /\ Covers(j, s)}}
    BY <1>1 DEF View
  <2>3. View(s) = {RowOf(m) : m \in {j \in intervals : j.root = r /\ Covers(j, s)}}
    BY DEF View
  <2>4. ASSUME NEW i \in intervals, i.root = r, Covers(i, s)
        PROVE  i \in seen
    BY <2>1, <2>4 DEF Witnesses, kept
  <2>5. View(s)' \subseteq View(s)
    BY <1>1, <1>3, <2>1, <2>2, <2>3
  <2>6. View(s) \subseteq View(s)'
    BY <1>1, <1>3, <2>1, <2>2, <2>3, <2>4
  <2>. QED
    BY <1>1, <2>1, <2>5, <2>6 DEF StoreInv, ViewFaithful
<1>9. BoundsRecorded' /\ Bounds' \subseteq chosen
  <2>1. ASSUME NEW m \in intervals', NEW b \in {m.from, m.to} \ {Open}
        PROVE  b \in kept(m.root)
    BY <1>1, <1>3, <2>1
  <2>2. Bounds' \subseteq chosen
    BY <2>1, <1>4 DEF Bounds
  <2>3. BoundsRecorded'
    BY <2>1, <1>1 DEF BoundsRecorded, RetainedComplete, Complete
  <2>. QED
    BY <2>2, <2>3
<1>10. PathsKnown' /\ DiagnosticsOwned'
  <2>1. \A m \in intervals' : \E i \in intervals : PathsOf(m) = PathsOf(i)
    BY <1>1, <1>3 DEF PathsOf
  <2>2. Referenced' \subseteq Referenced
    BY <1>1, <2>1 DEF Referenced
  <2>. QED
    BY <1>1, <2>2 DEF StoreInv, PathsKnown, DiagnosticsOwned
<1>. QED
  BY <1>5, <1>6, <1>7, <1>8, <1>9, <1>10 DEF StoreInv

--------------------------------------------------------------------------------
(* Storing a scan.                                                         *)

\* The versions new show exactly rows for snapshot id of root r, what the
\* version table showed before for every older snapshot and every other root,
\* and are disjoint, with no bound but id and the old ones.
Promoted(new, id, r, rows) ==
  /\ new \subseteq Interval
  /\ \A i \in new : i.to # Open => i.from < i.to
  /\ \A i, j \in new :
       i # j /\ i.root = j.root /\ i.path = j.path =>
         \/ i.to # Open /\ i.to <= j.from
         \/ j.to # Open /\ j.to <= i.from
  /\ \A i \in new : \A b \in {i.from, i.to} \ {Open} :
       \/ b = id /\ i.root = r
       \/ \E o \in intervals : o.root = i.root /\ b \in {o.from, o.to} \ {Open}
  /\ {RowOf(i) : i \in {j \in new : j.root = r /\ Covers(j, id)}} = rows
  /\ \A q \in Roots, s \in DOMAIN snapshots : q # r \/ s < id =>
       {RowOf(i) : i \in {j \in new : j.root = q /\ Covers(j, s)}} =
       {RowOf(i) : i \in {j \in intervals : j.root = q /\ Covers(j, s)}}
  /\ \A i \in new : (\E o \in intervals : PathsOf(o) = PathsOf(i)) \/ RowOf(i) \in rows

\* Promoting the newest snapshot (_promote_complete_snapshot) does just that.
LEMMA PromoteFacts ==
  ASSUME StoreTypeOK, StoreInv, NEW id \in DOMAIN snapshots,
         snapshots[id].status = "running",
         \A s \in DOMAIN snapshots : s <= id,
         NEW r, r = snapshots[id].root, NEW rows \in Scans,
         NEW new, new = PromoteCompleteSnapshot(id, r, rows)
  PROVE  Promoted(new, id, r, rows)
<1>. USE DEF Open
<1>. DEFINE ongoing == {i \in intervals : i.root = r /\ i.from < id /\ i.to = Open}
            ended  == {i.path : i \in {a \in ongoing : RowOf(a) \notin rows}}
            closed == {i \in intervals : i.root = r /\ i.to = Open /\ i.path \in ended}
            fresh  == {e \in rows : \A a \in ongoing : RowOf(a) # e}
            shut(i)  == [i EXCEPT !.to = id]
            start(e) == [root |-> r, path |-> e.path, from |-> id, to |-> Open,
                         state |-> e.state]
<1>1. new = (intervals \ closed) \union {shut(i) : i \in closed}
              \union {start(e) : e \in fresh}
  BY DEF PromoteCompleteSnapshot
<1>2. id \in Ids /\ id \in Nat /\ id > 0 /\ r \in Roots
  BY IdFacts DEF StoreTypeOK, Snapshot
<1>3. \A i \in intervals :
        /\ i \in Interval /\ i.from \in Ids /\ i.from \in Nat
        /\ i.to \in Nat /\ i.path \in Paths /\ i.state \in States
        /\ i.to # Open => i.to \in Ids
  BY IdFacts DEF StoreTypeOK, Interval
<1>4. \A i \in intervals : i.from < id /\ (i.to # Open => i.to < id /\ i.from < i.to)
  <2>. SUFFICES ASSUME NEW i \in intervals
                PROVE  i.from < id /\ (i.to # Open => i.to < id /\ i.from < i.to)
    OBVIOUS
  <2>1. \A b \in {i.from, i.to} \ {Open} : b \in DOMAIN snapshots /\ b # id
    BY DEF StoreInv, BoundsRecorded
  <2>2. i.from \in {i.from, i.to} \ {Open}
    BY <1>2, <1>3, IdFacts
  <2>. QED
    BY <1>2, <1>3, <2>1, <2>2 DEF StoreInv, VersionsDisjoint
<1>5. \A i, j \in intervals :
        i # j /\ i.root = j.root /\ i.path = j.path =>
          \/ i.to # Open /\ i.to <= j.from
          \/ j.to # Open /\ j.to <= i.from
  BY DEF StoreInv, VersionsDisjoint
<1>6. \A i, j \in ongoing : i.path = j.path => i = j
  BY <1>5
<1>7. closed = {a \in ongoing : RowOf(a) \notin rows}
  BY <1>4, <1>6
<1>8. \A i \in closed :
        /\ shut(i) \in Interval /\ shut(i).from = i.from
        /\ shut(i).to = id /\ shut(i).root = r
        /\ shut(i).path = i.path /\ shut(i).state = i.state
        /\ i \in intervals /\ i.root = r
  BY <1>2, <1>3 DEF Interval
<1>9. \A e \in fresh :
        /\ start(e) \in Interval /\ start(e).from = id
        /\ start(e).to = Open /\ start(e).root = r
        /\ start(e).path = e.path /\ start(e).state = e.state
        /\ RowOf(start(e)) = e /\ e \in rows
  BY <1>2 DEF Interval, Scans, Entry, RowOf
<1>10. \A e \in fresh, i \in intervals \ closed :
         i.root = r /\ i.path = e.path => i.to # Open /\ i.to <= id
  <2>. SUFFICES ASSUME NEW e \in fresh, NEW i \in intervals \ closed,
                       i.root = r, i.path = e.path, i.to = Open
                PROVE  FALSE
    BY <1>2, <1>3, <1>4
  <2>1. i \in ongoing /\ RowOf(i) \in rows
    BY <1>4, <1>7
  <2>2. RowOf(i).path = e.path /\ RowOf(i) # e
    BY <2>1 DEF RowOf
  <2>. QED
    BY <2>1, <2>2 DEF Scans
<1>11. \A e, f \in fresh : e.path = f.path => e = f
  BY DEF Scans
<1>. HIDE DEF ongoing, ended, closed, fresh, shut, start
<1>12. new \subseteq Interval /\ \A i \in new : i.to # Open => i.from < i.to
  BY <1>1, <1>2, <1>3, <1>4, <1>8, <1>9
<1>13. ASSUME NEW i \in new, NEW j \in new, i # j, i.root = j.root, i.path = j.path
       PROVE  \/ i.to # Open /\ i.to <= j.from
              \/ j.to # Open /\ j.to <= i.from
  <2>1. CASE i \in intervals \ closed /\ j \in intervals \ closed
    BY <2>1, <1>13, <1>5
  <2>2. ASSUME NEW x \in intervals \ closed, NEW y \in closed,
               x.root = shut(y).root, x.path = shut(y).path
        PROVE  \/ x.to # Open /\ x.to <= shut(y).from
               \/ shut(y).to # Open /\ shut(y).to <= x.from
    BY <2>2, <1>5, <1>7, <1>8 DEF ongoing
  <2>3. ASSUME NEW x \in closed, NEW y \in closed, shut(x) # shut(y),
               shut(x).path = shut(y).path
        PROVE  FALSE
    BY <2>3, <1>6, <1>7, <1>8
  <2>4. ASSUME NEW x \in intervals \ closed, NEW e \in fresh,
               x.root = start(e).root, x.path = start(e).path
        PROVE  x.to # Open /\ x.to <= start(e).from
    BY <2>4, <1>9, <1>10
  <2>5. ASSUME NEW y \in closed, NEW e \in fresh
        PROVE  shut(y).to # Open /\ shut(y).to <= start(e).from
    BY <1>2, <1>8, <1>9
  <2>6. ASSUME NEW e \in fresh, NEW f \in fresh, start(e) # start(f),
               start(e).path = start(f).path
        PROVE  FALSE
    BY <2>6, <1>9, <1>11
  <2>. QED
    BY <1>1, <1>13, <2>1, <2>2, <2>3, <2>4, <2>5, <2>6
<1>14. \A i \in new : \A b \in {i.from, i.to} \ {Open} :
         \/ b = id /\ i.root = r
         \/ \E o \in intervals : o.root = i.root /\ b \in {o.from, o.to} \ {Open}
  BY <1>1, <1>8, <1>9
<1>15. {RowOf(i) : i \in {j \in new : j.root = r /\ Covers(j, id)}} = rows
  <2>1. ASSUME NEW i \in new, i.root = r, Covers(i, id)
        PROVE  RowOf(i) \in rows
    <3>1. CASE i \in intervals \ closed
      BY <2>1, <3>1, <1>2, <1>3, <1>4, <1>7 DEF Covers, ongoing
    <3>2. CASE i \in {shut(c) : c \in closed}
      BY <2>1, <3>2, <1>2, <1>8 DEF Covers
    <3>3. CASE i \in {start(e) : e \in fresh}
      BY <3>3, <1>9
    <3>. QED
      BY <1>1, <3>1, <3>2, <3>3
  <2>2. ASSUME NEW e \in rows
        PROVE  \E i \in new : i.root = r /\ Covers(i, id) /\ RowOf(i) = e
    <3>1. CASE e \in fresh
      <4>1. start(e) \in new /\ start(e).root = r /\ RowOf(start(e)) = e
        BY <3>1, <1>1, <1>9
      <4>2. Covers(start(e), id)
        BY <3>1, <1>2, <1>9 DEF Covers
      <4>. QED
        BY <4>1, <4>2
    <3>2. CASE e \notin fresh
      <4>1. PICK a \in ongoing : RowOf(a) = e
        BY <3>2 DEF fresh
      <4>2. a \in new /\ a.root = r /\ Covers(a, id)
        BY <4>1, <1>1, <1>2, <1>3, <1>7 DEF ongoing, Covers
      <4>. QED
        BY <4>1, <4>2
    <3>. QED
      BY <3>1, <3>2
  <2>. QED
    BY <2>1, <2>2
<1>16. ASSUME NEW q \in Roots, NEW s \in DOMAIN snapshots, q # r \/ s < id
       PROVE  {RowOf(i) : i \in {j \in new : j.root = q /\ Covers(j, s)}} =
              {RowOf(i) : i \in {j \in intervals : j.root = q /\ Covers(j, s)}}
  <2>1. s \in Nat
    BY IdFacts DEF StoreTypeOK
  <2>2. ASSUME NEW i \in new, i.root = q, Covers(i, s)
        PROVE  \E o \in intervals : o.root = q /\ Covers(o, s) /\ RowOf(o) = RowOf(i)
    <3>1. CASE i \in intervals \ closed
      BY <2>2, <3>1
    <3>2. CASE i \in {shut(c) : c \in closed}
      BY <2>2, <3>2, <1>7, <1>8 DEF Covers, RowOf, ongoing
    <3>3. CASE i \in {start(e) : e \in fresh}
      BY <2>1, <2>2, <3>3, <1>2, <1>9, <1>16 DEF Covers
    <3>. QED
      BY <1>1, <3>1, <3>2, <3>3
  <2>3. ASSUME NEW o \in intervals, o.root = q, Covers(o, s)
        PROVE  \E i \in new : i.root = q /\ Covers(i, s) /\ RowOf(o) = RowOf(i)
    <3>1. CASE o \notin closed
      BY <2>3, <3>1, <1>1
    <3>2. CASE o \in closed
      <4>1. shut(o) \in new /\ shut(o).root = q /\ RowOf(shut(o)) = RowOf(o)
        BY <2>3, <3>2, <1>1, <1>8 DEF RowOf
      <4>2. Covers(shut(o), s)
        BY <2>1, <2>3, <3>2, <1>8, <1>16 DEF Covers
      <4>. QED
        BY <4>1, <4>2
    <3>. QED
      BY <3>1, <3>2
  <2>. QED
    BY <2>2, <2>3
<1>17. \A i \in new : (\E o \in intervals : PathsOf(o) = PathsOf(i)) \/ RowOf(i) \in rows
  <2>1. \A c \in closed : PathsOf(shut(c)) = PathsOf(c)
    BY <1>8 DEF PathsOf
  <2>. QED
    BY <1>1, <1>8, <1>9, <2>1
<1>. QED
  BY <1>12, <1>13, <1>14, <1>15, <1>16, <1>17 DEF Promoted

\* The transaction that stores a scan of the newest, RUNNING snapshot
\* preserves the invariants of the tables.
LEMMA StoreScanInv ==
  ASSUME StoreTypeOK, StoreInv, NEW id \in DOMAIN snapshots \ doomed,
         snapshots[id].status = "running",
         \A s \in DOMAIN snapshots : s <= id,
         NEW status \in {"complete", "partial", "failed"}, NEW rows \in Scans,
         StoreScan(id, status, rows)
  PROVE  StoreTypeOK' /\ StoreInv'
<1>. DEFINE r == snapshots[id].root
<1>1. /\ id \in Ids /\ id \in Nat /\ r \in Roots /\ rows \subseteq Entry
      /\ {} \in Scans
  BY IdFacts DEF StoreTypeOK, Snapshot, Scans
<1>2. diagnostics[id] = {}
  BY <1>1 DEF StoreInv, DiagnosticsOwned
<1>3. diagnostics[id] \union rows = rows
  BY <1>2
<1>4. /\ DOMAIN snapshots' = DOMAIN snapshots
      /\ snapshots'[id].root = r /\ snapshots'[id].status = status
      /\ \A s \in DOMAIN snapshots \ {id} : snapshots'[s] = snapshots[s]
      /\ snapshots' \in [DOMAIN snapshots' -> Snapshot]
  BY DEF StoreScan, StoreTypeOK, Snapshot, Statuses
<1>5. /\ recorded' = [recorded EXCEPT ![id] = rows]
      /\ paths' = paths \union UNION {PathsOf(e) : e \in rows}
      /\ doomed' = doomed
  BY DEF StoreScan
<1>6. /\ recorded'[id] = rows
      /\ \A s \in Ids \ {id} : recorded'[s] = recorded[s]
      /\ recorded' \in [Ids -> Scans]
  BY <1>1, <1>5 DEF StoreTypeOK
<1>7. \A s \in Complete' : s # id => s \in Complete /\ s \in Ids /\ s < id
  BY <1>1, <1>4, IdFacts DEF Complete, StoreTypeOK
<1>8. DoomedListed'
  BY <1>4, <1>5 DEF StoreInv, DoomedListed, Complete
<1>9. paths' \subseteq Paths
  <2>1. \A e \in rows : PathsOf(e) \subseteq Paths
    BY <1>1, RefsAssumption DEF PathsOf, Entry
  <2>. QED
    BY <2>1, <1>5 DEF StoreTypeOK
<1>10. CASE status = "complete"
  <2>1. /\ intervals' = PromoteCompleteSnapshot(id, r, rows)
        /\ diagnostics' = [diagnostics EXCEPT ![id] = {}]
    BY <1>3, <1>10 DEF StoreScan
  <2>2. diagnostics' = diagnostics
    BY <1>1, <1>2, <2>1 DEF StoreTypeOK
  <2>. HIDE DEF r
  <2>3. Promoted(intervals', id, r, rows)
    BY <2>1, PromoteFacts DEF r
  <2>4. StoreTypeOK'
    BY <1>4, <1>5, <1>6, <1>9, <2>2, <2>3 DEF StoreTypeOK, Promoted
  <2>5. VersionsDisjoint'
    BY <2>3 DEF VersionsDisjoint, Promoted
  <2>6. BoundsRecorded'
    <3>. SUFFICES ASSUME NEW i \in intervals', NEW b \in {i.from, i.to} \ {Open}
                  PROVE  /\ b \in DOMAIN snapshots' /\ snapshots'[b].root = i.root
                         /\ snapshots'[b].status \in {"complete", "failed"}
      BY DEF BoundsRecorded
    <3>1. CASE b = id /\ i.root = r
      BY <3>1, <1>4, <1>10
    <3>2. CASE \E o \in intervals : o.root = i.root /\ b \in {o.from, o.to} \ {Open}
      <4>1. /\ b \in DOMAIN snapshots /\ snapshots[b].root = i.root
            /\ snapshots[b].status \in {"complete", "failed"}
        BY <3>2 DEF StoreInv, BoundsRecorded
      <4>. QED
        BY <4>1, <1>4
    <3>. QED
      BY <2>3, <3>1, <3>2 DEF Promoted
  <2>7. ViewFaithful'
    <3>. SUFFICES ASSUME NEW s \in Complete' \ doomed'
                  PROVE  View(s)' = recorded'[s]
      BY DEF ViewFaithful
    <3>1. CASE s = id
      BY <3>1, <2>3, <1>4, <1>6 DEF View, Promoted
    <3>2. CASE s # id
      <4>1. s \in Complete \ doomed /\ s \in DOMAIN snapshots /\ s < id /\ s \in Ids
        BY <3>2, <1>5, <1>7 DEF Complete
      <4>2. snapshots'[s].root = snapshots[s].root /\ snapshots[s].root \in Roots
        BY <3>2, <4>1, <1>4 DEF StoreTypeOK, Snapshot
      <4>3. View(s)' = View(s)
        BY <4>1, <4>2, <2>3 DEF View, Promoted
      <4>. QED
        BY <3>2, <4>1, <4>3, <1>6 DEF StoreInv, ViewFaithful
    <3>. QED
      BY <3>1, <3>2
  <2>8. PathsKnown'
    <3>1. \A i \in intervals' : PathsOf(RowOf(i)) = PathsOf(i)
      BY DEF PathsOf, RowOf
    <3>2. Referenced' \subseteq Referenced \union UNION {PathsOf(e) : e \in rows}
      BY <2>2, <2>3, <3>1 DEF Referenced, Promoted
    <3>. QED
      BY <3>2, <1>5 DEF StoreInv, PathsKnown
  <2>9. DiagnosticsOwned'
    BY <2>2, <1>2, <1>4 DEF StoreInv, DiagnosticsOwned
  <2>. QED
    BY <1>8, <2>4, <2>5, <2>6, <2>7, <2>8, <2>9 DEF StoreInv
<1>11. CASE status # "complete"
  <2>1. intervals' = intervals /\ diagnostics' = [diagnostics EXCEPT ![id] = rows]
    BY <1>3, <1>11 DEF StoreScan
  <2>2. /\ diagnostics'[id] = rows
        /\ \A s \in Ids \ {id} : diagnostics'[s] = diagnostics[s]
        /\ diagnostics' \in [Ids -> Scans]
    BY <1>1, <2>1 DEF StoreTypeOK
  <2>3. StoreTypeOK' /\ VersionsDisjoint'
    BY <1>4, <1>5, <1>6, <1>9, <2>1, <2>2
       DEF StoreTypeOK, StoreInv, VersionsDisjoint
  <2>4. BoundsRecorded'
    BY <1>4, <2>1 DEF StoreInv, BoundsRecorded
  <2>5. ViewFaithful'
    <3>. SUFFICES ASSUME NEW s \in Complete' \ doomed'
                  PROVE  View(s)' = recorded'[s]
      BY DEF ViewFaithful
    <3>1. s # id
      BY <1>4, <1>11 DEF Complete
    <3>2. s \in Complete \ doomed /\ s \in DOMAIN snapshots /\ s \in Ids
      BY <3>1, <1>5, <1>7 DEF Complete
    <3>3. View(s)' = View(s)
      BY <3>1, <3>2, <1>4, <2>1 DEF View
    <3>. QED
      BY <3>1, <3>2, <3>3, <1>6 DEF StoreInv, ViewFaithful
  <2>6. PathsKnown'
    <3>1. Referenced' \subseteq Referenced \union UNION {PathsOf(e) : e \in rows}
      BY <2>1, <2>2 DEF Referenced
    <3>. QED
      BY <3>1, <1>5 DEF StoreInv, PathsKnown
  <2>7. DiagnosticsOwned'
    BY <1>4, <1>11, <2>2 DEF StoreInv, DiagnosticsOwned
  <2>. QED
    BY <1>8, <2>3, <2>4, <2>5, <2>6, <2>7 DEF StoreInv
<1>. QED
  BY <1>10, <1>11

--------------------------------------------------------------------------------
(* The writer commands *)

\* A step that leaves the tables alone keeps their invariants.
LEMMA UnchangedStoreInv ==
  ASSUME StoreTypeOK, StoreInv, UNCHANGED store
  PROVE  StoreTypeOK' /\ StoreInv' /\ Complete' = Complete /\ Bounds' = Bounds
BY DEF store, StoreTypeOK, StoreInv, ViewFaithful, Complete, View, VersionsDisjoint,
       BoundsRecorded, PathsKnown, Referenced, DiagnosticsOwned, DoomedListed, Bounds

\* Only the lock holder can be in the middle of a command: everyone else
\* collects nothing and has nothing to delete.
LEMMA OthersIdle ==
  ASSUME IInv, NEW p \in Procs, lock = p, NEW q \in Procs, q # p
  PROVE  /\ pc[q] \in {"idle", "waiting"}
         /\ current[q] = 0 /\ active[q] = {} /\ victims[q] = {}
<1>1. pc[q] \notin Locked
  BY DEF IInv, LockOwned
<1>2. pc[q] \in {"idle", "waiting"}
  BY <1>1 DEF IInv, TypeOK
<1>. QED
  BY <1>2 DEF IInv, CollectorState, PruneState, Collecting

--------------------------------------------------------------------------------
(* Steps that do not touch the tables *)

\* Taking and giving back the lock, the bookkeeping of collect and prune
\* between their transactions, errors and kills preserve the invariant.
LEMMA LocalStepInv ==
  ASSUME IInv, NEW p \in Procs,
         \/ \E o \in Ops \ {"none"}, timeout \in 0 .. MaxPolls : Start(p, o, timeout)
         \/ Acquire(p) \/ Poll(p) \/ GiveUp(p) \/ Release(p) \/ MarkActive(p)
         \/ FinalizeError(p) \/ Discard(p) \/ FinishCollect(p)
         \/ SelectRetained(p) \/ Vacuum(p) \/ DatabaseError(p) \/ Crash(p)
  PROVE  IInv'
<1>. USE NoProcAssumption, MaxPollsAssumption
     DEF Locked, Handled, Collecting, Pruning, Goto, Forgotten, local
<1>1. UNCHANGED store
  BY DEF Start, Acquire, Poll, GiveUp, Release, MarkActive, FinalizeError, Discard,
         FinishCollect, SelectRetained, Vacuum, DatabaseError, Crash
<1>2. StoreTypeOK' /\ StoreInv' /\ Complete' = Complete /\ Bounds' = Bounds
  BY <1>1, UnchangedStoreInv DEF IInv, TypeOK
<1>3. snapshots' = snapshots /\ doomed' = doomed /\ DOMAIN snapshots \subseteq Ids
  BY <1>1 DEF store, IInv, TypeOK, StoreTypeOK
<1>. USE DEF IInv, TypeOK, LockOwned, CollectorState, PruneState
<1>4. ASSUME NEW o \in Ops \ {"none"}, NEW timeout \in 0 .. MaxPolls, Start(p, o, timeout)
      PROVE  IInv'
  BY <1>2, <1>3, <1>4 DEF Start
<1>5. CASE Acquire(p)
  BY <1>2, <1>3, <1>5 DEF Acquire
<1>6. CASE Poll(p)
  BY <1>2, <1>3, <1>6 DEF Poll
<1>7. CASE GiveUp(p)
  <2>1. TypeOK'
    BY <1>2, <1>7 DEF GiveUp, Ops
  <2>2. LockOwned'
    BY <1>7 DEF GiveUp
  <2>3. CollectorState'
    BY <1>3, <1>7 DEF GiveUp
  <2>4. PruneState'
    BY <1>2, <1>3, <1>7 DEF GiveUp
  <2>. QED
    BY <1>2, <2>1, <2>2, <2>3, <2>4 DEF IInv
<1>8. CASE Release(p)
  <2>1. TypeOK'
    BY <1>2, <1>8 DEF Release, Ops
  <2>2. LockOwned'
    BY <1>8 DEF Release
  <2>3. CollectorState'
    BY <1>3, <1>8 DEF Release
  <2>4. PruneState'
    BY <1>2, <1>3, <1>8 DEF Release
  <2>. QED
    BY <1>2, <2>1, <2>2, <2>3, <2>4 DEF IInv
<1>9. CASE MarkActive(p)
  <2>1. TypeOK'
    BY <1>2, <1>3, <1>9 DEF MarkActive
  <2>2. LockOwned'
    BY <1>9 DEF MarkActive
  <2>3. CollectorState'
    <3>1. ASSUME NEW q \in Procs, q # p
          PROVE  pc'[q] = pc[q] /\ active'[q] = active[q] /\ current'[q] = current[q]
      BY <1>9, <3>1 DEF MarkActive
    <3>2. /\ pc[p] = "created" /\ pc'[p] = "scanning" /\ current'[p] = current[p]
          /\ active[p] = {} /\ active'[p] = {current[p]}
      <4>1. pc[p] = "created" /\ active[p] = {}
        BY <1>9 DEF MarkActive
      <4>2. pc'[p] = "scanning" /\ current'[p] = current[p]
        BY <1>9 DEF MarkActive
      <4>3. active'[p] = active[p] \union {current[p]}
        BY <1>9 DEF MarkActive
      <4>. QED
        BY <4>1, <4>2, <4>3
    <3>. SUFFICES ASSUME NEW q \in Procs
                  PROVE  /\ pc'[q] \notin Collecting => current'[q] = 0
                         /\ active'[q] = IF pc'[q] \in {"scanning", "stored"}
                                           THEN {current'[q]} ELSE {}
                         /\ pc'[q] \in Collecting =>
                              current'[q] \in DOMAIN snapshots' \ doomed'
                         /\ pc'[q] \in {"created", "scanning"} =>
                              /\ snapshots'[current'[q]].status = "running"
                              /\ \A s \in DOMAIN snapshots' : s <= current'[q]
      OBVIOUS
    <3>3. CASE q = p
      BY <1>3, <3>2, <3>3
    <3>4. CASE q # p
      <4>1. /\ pc[q] \notin Collecting => current[q] = 0
            /\ active[q] = IF pc[q] \in {"scanning", "stored"} THEN {current[q]} ELSE {}
            /\ pc[q] \in Collecting => current[q] \in DOMAIN snapshots \ doomed
            /\ pc[q] \in {"created", "scanning"} =>
                 /\ snapshots[current[q]].status = "running"
                 /\ \A s \in DOMAIN snapshots : s <= current[q]
        BY Zenon
      <4>. HIDE DEF IInv, TypeOK, LockOwned, CollectorState, PruneState
      <4>2. pc'[q] = pc[q] /\ active'[q] = active[q] /\ current'[q] = current[q]
        BY <3>1, <3>4
      <4>. QED
        BY <1>3, <4>1, <4>2, Zenon
    <3>. QED
      BY <3>3, <3>4
  <2>4. PruneState'
    BY <1>2, <1>3, <1>9 DEF MarkActive
  <2>. QED
    BY <1>2, <2>1, <2>2, <2>3, <2>4 DEF IInv
<1>10. CASE FinalizeError(p)
  <2>1. TypeOK'
    BY <1>2, <1>10 DEF FinalizeError
  <2>2. LockOwned'
    BY <1>10 DEF FinalizeError
  <2>3. CollectorState'
    <3>1. active[p] \ {current[p]} = {}
      BY <1>10 DEF FinalizeError
    <3>2. /\ active' = [active EXCEPT ![p] = {}] /\ current' = [current EXCEPT ![p] = 0]
          /\ pc' = [pc EXCEPT ![p] = "release"]
      BY <3>1, <1>10 DEF FinalizeError
    <3>3. /\ active'[p] = {} /\ current'[p] = 0 /\ pc'[p] = "release"
          /\ \A q \in Procs \ {p} : /\ active'[q] = active[q] /\ current'[q] = current[q]
                                    /\ pc'[q] = pc[q]
      BY <3>2
    <3>4. CollectorState
      OBVIOUS
    <3>. HIDE DEF IInv, TypeOK, LockOwned, PruneState, Goto, Forgotten, Locked, Handled, Pruning
    <3>. QED
      BY <3>3, <3>4, <1>3 DEF CollectorState, Collecting
  <2>4. PruneState'
    BY <1>2, <1>3, <1>10 DEF FinalizeError
  <2>. QED
    BY <1>2, <2>1, <2>2, <2>3, <2>4 DEF IInv
<1>11. CASE Discard(p)
  <2>1. TypeOK'
    BY <1>2, <1>11 DEF Discard
  <2>2. LockOwned'
    BY <1>11 DEF Discard
  <2>3. CollectorState'
    <3>1. active[p] \ {current[p]} = {}
      BY <1>11 DEF Discard
    <3>2. /\ active' = [active EXCEPT ![p] = {}] /\ current' = [current EXCEPT ![p] = 0]
          /\ pc' = [pc EXCEPT ![p] = "roots"]
      BY <3>1, <1>11 DEF Discard
    <3>3. /\ active'[p] = {} /\ current'[p] = 0 /\ pc'[p] = "roots"
          /\ \A q \in Procs \ {p} : /\ active'[q] = active[q] /\ current'[q] = current[q]
                                    /\ pc'[q] = pc[q]
      BY <3>2
    <3>4. CollectorState
      OBVIOUS
    <3>. HIDE DEF IInv, TypeOK, LockOwned, PruneState, Goto, Forgotten, Locked, Handled, Pruning
    <3>. QED
      BY <3>3, <3>4, <1>3 DEF CollectorState, Collecting
  <2>4. PruneState'
    BY <1>2, <1>3, <1>11 DEF Discard
  <2>. QED
    BY <1>2, <2>1, <2>2, <2>3, <2>4 DEF IInv
<1>12. CASE FinishCollect(p)
  BY <1>2, <1>3, <1>12 DEF FinishCollect
<1>13. CASE SelectRetained(p)
  BY <1>2, <1>3, <1>13 DEF SelectRetained, Selectable
<1>14. CASE Vacuum(p)
  BY <1>2, <1>3, <1>14 DEF Vacuum
<1>15. CASE DatabaseError(p)
  BY <1>2, <1>3, <1>15 DEF DatabaseError
<1>16. CASE Crash(p)
  <2>1. TypeOK'
    BY <1>2, <1>16 DEF Crash, Ops
  <2>2. LockOwned'
    BY <1>16 DEF Crash
  <2>3. CollectorState'
    BY <1>3, <1>16 DEF Crash
  <2>4. PruneState'
    BY <1>2, <1>3, <1>16 DEF Crash
  <2>. QED
    BY <1>2, <2>1, <2>2, <2>3, <2>4 DEF IInv
<1>. QED
  BY <1>4, <1>5, <1>6, <1>7, <1>8, <1>9, <1>10, <1>11, <1>12, <1>13, <1>14,
     <1>15, <1>16

--------------------------------------------------------------------------------
(* Steps that run a transaction *)

\* Opening the database, and the last transaction of a prune.
LEMMA OrphanStepInv ==
  ASSUME IInv, NEW p \in Procs, OpenDatabase(p) \/ FinishPrune(p)
  PROVE  IInv'
<1>. USE DEF Locked, Handled, Collecting, Pruning, Goto, local
<1>1. StoreTypeOK' /\ StoreInv'
  BY DeleteOrphanPathsInv DEF IInv, TypeOK, OpenDatabase, FinishPrune
<1>2. /\ snapshots' = snapshots /\ intervals' = intervals /\ doomed' = doomed
      /\ Complete' = Complete /\ Bounds' = Bounds
  BY DEF OpenDatabase, FinishPrune, DeleteOrphanPaths, Complete, Bounds
<1>. USE DEF IInv, TypeOK, LockOwned, CollectorState, PruneState
<1>3. CASE OpenDatabase(p)
  <2>1. FirstStep(op[p]) \in {"roots", "select", "vacuum"}
    BY DEF FirstStep
  <2>2. TypeOK'
    BY <1>1, <1>3, <2>1 DEF OpenDatabase
  <2>3. LockOwned' /\ PruneState'
    BY <1>2, <1>3, <2>1 DEF OpenDatabase
  <2>4. CollectorState'
    BY <1>2, <1>3, <2>1 DEF OpenDatabase
  <2>. QED
    BY <1>1, <2>2, <2>3, <2>4
<1>4. CASE FinishPrune(p)
  BY <1>1, <1>2, <1>4 DEF FinishPrune
<1>. QED
  BY <1>3, <1>4

\* create_snapshot.
LEMMA CollectRootInv ==
  ASSUME IInv, NEW p \in Procs, CollectRoot(p)
  PROVE  IInv'
<1>1. PICK r \in Roots, id \in Ids :
        /\ CreateSnapshot(id, r)
        /\ pending' = [pending EXCEPT ![p] = @ \ {r}]
        /\ current' = [current EXCEPT ![p] = id]
  BY DEF CollectRoot, IInv, TypeOK
<1>2. /\ pc[p] = "roots" /\ pc' = [pc EXCEPT ![p] = "created"]
      /\ UNCHANGED <<lock, dbfile, op, polls, active, retained, victims>>
  BY DEF CollectRoot, Goto
<1>3. StoreTypeOK' /\ StoreInv'
  BY <1>1, CreateSnapshotInv DEF IInv, TypeOK
<1>4. /\ id \notin DOMAIN snapshots
      /\ DOMAIN snapshots' = DOMAIN snapshots \union {id}
      /\ snapshots'[id].status = "running"
      /\ \A s \in DOMAIN snapshots' : s <= id
      /\ doomed' = doomed /\ id \notin doomed
  BY <1>1, IdFacts DEF CreateSnapshot, IsNextId, IInv, TypeOK, StoreTypeOK, StoreInv,
                       DoomedListed, Complete
<1>5. lock = p
  BY <1>2 DEF IInv, LockOwned, Locked, Handled
<1>6. TypeOK' /\ LockOwned'
  BY <1>1, <1>2, <1>3 DEF IInv, TypeOK, LockOwned, Locked, Handled, Collecting
<1>7. CollectorState'
  <2>1. ASSUME NEW q \in Procs, q # p
        PROVE  pc'[q] \in {"idle", "waiting"} /\ current'[q] = 0 /\ active'[q] = {}
    BY <1>1, <1>2, <1>5, <2>1, OthersIdle DEF IInv, TypeOK
  <2>2. pc'[p] = "created" /\ current'[p] = id /\ active'[p] = {}
    BY <1>1, <1>2 DEF IInv, TypeOK, CollectorState
  <2>. QED
    BY <1>4, <2>1, <2>2 DEF CollectorState, Collecting
<1>8. PruneState'
  <2>1. victims[p] = {}
    BY <1>2 DEF IInv, PruneState
  <2>2. \A q \in Procs : victims'[q] = {} /\ pc'[q] \notin {"normalize", "delete"}
    BY <1>2, <1>5, <2>1, OthersIdle DEF IInv, TypeOK
  <2>. QED
    BY <2>2 DEF PruneState
<1>. QED
  BY <1>3, <1>6, <1>7, <1>8 DEF IInv

\* The transaction that stores a scan, and the two that mark it FAILED.
LEMMA FinishScanInv ==
  ASSUME IInv, NEW p \in Procs, CommitScan(p) \/ ScanError(p) \/ Interrupt(p)
  PROVE  IInv'
<1>1. pc[p] \in Handled /\ lock = p /\ victims[p] = {}
  BY DEF CommitScan, ScanError, Interrupt, Goto, IInv, LockOwned, PruneState, Locked,
         Handled, Collecting
<1>2. /\ active[p] \subseteq {current[p]}
      /\ active[p] \subseteq DOMAIN snapshots /\ active[p] \intersect doomed = {}
  BY <1>1 DEF IInv, CollectorState, Collecting
<1>3. pc[p] = "scanning" =>
        /\ snapshots[current[p]].status = "running"
        /\ \A s \in DOMAIN snapshots : s <= current[p]
  BY DEF IInv, CollectorState
<1>4. pc[p] \in {"scanning", "stored"} =>
        current[p] \in DOMAIN snapshots \ doomed /\ active[p] = {current[p]}
  BY DEF IInv, CollectorState, Collecting
<1>5. /\ StoreTypeOK' /\ StoreInv'
      /\ DOMAIN snapshots' = DOMAIN snapshots /\ doomed' = doomed
  <2>1. CASE CommitScan(p)
    <3>1. PICK status \in {"complete", "partial", "failed"}, rows \in Scans :
            StoreScan(current[p], status, rows)
      BY <2>1 DEF CommitScan
    <3>2. pc[p] = "scanning"
      BY <2>1 DEF CommitScan, Goto
    <3>3. StoreTypeOK' /\ StoreInv'
      BY <1>3, <1>4, <3>1, <3>2, StoreScanInv DEF IInv, TypeOK
    <3>. QED
      BY <3>1, <3>3 DEF StoreScan
  <2>2. CASE ScanError(p)
    <3>1. FailSnapshots({current[p]}) /\ {current[p]} \intersect doomed = {}
      BY <1>4, <2>2 DEF ScanError
    <3>. QED
      BY <3>1, FailSnapshotsInv DEF FailSnapshots, IInv, TypeOK
  <2>3. CASE Interrupt(p)
    <3>1. FailSnapshots(active[p])
      BY <2>3 DEF Interrupt
    <3>. QED
      BY <1>2, <3>1, FailSnapshotsInv DEF FailSnapshots, IInv, TypeOK
  <2>. QED
    BY <2>1, <2>2, <2>3
<1>6. TypeOK' /\ LockOwned'
  <2>1. CASE Interrupt(p)
    BY <1>1, <1>5, <2>1 DEF Interrupt, IInv, TypeOK, LockOwned, Locked, Handled, Collecting
  <2>2. CASE CommitScan(p) \/ ScanError(p)
    BY <1>1, <1>5, <2>2 DEF CommitScan, ScanError, Goto, local, IInv, TypeOK, LockOwned,
                            Locked, Handled, Collecting
  <2>. QED
    BY <2>1, <2>2
<1>7. \A q \in Procs : victims'[q] = {}
  BY <1>1, OthersIdle DEF CommitScan, ScanError, Interrupt, local
<1>8. \A q \in Procs \ {p} :
        pc'[q] \in {"idle", "waiting"} /\ current'[q] = 0 /\ active'[q] = {}
  BY <1>1, OthersIdle DEF CommitScan, ScanError, Interrupt, local, Goto, IInv, TypeOK
<1>9. CollectorState'
  <2>1. CASE Interrupt(p)
    <3>1. active[p] \ {current[p]} = {}
      BY <1>2
    <3>2. pc'[p] = "release" /\ current'[p] = 0 /\ active'[p] = {}
      BY <2>1, <3>1 DEF Interrupt, IInv, TypeOK
    <3>. QED
      BY <1>8, <3>2 DEF CollectorState, Collecting
  <2>2. CASE CommitScan(p) \/ ScanError(p)
    <3>1. pc[p] \in {"scanning", "stored"} /\ pc'[p] = "stored"
      BY <2>2 DEF CommitScan, ScanError, Goto, IInv, TypeOK
    <3>2. current'[p] = current[p] /\ active'[p] = {current'[p]}
      BY <1>4, <2>2, <3>1 DEF CommitScan, ScanError, local
    <3>. QED
      BY <1>4, <1>5, <1>8, <3>1, <3>2 DEF CollectorState, Collecting
  <2>. QED
    BY <2>1, <2>2
<1>10. PruneState'
  <2>1. \A q \in Procs : pc'[q] \notin {"normalize", "delete"}
    <3>1. pc'[p] \in {"stored", "release"}
      BY DEF CommitScan, ScanError, Interrupt, Goto, IInv, TypeOK
    <3>. QED
      BY <1>8, <3>1
  <2>. QED
    BY <1>7, <2>1 DEF PruneState
<1>. QED
  BY <1>5, <1>6, <1>9, <1>10 DEF IInv

\* The first transaction of a prune.
LEMMA NormalizeStepInv ==
  ASSUME IInv, NEW p \in Procs, Normalize(p)
  PROVE  IInv'
<1>1. /\ pc[p] = "normalize" /\ pc' = [pc EXCEPT ![p] = "delete"]
      /\ NormalizeIntervalBoundaries(retained[p])
      /\ UNCHANGED <<lock, dbfile, local>>
  BY DEF Normalize, Goto
<1>2. lock = p
  BY <1>1 DEF IInv, LockOwned, Locked, Pruning
<1>3. /\ retained[p] \in SUBSET DOMAIN snapshots
      /\ victims[p] = DOMAIN snapshots \ retained[p]
      /\ current[p] = 0 /\ active[p] = {}
  BY <1>1 DEF IInv, PruneState, CollectorState, Collecting
<1>4. StoreTypeOK' /\ StoreInv' /\ Bounds' \subseteq retained[p]
  BY <1>1, <1>3, NormalizeInv DEF IInv, TypeOK
<1>5. /\ snapshots' = snapshots /\ Complete' = Complete
      /\ doomed' = doomed \union (Complete \ retained[p])
  BY <1>1 DEF NormalizeIntervalBoundaries, Complete
<1>6. TypeOK' /\ LockOwned'
  BY <1>1, <1>4 DEF IInv, TypeOK, LockOwned, Locked, Pruning, local
<1>7. \A q \in Procs \ {p} : /\ pc'[q] \in {"idle", "waiting"}
                             /\ current'[q] = 0 /\ active'[q] = {} /\ victims'[q] = {}
  BY <1>1, <1>2, OthersIdle DEF local, IInv, TypeOK
<1>8. /\ pc'[p] = "delete" /\ current'[p] = 0 /\ active'[p] = {}
      /\ victims'[p] = DOMAIN snapshots \ retained[p]
  BY <1>1, <1>3 DEF local, IInv, TypeOK
<1>9. CollectorState'
  BY <1>7, <1>8 DEF CollectorState, Collecting
<1>10. PruneState'
  BY <1>4, <1>5, <1>7, <1>8 DEF PruneState
<1>. QED
  BY <1>4, <1>6, <1>9, <1>10 DEF IInv

\* The transactions of a prune that delete one snapshot each.
LEMMA DeleteNextInv ==
  ASSUME IInv, NEW p \in Procs, DeleteNext(p)
  PROVE  IInv'
<1>1. PICK s \in victims[p] :
        DeleteSnapshot(s) /\ victims' = [victims EXCEPT ![p] = @ \ {s}]
  BY DEF DeleteNext
<1>2. /\ pc[p] = "delete"
      /\ UNCHANGED <<lock, dbfile, pc, op, polls, pending, current, active, retained>>
  BY DEF DeleteNext
<1>3. lock = p /\ current[p] = 0 /\ active[p] = {}
  BY <1>2 DEF IInv, LockOwned, Locked, Pruning, CollectorState, Collecting
<1>4. /\ victims[p] \subseteq DOMAIN snapshots
      /\ victims[p] \intersect Complete \subseteq doomed
      /\ victims[p] \intersect Bounds = {}
  BY <1>2 DEF IInv, PruneState
<1>5. StoreTypeOK' /\ StoreInv'
  BY <1>1, <1>4, DeleteSnapshotInv DEF IInv, TypeOK
<1>6. /\ DOMAIN snapshots' = DOMAIN snapshots \ {s} /\ Complete' = Complete \ {s}
      /\ doomed' = doomed \ {s} /\ Bounds' = Bounds
  BY <1>1 DEF DeleteSnapshot, Complete, Bounds
<1>7. victims'[p] = victims[p] \ {s}
  BY <1>1 DEF IInv, TypeOK
<1>8. TypeOK' /\ LockOwned'
  BY <1>1, <1>2, <1>5 DEF IInv, TypeOK, LockOwned
<1>9. \A q \in Procs \ {p} : /\ pc'[q] \in {"idle", "waiting"}
                             /\ current'[q] = 0 /\ active'[q] = {} /\ victims'[q] = {}
  BY <1>1, <1>2, <1>3, OthersIdle DEF IInv, TypeOK
<1>10. CollectorState'
  BY <1>2, <1>3, <1>9 DEF CollectorState, Collecting
<1>11. PruneState'
  BY <1>2, <1>4, <1>6, <1>7, <1>9 DEF PruneState
<1>. QED
  BY <1>5, <1>8, <1>10, <1>11 DEF IInv

--------------------------------------------------------------------------------
(* The theorems *)

\* The invariant holds in an empty database with every process idle.
LEMMA InitInv == Init => IInv
<1>. SUFFICES ASSUME Init PROVE IInv
  OBVIOUS
<1>. USE DEF Init, StoreInit
<1>1. {} \in Scans /\ 0 \in 0 .. MaxPolls
  BY MaxPollsAssumption DEF Scans
<1>2. TypeOK
  BY <1>1 DEF TypeOK, StoreTypeOK, Ops
<1>3. Complete = {}
  BY DEF Complete
<1>4. ViewFaithful /\ VersionsDisjoint /\ BoundsRecorded /\ DiagnosticsOwned
  BY <1>3 DEF ViewFaithful, VersionsDisjoint, BoundsRecorded, DiagnosticsOwned
<1>5. PathsKnown /\ DoomedListed
  BY DEF PathsKnown, Referenced, DoomedListed
<1>6. LockOwned /\ CollectorState /\ PruneState
  BY NoProcAssumption DEF LockOwned, CollectorState, PruneState, Locked, Handled,
                          Collecting, Pruning
<1>. QED
  BY <1>2, <1>4, <1>5, <1>6 DEF IInv, StoreInv

\* Every step of every writer command preserves it.
LEMMA NextInv == IInv /\ [Next]_vars => IInv'
<1>. SUFFICES ASSUME IInv, [Next]_vars PROVE IInv'
  OBVIOUS
<1>1. CASE Next
  <2>1. PICK p \in Procs :
          \/ \E o \in Ops \ {"none"}, timeout \in 0 .. MaxPolls : Start(p, o, timeout)
          \/ Step(p) \/ Interrupt(p) \/ Crash(p)
    BY <1>1 DEF Next
  <2>. QED
    BY <2>1, LocalStepInv, OrphanStepInv, CollectRootInv, FinishScanInv,
       NormalizeStepInv, DeleteNextInv DEF Step
<1>2. CASE UNCHANGED vars
  <2>1. UNCHANGED store /\ UNCHANGED <<lock, dbfile, pc, local>>
    BY <1>2 DEF vars
  <2>2. StoreTypeOK' /\ StoreInv' /\ Complete' = Complete /\ Bounds' = Bounds
    BY <2>1, UnchangedStoreInv DEF IInv, TypeOK
  <2>. QED
    BY <2>1, <2>2 DEF store, local, IInv, TypeOK, LockOwned, CollectorState, PruneState
<1>. QED
  BY <1>1, <1>2

\* The inductive invariant holds in every reachable state.
THEOREM Invariance == Spec => []IInv
BY InitInv, NextInv, PTL DEF Spec

\* Type correctness.
THEOREM TypeCorrect == Spec => []TypeOK
<1>1. IInv => TypeOK
  BY DEF IInv
<1>. QED
  BY Invariance, <1>1, PTL

\* Every COMPLETE snapshot that no prune has dropped reads back what its scan
\* stored, for any number of writers, roots, paths and snapshots.
THEOREM FaithfulViews == Spec => []ViewFaithful
<1>1. IInv => ViewFaithful
  BY DEF IInv, StoreInv
<1>. QED
  BY Invariance, <1>1, PTL

\* The versions of a directory never overlap, so no snapshot reads two.
THEOREM WellFormedVersions == Spec => []VersionsDisjoint
<1>1. IInv => VersionsDisjoint
  BY DEF IInv, StoreInv
<1>. QED
  BY Invariance, <1>1, PTL

\* Versions never outlive the snapshots that bound them, so no id that is given
\* out again meets an old bound.
THEOREM RecordedBounds == Spec => []BoundsRecorded
<1>1. IInv => BoundsRecorded
  BY DEF IInv, StoreInv
<1>. QED
  BY Invariance, <1>1, PTL

\* Orphan cleanup, in every command, never deletes a path that a stored row
\* names as its own, its parent or its largest child.
THEOREM KnownPaths == Spec => []PathsKnown
<1>1. IInv => PathsKnown
  BY DEF IInv, StoreInv
<1>. QED
  BY <1>1, Invariance, PTL

\* Diagnostic rows always have a listed snapshot that ended PARTIAL or FAILED.
THEOREM OwnedDiagnostics == Spec => []DiagnosticsOwned
<1>1. IInv => DiagnosticsOwned
  BY DEF IInv, StoreInv
<1>. QED
  BY <1>1, Invariance, PTL

\* A prune never has on its list a snapshot that is being collected or that
\* is already gone.
THEOREM DormantVictims == Spec => []VictimsDormant
<1>1. ASSUME IInv PROVE VictimsDormant
  <2>. SUFFICES ASSUME NEW p \in Procs, NEW q \in Procs
                PROVE  /\ victims[p] \subseteq DOMAIN snapshots
                       /\ victims[p] \intersect ({current[q]} \union active[q]) = {}
    BY DEF VictimsDormant
  <2>1. victims[p] \subseteq DOMAIN snapshots /\ 0 \notin victims[p]
    BY <1>1, IdFacts DEF IInv, PruneState, TypeOK
  <2>2. CASE victims[p] = {}
    BY <2>1, <2>2
  <2>3. CASE victims[p] # {}
    <3>1. pc[p] \in {"normalize", "delete", "release"} /\ lock = p
      BY <1>1, <2>3 DEF IInv, PruneState, LockOwned, Locked, Pruning
    <3>2. current[q] = 0 /\ active[q] = {}
      BY <1>1, <3>1, OthersIdle DEF IInv, CollectorState, Collecting
    <3>. QED
      BY <2>1, <3>2
  <2>. QED
    BY <2>2, <2>3
<1>. QED
  BY Invariance, <1>1, PTL

--------------------------------------------------------------------------------
(* Refinement: what reports read is a SnapshotHistory *)

\* The snapshots a report can rely on.
Kept == Complete \ doomed

\* A step after which some of the kept snapshots, and no others, are kept, with
\* the roots and the stored scans they had, is a Forget step of the history.
LEMMA ForgetStep ==
  ASSUME ViewFaithful, ViewFaithful', Kept' \subseteq Kept,
         \A s \in Kept' : /\ snapshots'[s].root = snapshots[s].root
                          /\ recorded'[s] = recorded[s]
  PROVE  History!Next
<1>1. DOMAIN Remembered = Kept /\ DOMAIN Remembered' = Kept'
  BY DEF Remembered, Kept
<1>2. \A s \in Kept' : View(s)' = View(s)
  BY DEF ViewFaithful, Kept
<1>3. Remembered' = [t \in Kept' |-> Remembered[t]]
  BY <1>2 DEF Remembered, Kept
<1>4. Kept \ (Kept \ Kept') = Kept' /\ Kept \ Kept' \in SUBSET DOMAIN Remembered
  BY <1>1
<1>5. History!Forget(Kept \ Kept')
  BY <1>1, <1>3, <1>4 DEF History!Forget
<1>. QED
  BY <1>4, <1>5 DEF History!Next

\* The transaction that stores a COMPLETE scan is a Record step.
LEMMA RecordStep ==
  ASSUME IInv, IInv', NEW p \in Procs, pc[p] = "scanning",
         NEW id, id = current[p], NEW rows \in Scans, StoreScan(id, "complete", rows)
  PROVE  History!Next
<1>. DEFINE c == [root |-> snapshots[id].root, rows |-> rows]
<1>1. /\ id \in DOMAIN snapshots /\ id \notin doomed /\ id \in Ids
      /\ snapshots[id].status = "running" /\ snapshots[id].root \in Roots
      /\ \A s \in DOMAIN snapshots : s <= id
  BY DEF IInv, CollectorState, Collecting, TypeOK, StoreTypeOK, Snapshot
<1>2. /\ DOMAIN snapshots' = DOMAIN snapshots
      /\ snapshots'[id].root = snapshots[id].root /\ snapshots'[id].status = "complete"
      /\ \A s \in DOMAIN snapshots \ {id} : snapshots'[s] = snapshots[s]
      /\ recorded'[id] = rows /\ \A s \in Ids \ {id} : recorded'[s] = recorded[s]
      /\ doomed' = doomed
  BY <1>1 DEF StoreScan, IInv, TypeOK, StoreTypeOK, Snapshot
<1>3. Kept' = Kept \union {id} /\ id \notin Kept
  BY <1>1, <1>2 DEF Kept, Complete
<1>4. Kept \subseteq DOMAIN snapshots /\ DOMAIN snapshots \subseteq Ids
  BY DEF Kept, Complete, IInv, TypeOK, StoreTypeOK
<1>5. \A t \in Kept : t < id
  BY <1>1, <1>3, <1>4, IdFacts
<1>6. View(id)' = rows
  BY <1>2, <1>3 DEF IInv, StoreInv, ViewFaithful, Kept
<1>7. \A t \in Kept : /\ View(t)' = View(t)
                      /\ snapshots'[t].root = snapshots[t].root
  BY <1>2, <1>3, <1>4 DEF IInv, StoreInv, ViewFaithful, Kept
<1>8. DOMAIN Remembered = Kept
  BY DEF Remembered, Kept
<1>9. Remembered' = [t \in Kept \union {id} |-> IF t = id THEN c ELSE Remembered[t]]
  BY <1>2, <1>3, <1>6, <1>7 DEF Remembered, Kept
<1>10. History!Record(id, c)
  BY <1>5, <1>8, <1>9 DEF History!Record
<1>11. c \in [root : Roots, rows : Scans]
  BY <1>1
<1>. QED
  BY <1>1, <1>10, <1>11 DEF History!Next

\* Every step of the writers is a step of the history or leaves it alone.
LEMMA RefinesStep == IInv /\ IInv' /\ [Next]_vars => [History!Next]_Remembered
<1>. SUFFICES ASSUME IInv, IInv', [Next]_vars PROVE [History!Next]_Remembered
  OBVIOUS
<1>1. /\ ViewFaithful /\ ViewFaithful'
      /\ Kept \subseteq Ids /\ Kept \subseteq DOMAIN snapshots
  BY DEF IInv, StoreInv, Kept, Complete, TypeOK, StoreTypeOK
<1>2. ASSUME UNCHANGED <<snapshots, recorded>>, doomed \subseteq doomed'
      PROVE  History!Next
  BY <1>1, <1>2, ForgetStep DEF Kept, Complete
<1>3. ASSUME NEW ids, FailSnapshots(ids)
      PROVE  History!Next
  <2>1. /\ Kept' \subseteq Kept /\ recorded' = recorded
        /\ \A s \in DOMAIN snapshots : snapshots'[s].root = snapshots[s].root
    BY <1>3 DEF FailSnapshots, Kept, Complete, IInv, TypeOK, StoreTypeOK, Snapshot
  <2>. QED
    BY <1>1, <2>1, ForgetStep
<1>4. CASE Next
  <2>1. PICK p \in Procs :
          \/ \E o \in Ops \ {"none"}, timeout \in 0 .. MaxPolls : Start(p, o, timeout)
          \/ Step(p) \/ Interrupt(p) \/ Crash(p)
    BY <1>4 DEF Next
  <2>2. CASE CollectRoot(p)
    <3>1. PICK id \in Ids : \E r \in pending[p] : CreateSnapshot(id, r)
      BY <2>2 DEF CollectRoot
    <3>2. id \notin DOMAIN snapshots
      BY <3>1, IdFacts DEF CreateSnapshot, IsNextId, IInv, TypeOK, StoreTypeOK
    <3>3. /\ Kept' = Kept /\ recorded' = recorded
          /\ \A s \in DOMAIN snapshots : snapshots'[s] = snapshots[s]
      BY <3>1, <3>2 DEF CreateSnapshot, Kept, Complete
    <3>. QED
      BY <1>1, <3>3, ForgetStep
  <2>3. CASE CommitScan(p)
    <3>1. PICK status \in {"complete", "partial", "failed"}, rows \in Scans :
            StoreScan(current[p], status, rows)
      BY <2>3 DEF CommitScan
    <3>2. /\ pc[p] = "scanning" /\ current[p] \in DOMAIN snapshots
          /\ snapshots[current[p]].status = "running"
      BY <2>3 DEF CommitScan, Goto, IInv, CollectorState, Collecting
    <3>3. CASE status = "complete"
      BY <3>1, <3>2, <3>3, RecordStep
    <3>4. CASE status # "complete"
      <4>1. /\ DOMAIN snapshots' = DOMAIN snapshots /\ doomed' = doomed
            /\ snapshots'[current[p]].status = status
            /\ \A s \in DOMAIN snapshots \ {current[p]} : snapshots'[s] = snapshots[s]
            /\ \A s \in Ids \ {current[p]} : recorded'[s] = recorded[s]
        BY <3>1, <3>2 DEF StoreScan, IInv, TypeOK, StoreTypeOK, Snapshot
      <4>2. Kept' = Kept /\ current[p] \notin Kept
        BY <3>2, <3>4, <4>1 DEF Kept, Complete
      <4>. QED
        BY <1>1, <4>1, <4>2, ForgetStep
    <3>. QED
      BY <3>3, <3>4
  <2>4. CASE ScanError(p) \/ Interrupt(p)
    BY <1>3, <2>4 DEF ScanError, Interrupt
  <2>5. CASE DeleteNext(p)
    <3>1. PICK s \in victims[p] : DeleteSnapshot(s)
      BY <2>5 DEF DeleteNext
    <3>2. victims[p] \intersect Complete \subseteq doomed
      BY <2>5 DEF DeleteNext, IInv, PruneState
    <3>3. /\ Kept' = Kept /\ s \notin Kept
          /\ \A t \in DOMAIN snapshots \ {s} : snapshots'[t] = snapshots[t]
          /\ \A t \in Ids \ {s} : recorded'[t] = recorded[t]
      BY <3>1, <3>2 DEF DeleteSnapshot, Kept, Complete, IInv, TypeOK, StoreTypeOK
    <3>. QED
      BY <1>1, <3>3, ForgetStep
  <2>6. CASE OpenDatabase(p) \/ FinishPrune(p) \/ Normalize(p)
    BY <1>2, <2>6 DEF OpenDatabase, FinishPrune, Normalize, DeleteOrphanPaths,
                      NormalizeIntervalBoundaries
  <2>7. CASE UNCHANGED store
    BY <1>2, <2>7 DEF store
  <2>8. UNCHANGED store \/ CollectRoot(p) \/ CommitScan(p) \/ ScanError(p)
        \/ Interrupt(p) \/ DeleteNext(p) \/ OpenDatabase(p) \/ FinishPrune(p)
        \/ Normalize(p)
    BY <2>1 DEF Step, Start, Acquire, Poll, GiveUp, Release, MarkActive, FinalizeError,
                Discard, FinishCollect, SelectRetained, Vacuum, DatabaseError, Crash
  <2>. QED
    BY <2>2, <2>3, <2>4, <2>5, <2>6, <2>7, <2>8
<1>5. CASE UNCHANGED vars
  BY <1>2, <1>5 DEF vars, store
<1>. QED
  BY <1>4, <1>5

\* The database, read through the version table, implements an append-only
\* history of scans with forgetting.
THEOREM Refinement == Spec => HistorySpec
<1>1. Init => History!Init
  <2>. SUFFICES ASSUME Init PROVE Remembered = [s \in {} |-> {}]
    BY DEF History!Init
  <2>1. Complete \ doomed = {}
    BY DEF Init, StoreInit, Complete
  <2>. QED
    BY <2>1 DEF Remembered
<1>. QED
  BY <1>1, Invariance, RefinesStep, PTL DEF Spec, HistorySpec, History!Spec

--------------------------------------------------------------------------------
(* Reports beside the writers *)

ReportInv == IInv /\ RowsKept /\ SelectionKept /\ ReportFaithful

\* Both ways of reading give the stored rows of a snapshot that is as it was
\* selected, or none of a FAILED one, and the join with the paths table loses
\* none of them.
LEMMA ReadsRecorded ==
  ASSUME IInv, RowsKept, AsSelected
  PROVE  /\ \/ Named(SnapshotState(subject)) = expected
            \/ header.status = "failed" /\ Named(SnapshotState(subject)) = {}
         /\ header.status \in Usable => Named(RowsByHeader(subject, header)) = expected
<1>1. /\ subject \in DOMAIN snapshots /\ subject \in Ids /\ subject \notin doomed
      /\ snapshots[subject] = header /\ recorded[subject] = expected
      /\ header.status \in Statuses
  BY DEF AsSelected, IInv, TypeOK, StoreTypeOK, Snapshot
<1>2. CASE header.status = "complete"
  <2>1. subject \in Complete /\ View(subject) = expected
    BY <1>1, <1>2 DEF IInv, StoreInv, ViewFaithful, Complete
  <2>2. ASSUME NEW i \in intervals
        PROVE  i.path \in paths
    <3>1. PathsOf(i) \subseteq Referenced
      BY DEF Referenced
    <3>. QED
      BY <3>1 DEF PathsOf, IInv, StoreInv, PathsKnown
  <2>3. Named(View(subject)) = View(subject)
    BY <2>2 DEF Named, View, RowOf
  <2>4. RowsByHeader(subject, header) = View(subject)
    BY <1>1, <1>2 DEF RowsByHeader, View
  <2>. QED
    BY <2>1, <2>3, <2>4 DEF SnapshotState
<1>3. CASE header.status # "complete"
  <2>1. subject \notin Complete
    BY <1>1, <1>3 DEF Complete
  <2>2. ASSUME NEW e \in diagnostics[subject]
        PROVE  e.path \in paths
    <3>1. e \in UNION {diagnostics[s] : s \in Ids}
      BY <1>1
    <3>2. PathsOf(e) \subseteq Referenced
      BY <3>1 DEF Referenced
    <3>. QED
      BY <3>2 DEF PathsOf, IInv, StoreInv, PathsKnown
  <2>3. Named(diagnostics[subject]) = diagnostics[subject]
    BY <2>2 DEF Named
  <2>4. CASE header.status = "partial"
    BY <1>1, <2>1, <2>3, <2>4 DEF SnapshotState, RowsByHeader, RowsKept
  <2>5. CASE header.status = "failed"
    BY <1>1, <2>1, <2>3, <2>5 DEF SnapshotState, RowsKept, Usable
  <2>6. CASE header.status = "running"
    <3>1. diagnostics[subject] = {} /\ expected = {}
      BY <1>1, <2>6 DEF IInv, StoreInv, DiagnosticsOwned, RowsKept
    <3>. QED
      BY <1>1, <2>1, <2>3, <2>6, <3>1 DEF SnapshotState, Usable
  <2>. QED
    BY <1>1, <1>3, <2>4, <2>5, <2>6 DEF Statuses
<1>. QED
  BY <1>2, <1>3

\* No transaction separates the rows of a PARTIAL snapshot from their scan, or
\* a part of the rows of a FAILED one.
LEMMA RowsKeptStep ==
  ASSUME IInv, RowsKept, [Next]_vars
  PROVE  RowsKept'
<1>. USE DEF RowsKept
<1>0. CASE UNCHANGED <<snapshots, diagnostics, recorded>>
  BY <1>0
<1>t. DOMAIN snapshots \subseteq Ids
  BY DEF IInv, TypeOK, StoreTypeOK
<1>d. \A s \in DOMAIN snapshots : snapshots[s].status \in {"running", "complete"} =>
        diagnostics[s] = {}
  BY <1>t DEF IInv, StoreInv, DiagnosticsOwned
<1>1. ASSUME NEW id \in Ids, NEW r \in Roots, CreateSnapshot(id, r)
      PROVE  RowsKept'
  <2>1. id \notin DOMAIN snapshots
    BY <1>1, IdFacts DEF CreateSnapshot, IsNextId, IInv, TypeOK, StoreTypeOK, Ids
  <2>2. /\ DOMAIN snapshots' = DOMAIN snapshots \union {id}
        /\ snapshots'[id].status = "running"
        /\ \A s \in DOMAIN snapshots : snapshots'[s] = snapshots[s]
        /\ diagnostics' = diagnostics /\ recorded' = recorded
    BY <1>1, <2>1 DEF CreateSnapshot
  <2>. QED
    BY <2>1, <2>2
<1>2. ASSUME NEW ids, FailSnapshots(ids)
      PROVE  RowsKept'
  <2>1. /\ DOMAIN snapshots' = DOMAIN snapshots
        /\ \A s \in DOMAIN snapshots :
             snapshots'[s] = snapshots[s] \/ snapshots'[s].status = "failed"
        /\ diagnostics' = diagnostics /\ recorded' = recorded
    BY <1>2 DEF FailSnapshots, IInv, TypeOK, StoreTypeOK, Snapshot
  <2>2. \A s \in DOMAIN snapshots : diagnostics[s] \in {{}, recorded[s]}
    BY <1>d DEF IInv, TypeOK, StoreTypeOK, Snapshot, Statuses
  <2>. QED
    BY <2>1, <2>2
<1>3. ASSUME NEW s, DeleteSnapshot(s)
      PROVE  RowsKept'
  <2>1. /\ DOMAIN snapshots' = DOMAIN snapshots \ {s}
        /\ \A t \in DOMAIN snapshots' : snapshots'[t] = snapshots[t]
        /\ \A t \in Ids : t # s => /\ recorded'[t] = recorded[t]
                                   /\ diagnostics'[t] = diagnostics[t]
        /\ s \in Ids => recorded'[s] = {}
    BY <1>3 DEF DeleteSnapshot, IInv, TypeOK, StoreTypeOK
  <2>. QED
    BY <1>t, <2>1
<1>4. ASSUME NEW p \in Procs, CommitScan(p)
      PROVE  RowsKept'
  <2>1. PICK status \in {"complete", "partial", "failed"}, rows \in Scans :
          StoreScan(current[p], status, rows)
    BY <1>4 DEF CommitScan
  <2>2. pc[p] = "scanning"
    BY <1>4 DEF CommitScan, Goto
  <2>3. current[p] \in DOMAIN snapshots /\ snapshots[current[p]].status = "running"
    BY <2>2 DEF IInv, CollectorState, Collecting
  <2>4. diagnostics[current[p]] = {}
    BY <2>3, <1>d
  <2>5. /\ DOMAIN snapshots' = DOMAIN snapshots
        /\ snapshots'[current[p]].status = status
        /\ \A s \in DOMAIN snapshots \ {current[p]} : snapshots'[s] = snapshots[s]
    BY <2>1, <2>3 DEF StoreScan, IInv, TypeOK, StoreTypeOK, Snapshot
  <2>6. /\ recorded'[current[p]] = rows
        /\ status # "complete" => diagnostics'[current[p]] = rows
        /\ \A s \in Ids \ {current[p]} : /\ recorded'[s] = recorded[s]
                                         /\ diagnostics'[s] = diagnostics[s]
    BY <1>t, <2>1, <2>3, <2>4 DEF StoreScan, IInv, TypeOK, StoreTypeOK
  <2>. QED
    BY <1>t, <2>3, <2>5, <2>6
<1>5. ASSUME NEW p \in Procs,
             \/ \E o \in Ops \ {"none"}, timeout \in 0 .. MaxPolls : Start(p, o, timeout)
             \/ Step(p) \/ Interrupt(p) \/ Crash(p)
      PROVE  RowsKept'
  <2>1. CASE CollectRoot(p)
    <3>1. PICK r \in Roots, id \in Ids : CreateSnapshot(id, r)
      BY <2>1 DEF CollectRoot, IInv, TypeOK
    <3>. QED
      BY <3>1, <1>1
  <2>2. CASE ScanError(p) \/ Interrupt(p)
    BY <2>2, <1>2 DEF ScanError, Interrupt
  <2>3. CASE DeleteNext(p)
    BY <2>3, <1>3 DEF DeleteNext
  <2>4. CASE CommitScan(p)
    BY <2>4, <1>4
  <2>5. UNCHANGED <<snapshots, diagnostics, recorded>> \/ CollectRoot(p)
        \/ CommitScan(p) \/ ScanError(p) \/ Interrupt(p) \/ DeleteNext(p)
    BY <1>5 DEF Step, Start, Acquire, Poll, GiveUp, Release, MarkActive, FinalizeError,
                Discard, FinishCollect, SelectRetained, Vacuum, DatabaseError, Crash,
                OpenDatabase, FinishPrune, Normalize, DeleteOrphanPaths,
                NormalizeIntervalBoundaries, store
  <2>. QED
    BY <2>1, <2>2, <2>3, <2>4, <2>5, <1>0
<1>. QED
  BY <1>0, <1>5 DEF Next, vars, store

LEMMA ReportInitInv == ReportInit => ReportInv
<1>. SUFFICES ASSUME ReportInit PROVE ReportInv
  OBVIOUS
<1>1. IInv
  BY InitInv DEF ReportInit
<1>2. RowsKept
  BY DEF ReportInit, Init, StoreInit, RowsKept
<1>. QED
  BY <1>1, <1>2 DEF ReportInit, ReportInv, SelectionKept, ReportFaithful

LEMMA ReportNextInv ==
  ReportInv /\ [Report \/ Write]_reportVars => ReportInv'
<1>. SUFFICES ASSUME ReportInv, [Report \/ Write]_reportVars PROVE ReportInv'
  OBVIOUS
<1>1. IInv' /\ RowsKept'
  <2>1. [Next]_vars
    BY DEF Report, Write, Select, SelectById, Choose, ReadState, ReadHeader, Show, Reload,
           End, reportVars
  <2>. QED
    BY <2>1, NextInv, RowsKeptStep DEF ReportInv
<1>. SUFFICES SelectionKept' /\ ReportFaithful'
  BY <1>1 DEF ReportInv
<1>2. ASSUME NEW s \in Ids, Select(s) \/ SelectById(s)
      PROVE  SelectionKept' /\ ReportFaithful'
  BY <1>2 DEF Select, SelectById, Choose, SelectionKept, ReportFaithful, AsSelected, vars,
              store
<1>3. CASE ReadState \/ ReadHeader
  <2>1. /\ stage = "selected" /\ stage' = "done"
        /\ header' = header /\ expected' = expected /\ touched' = touched
        /\ \/ shown' = Named(SnapshotState(subject))
           \/ header.status \in Usable /\ shown' = Named(RowsByHeader(subject, header))
    BY <1>3 DEF ReadState, ReadHeader, Show
  <2>2. SelectionKept'
    BY <2>1 DEF SelectionKept
  <2>3. ~touched => AsSelected
    BY <2>1 DEF ReportInv, SelectionKept
  <2>. QED
    BY <2>1, <2>2, <2>3, ReadsRecorded DEF ReportInv, ReportFaithful
<1>4. CASE Reload \/ End
  BY <1>4 DEF Reload, End, SelectionKept, ReportFaithful
<1>5. CASE Write
  <2>1. stage = "selected" /\ ~touched' => AsSelected' /\ ~touched
    BY <1>5 DEF Write
  <2>. QED
    BY <1>5, <2>1 DEF Write, ReportInv, SelectionKept, ReportFaithful
<1>6. CASE UNCHANGED reportVars
  BY <1>6 DEF reportVars, report, vars, store, ReportInv, SelectionKept,
              ReportFaithful, AsSelected
<1>. QED
  BY <1>2, <1>3, <1>4, <1>5, <1>6 DEF Report

\* A report shows of every snapshot that nothing changed while it ran exactly
\* the rows the scan of that snapshot stored, or, of a FAILED one, possibly none,
\* although it takes no lock and reads in several transactions.
THEOREM FaithfulReports == ReportSpec => []ReportFaithful
<1>1. ReportSpec => []ReportInv
  BY ReportInitInv, ReportNextInv, PTL DEF ReportSpec
<1>2. ReportInv => ReportFaithful
  BY DEF ReportInv
<1>. QED
  BY <1>1, <1>2, PTL

=================================================================================
