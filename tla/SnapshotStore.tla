----------------------------- MODULE SnapshotStore -----------------------------
(***************************************************************************)
(* The snapshot database: the tables of db/schema.sql and the transactions *)
(* that db/migrations.py and db/retention.py run on them.                  *)
(*                                                                         *)
(* A COMPLETE snapshot keeps no rows of its own.  Its directory rows are   *)
(* the versions in directory_size_intervals whose half-open id range       *)
(* valid_from <= id < valid_to holds the snapshot's id.  Other snapshots   *)
(* keep their rows in directory_size_diagnostics.                          *)
(*                                                                         *)
(* A directory row is a path and a state; the state stands for every       *)
(* column of _STATE_COLUMNS, and Refs gives the paths its parent_id and    *)
(* top_child_id columns name.                                              *)
(***************************************************************************)
EXTENDS Integers, FiniteSetsExt

CONSTANTS
  Roots,    \* configured collection roots
  Paths,    \* directory paths
  States,   \* values of the aggregate columns of one directory row
  Refs,     \* Refs[st] = the paths the columns of st refer to
  MaxId     \* bound: collection stops when the next snapshot id exceeds it

ASSUME RefsAssumption == Refs \in [States -> SUBSET Paths]
ASSUME MaxIdAssumption == MaxId \in Nat

VARIABLES
  snapshots,     \* table snapshots: a function from ids to rows
  intervals,     \* table directory_size_intervals: a set of rows
  diagnostics,   \* table directory_size_diagnostics: rows of each snapshot id
  paths,         \* table paths
  recorded,      \* history variable: the rows the scan of each snapshot stored
  doomed         \* history variable: the COMPLETE snapshots a committed
                 \* normalisation has dropped and no transaction has deleted

store == <<snapshots, intervals, diagnostics, paths, recorded, doomed>>

Ids      == 1 .. MaxId
Statuses == {"running", "complete", "partial", "failed"}
Open     == 0                     \* valid_to_snapshot_id IS NULL
Entry    == [path : Paths, state : States]
Snapshot == [root : Roots, status : Statuses]
Interval == [root : Roots, path : Paths, from : Ids,
             to : Ids \union {Open}, state : States]

\* What a scan reports: at most one row for a path.
Scans == {rows \in SUBSET Entry :
            \A a, b \in rows : a.path = b.path => a = b}

StoreTypeOK ==
  /\ DOMAIN snapshots \subseteq Ids
  /\ snapshots \in [DOMAIN snapshots -> Snapshot]
  /\ intervals \subseteq Interval
  /\ diagnostics \in [Ids -> Scans]
  /\ paths \subseteq Paths
  /\ recorded \in [Ids -> Scans]
  /\ doomed \subseteq Ids

StoreInit ==
  /\ snapshots = [s \in {} |-> {}]
  /\ intervals = {}
  /\ diagnostics = [s \in Ids |-> {}]
  /\ paths = {}
  /\ recorded = [s \in Ids |-> {}]
  /\ doomed = {}

--------------------------------------------------------------------------------
(* Reading *)

Complete == {s \in DOMAIN snapshots : snapshots[s].status = "complete"}

Covers(i, s) == i.from <= s /\ (i.to = Open \/ s < i.to)

RowOf(i) == [path |-> i.path, state |-> i.state]

\* The rows snapshot_state gives for a COMPLETE snapshot s.
View(s) == {RowOf(i) : i \in {j \in intervals :
                                j.root = snapshots[s].root /\ Covers(j, s)}}

\* The paths a row refers to: path_id, parent_id and top_child_id.
PathsOf(row) == {row.path} \union Refs[row.state]

Referenced ==
  UNION ({PathsOf(i) : i \in intervals}
           \union {PathsOf(e) : e \in UNION {diagnostics[s] : s \in Ids}})

--------------------------------------------------------------------------------
(* Transactions.  A transaction that fails is rolled back: it is no step.  *)

\* SQLite gives a new row the largest id of the table plus one: after the
\* newest row has been deleted its id is given out again.
IsNextId(id) ==
  /\ \A s \in DOMAIN snapshots : s < id
  /\ id = 1 \/ id - 1 \in DOMAIN snapshots

CreateSnapshot(id, r) ==
  /\ IsNextId(id)
  /\ snapshots' = [s \in DOMAIN snapshots \union {id} |->
                     IF s = id THEN [root |-> r, status |-> "running"]
                               ELSE snapshots[s]]
  /\ UNCHANGED <<intervals, diagnostics, paths, recorded, doomed>>

\* Mutant: versions of directories that are gone are not ended.
PromoteKeepsGone(id, r, rows) ==
  LET active == {i \in intervals : i.root = r /\ i.from < id /\ i.to = Open}
      closed == {i \in active : RowOf(i) \notin rows
                                  /\ \E e \in rows : e.path = i.path}
      fresh  == {e \in rows : \A a \in active : RowOf(a) # e}
  IN  (intervals \ closed)
        \union {[i EXCEPT !.to = id] : i \in closed}
        \union {[root |-> r, path |-> e.path, from |-> id, to |-> Open,
                 state |-> e.state] : e \in fresh}

\* Mutant: the version a changed row replaces is not ended.
PromoteKeepsChanged(id, r, rows) ==
  LET active == {i \in intervals : i.root = r /\ i.from < id /\ i.to = Open}
      closed == {i \in active : \A e \in rows : e.path # i.path}
      fresh  == {e \in rows : \A a \in active : RowOf(a) # e}
  IN  (intervals \ closed)
        \union {[i EXCEPT !.to = id] : i \in closed}
        \union {[root |-> r, path |-> e.path, from |-> id, to |-> Open,
                 state |-> e.state] : e \in fresh}

\* The intervals after the rows of snapshot id of root r have been promoted:
\* a version that is gone or changed ends at id, a changed or new one starts.
PromoteCompleteSnapshot(id, r, rows) ==
  LET active == {i \in intervals : i.root = r /\ i.from < id /\ i.to = Open}
      ended  == {i.path : i \in {a \in active : RowOf(a) \notin rows}}
      closed == {i \in intervals : i.root = r /\ i.to = Open /\ i.path \in ended}
      fresh  == {e \in rows : \A a \in active : RowOf(a) # e}
  IN  (intervals \ closed)
        \union {[i EXCEPT !.to = id] : i \in closed}
        \union {[root |-> r, path |-> e.path, from |-> id, to |-> Open,
                 state |-> e.state] : e \in fresh}

\* The transaction that stores a scan: insert_directory_rows, then
\* finalize_snapshot, which promotes the rows of a COMPLETE scan.
StoreScan(id, status, rows) ==
  /\ snapshots' = [snapshots EXCEPT ![id].status = status]
  /\ IF status = "complete"
       THEN /\ intervals' = PromoteCompleteSnapshot(id, snapshots[id].root,
                                                    diagnostics[id] \union rows)
            /\ diagnostics' = [diagnostics EXCEPT ![id] = {}]
       ELSE /\ diagnostics' = [diagnostics EXCEPT ![id] = @ \union rows]
            /\ UNCHANGED intervals
  /\ paths' = paths \union UNION {PathsOf(e) : e \in rows}
  /\ recorded' = [recorded EXCEPT ![id] = rows]
  /\ UNCHANGED doomed

\* finalize_snapshot with status FAILED, for each snapshot of ids.
FailSnapshots(ids) ==
  /\ snapshots' = [s \in DOMAIN snapshots |->
                     IF s \in ids THEN [snapshots[s] EXCEPT !.status = "failed"]
                                  ELSE snapshots[s]]
  /\ UNCHANGED <<intervals, diagnostics, paths, recorded, doomed>>

\* The retained COMPLETE snapshots of a root.
RetainedComplete(r, retained) ==
  {s \in retained \intersect Complete : snapshots[s].root = r}

\* The retained COMPLETE snapshots that see interval i.
Witnesses(i, retained) ==
  {s \in RetainedComplete(i.root, retained) : Covers(i, s)}

\* Mutant: the retained snapshot that ends the version is skipped.
NormalizedEndAfter(i, retained) ==
  LET later == {s \in RetainedComplete(i.root, retained) : s > i.to}
  IN  IF i.to = Open \/ later = {} THEN Open ELSE Min(later)

NormalizedEnd(i, retained) ==
  LET later == {s \in RetainedComplete(i.root, retained) : s >= i.to}
  IN  IF i.to = Open \/ later = {} THEN Open ELSE Min(later)

\* Mutant: valid_from keeps naming a snapshot that may be deleted.
NormalizedEndOnly(i, retained) == [i EXCEPT !.to = NormalizedEnd(i, retained)]

NormalizedInterval(i, retained) ==
  [i EXCEPT !.from = Min(Witnesses(i, retained)),
            !.to   = NormalizedEnd(i, retained)]

NormalizeIntervalBoundaries(retained) ==
  /\ intervals' = {NormalizedInterval(i, retained) :
                     i \in {j \in intervals : Witnesses(j, retained) # {}}}
  /\ doomed' = doomed \union (Complete \ retained)
  /\ UNCHANGED <<snapshots, diagnostics, paths, recorded>>

\* Mutant: foreign keys are not enforced, so nothing cascades.
DeleteSnapshotOnly(s) ==
  /\ snapshots' = [t \in DOMAIN snapshots \ {s} |-> snapshots[t]]
  /\ recorded' = [recorded EXCEPT ![s] = {}]
  /\ doomed' = doomed \ {s}
  /\ UNCHANGED <<intervals, diagnostics, paths>>

\* Deleting a snapshot row cascades to its diagnostic rows.
DeleteSnapshot(s) ==
  /\ snapshots' = [t \in DOMAIN snapshots \ {s} |-> snapshots[t]]
  /\ diagnostics' = [diagnostics EXCEPT ![s] = {}]
  /\ recorded' = [recorded EXCEPT ![s] = {}]
  /\ doomed' = doomed \ {s}
  /\ UNCHANGED <<intervals, paths>>

\* Mutant: a path only a parent_id or top_child_id names counts as orphaned.
DeleteUnlistedPaths ==
  /\ paths' = paths \intersect
                ({i.path : i \in intervals}
                   \union {e.path : e \in UNION {diagnostics[s] : s \in Ids}})
  /\ UNCHANGED <<snapshots, intervals, diagnostics, recorded, doomed>>

DeleteOrphanPaths ==
  /\ paths' = paths \intersect Referenced
  /\ UNCHANGED <<snapshots, intervals, diagnostics, recorded, doomed>>

--------------------------------------------------------------------------------
(* Invariants of the tables *)

\* Every COMPLETE snapshot that no prune has dropped reads back exactly the
\* rows its own scan stored, whatever collections, prunes, failures and kills
\* came before and after: _promote_complete_snapshot, the interval join of
\* snapshot_state and _normalize_interval_boundaries fit together.
ViewFaithful == \A s \in Complete \ doomed : View(s) = recorded[s]

\* The versions of one directory are non-empty id ranges that do not overlap,
\* so that no snapshot sees a directory twice and neither the insert of a
\* promotion nor the UPDATE of a normalisation meets the UNIQUE constraint of
\* directory_size_intervals.
VersionsDisjoint ==
  /\ \A i \in intervals : i.to # Open => i.from < i.to
  /\ \A i, j \in intervals :
       i # j /\ i.root = j.root /\ i.path = j.path =>
         \/ i.to # Open /\ i.to <= j.from
         \/ j.to # Open /\ j.to <= i.from

\* A bound of a version is the id of a snapshot of the same root that is
\* still listed and whose scan was stored.  Ids are given out again after the
\* newest snapshot is deleted, and a bound left behind would then come to
\* mean a different scan.
BoundsRecorded ==
  \A i \in intervals : \A b \in {i.from, i.to} \ {Open} :
    /\ b \in DOMAIN snapshots
    /\ snapshots[b].root = i.root
    /\ snapshots[b].status \in {"complete", "failed"}

\* Every path_id, parent_id and top_child_id of a stored row is in the paths
\* table, although every command deletes the paths that look unreferenced.
PathsKnown == Referenced \subseteq paths

\* Diagnostic rows belong to a listed snapshot that ended PARTIAL or FAILED:
\* none survives its snapshot to be taken for rows of the next one with the
\* same id, and none is left under a COMPLETE or RUNNING one.
DiagnosticsOwned ==
  \A s \in Ids : diagnostics[s] # {} =>
    /\ s \in DOMAIN snapshots
    /\ snapshots[s].status \in {"partial", "failed"}

\* A snapshot counts as dropped only while it is listed as COMPLETE: an id
\* that is given out again starts afresh.
DoomedListed == doomed \subseteq Complete

\* The bounds that occur in some version.
Bounds == UNION {{i.from, i.to} \ {Open} : i \in intervals}

StoreInv ==
  /\ ViewFaithful /\ VersionsDisjoint /\ BoundsRecorded
  /\ PathsKnown /\ DiagnosticsOwned /\ DoomedListed
================================================================================
