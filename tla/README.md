# watchdirs: a TLA+ model

watchdirs records, hour by hour, how much disk each directory of a host uses, keeps
the records in one SQLite file, thins them out by age, and answers questions about
growth. This directory holds a model of it in TLA+, checked with TLC on small
instances, and proofs that TLAPS checks for every size of instance. Paths below are
relative to `src/watchdirs/` of the repository.

## The system

| Component | State it keeps | Operations | What makes it correct |
|---|---|---|---|
| Snapshot database (`db/schema.sql`, `db/migrations.py`) | tables `snapshots`, `paths`, `directory_size_intervals` (versions of COMPLETE snapshots), `directory_size_diagnostics` (rows of the others), `snapshot_mounts`, `snapshot_filesystems` | open and maintain, create a snapshot, store a scan, mark FAILED | a COMPLETE snapshot reads back what its scan stored, for as long as it is kept |
| Retention (`db/retention.py`) | none of its own; works on the tables and the clock | select what to keep, move the bounds of versions, delete snapshots one by one, delete orphaned paths | only what the tiers do not keep is lost; an unfinished prune does no harm |
| Writer lock (`ops_lock.py`) | an flock on `<db>.lock` | acquire with timeout, release | one writer at a time; nobody waits for ever |
| Writer commands (`cli.py`: `run_collect`, `run_prune`, `run_vacuum`) | `active_snapshot_ids`, signal handlers, the loop over the roots | the command from lock to unlock | every failure leaves the database in a state the next command can work with |
| Collector (`collect/`) | explicit stack of frames, table of seen inodes | walk, aggregate, collapse, skip by mount policy | aggregates add up; PARTIAL and FAILED are reported when evidence is missing |
| Reports (`reporting/`) | none; read-only connections | snapshot selection, pairs, top, diff, frontier, trends, path history | a report describes the snapshots it names |
| Query socket (`cli.py`: proxy, `run_query_server`) | a request, the alarm and the progress deadline, a response | forward a read-only command to the service, run it there on the host's database | no waiting for ever, no torn response, no other database |
| Diagnostics (`diagnostics/`) | none | df against index, deleted-open files, docker, summary | bytes are counted in their own filesystem; deleted files are suspected only where there are some |
| Configuration (`config.py`) | none | parsing; validation of overlapping roots | roots that overlap are mounts of their own |
| Rendering, benchmark, scripts | none | formatting | outside the model |

The writers meet only at the lock and in the database file. Between two transactions
of one writer no other writer can run while the advisory lock works, but a reader can,
and the writer can fail, get a signal or be killed. That is where the difficulty of
this code lies:

* a COMPLETE snapshot has no rows of its own: neighbours share versions, so every
  collection and every prune rewrites data that older snapshots read;
* a prune is many transactions: the bounds of the versions are moved in the first, the
  snapshots that were counted out are deleted in one transaction each;
* snapshot ids are given out again after the newest row is deleted, and ids are what
  the bounds of versions name;
* a signal handler runs transactions of its own between any two lines of a collection;
* the cutoffs of the retention tiers move with the clock, which can be set back;
* a scan makes three calls for each directory (stat of the entry, list, stat of its
  entries) while other programs change the tree between them;
* a report reads without a lock, in several statements between which writers commit;
* a scan that folds a directory stores nothing below it, and one that cannot or must not
  read a directory stores nothing of what is in it, so that a missing row means several
  things, and several queries have to tell them apart;
* each directory's bytes are in the rows of all its ancestors: growth, and the space of
  nested mounts, is easily counted twice or not at all;
* the query server is stopped by a signal that raises an exception anywhere, which the
  handlers of system errors on the way take for one of theirs.

`PROJECT.json` lists these places, at their lines, under `hazards`.

## Modules

| Module | Models | Extends |
|---|---|---|
| `SnapshotHistory` | the abstract promise: a map from snapshot ids to scans; `Record` appends, `Forget` removes, nothing is altered | |
| `SnapshotStore` | the four tables and the transactions on them; invariants of the tables | |
| `WriterOps` | collect, prune and vacuum as processes; lock, errors, signals, kills; `SnapshotHistory` as `HistorySpec` | `SnapshotStore` |
| `Retention` | the tiers as definitions, and a database under them as the clock runs | |
| `RetentionLoop` | `select_retained_snapshot_ids` as the pass over the rows it is | `Retention` |
| `RetentionProofs` | theorems | `RetentionLoop`, `TLAPS` |
| `MountPolicy` | mount lookup, classification, cycle checks, `should_descend` | |
| `Scanner` | the walk of one root over a changing filesystem | `MountPolicy` |
| `ScannerProofs` | theorems on the walk and on the rows | `Scanner`, `SharedTheorems` |
| `SharedTheorems` | lemmas on sums over finite sets, sorted lists and paths | `DirPaths`, `TLAPS` |
| `ReportReader` | a report that reads between the writers' transactions | `WriterOps` |
| `DatabaseProofs` | theorems on the tables, the writers and the reader | `ReportReader`, `TLAPS` |
| `DirPaths` | paths, prefixes, ancestors, the ordering of rows | |
| `Frontier` | `reporting/frontier.py`: the growth frontier and the breakdown of a path | `DirPaths` |
| `SnapshotDiff` | two scans of a tree, the diff of their snapshots, the queries on it, `investigate` | `Frontier` |
| `PathHistory` | `reporting/path_history.py`: rows of a directory that moved | `SnapshotDiff` |
| `SnapshotDiffProofs` | theorems | `PathHistory`, `SharedTheorems` |
| `SnapshotPairs` | selection of snapshots and pairs over a clock that may be set back | `DirPaths` |
| `SnapshotPairsProofs` | theorems | `SnapshotPairs`, `SharedTheorems` |
| `Trends` | `reporting/trends.py`, burst metrics, filesystem pressure, capture of capacities | `DirPaths` |
| `StorageDomains` | totals per storage domain, df against index, the summary, validation of roots | `DirPaths` |
| `DiagnosticsProofs` | theorems on domains, the summary and trends | `StorageDomains`, `Trends`, `SharedTheorems` |
| `QueryServer` | the proxy and the socket-activated server | |
| `QueryServerProofs` | theorems | `QueryServer`, `TLAPS` |
| `MCWriterOps`, `MCReportReader`, `MCRetention`, `MCScanner`, `MCSnapshotDiff`, `MCSnapshotPairs`, `MCStorageDomains`, `MCQueryServer` | constants of the TLC instances | |

### SnapshotStore

`snapshots` is a function from ids to root and status. `intervals` is the set of rows of
`directory_size_intervals`; bound `Open` is `valid_to IS NULL`. `diagnostics[s]` are the
rows of snapshot `s` in `directory_size_diagnostics`. A row is a path and a state; the
state stands for all of `_STATE_COLUMNS`, and the constant `Refs` says which paths its
`parent_id` and `top_child_id` name, because orphan deletion depends on them. `View(s)`
is the relation `snapshot_state` that all report queries use.

Two history variables are no tables: `recorded[s]` is what the scan of `s` stored, and
`doomed` are the COMPLETE snapshots a committed normalisation has counted out and no
transaction has deleted yet. Each transaction is one action (a failing one is rolled
back and is no step): `CreateSnapshot`, `StoreScan` (`insert_directory_rows`,
`finalize_snapshot` and `_promote_complete_snapshot`, one transaction in
`_collect_single_root`), `FailSnapshots`, `NormalizeIntervalBoundaries`,
`DeleteSnapshot` (with the cascade), `DeleteOrphanPaths`. `IsNextId` is SQLite's choice
of an id.

The order of the statements inside one transaction is not visible to anyone else and is
folded into the result. The special case of an empty retained list needs no branch: no
version then has a witness, and all are deleted. The deletion of placeholder rows in
`_delete_default_virtual_mount_skip_rows` finds nothing in a database this version
wrote, because the scanner no longer stores such rows; its deletion of unreferenced
paths is part of `OpenDatabase`.

### WriterOps

`pc[p]` says where process `p` is: waiting for the lock, opening, in the loop over the
roots, between the transactions of `_collect_single_root` (`created`, `scanning`,
`stored`), in a prune (`select`, `normalize`, `delete`), or about to release. `active`
is `active_snapshot_ids`, `current` the snapshot of the running `_collect_single_root`;
they are two variables because the signal handler sees only the first, and there is a
moment (`created`) at which it does not hold the second. `polls` abstracts time: how
often the lock is polled before `--lock-timeout` expires, 0 being fail-fast.

`ScanError` is the `except` clause of `_collect_single_root` (it also covers what raises
after the commit), `FinalizeError` the case in which that clause fails as well,
`Interrupt` the signal handler with the unwinding to the end of the command,
`DatabaseError` an exception that ends the command with its lock released, `Crash` a
kill. What a prune keeps is any set that has a COMPLETE snapshot of every root that has
one (`Selectable`); `Retention` shows why the tiers give at least that. The scan result
is any set of rows and any final status.

### Retention and RetentionLoop

Time is in hours, days and months are blocks of `DayLength` and `MonthLength` hours.
`Retained(rows, t)` defines the four tiers. `Collect` adds a row as a collection leaves
it, `Prune` deletes the victims up to some id: all of them, or fewer when it is cut off.
`ever`, `dropped` and `setBack` are history variables; the clock is set back at most
once in a behaviour. `RetentionLoop` has the selection as the code does it, with its two
dictionaries and the order of its tests: `LoopState(t)[k]` is the state of the pass once
it is through the ids up to `k`.

### MountPolicy and Scanner

`stack` are the `_Frame`s from the root to the directory being read, `rows` the
`DirectoryAggregate`s so far, `seenInodes` the table of hard links. Each pass of the loop
in `_scan_stack` is one action: `ListDirectory` and its failures (`_initialize_frame`),
one action for each way an entry can go (`_process_frame_entry`), `FinishFrame`. Paths are
the names below the root; the eight numeric columns of a row are one record, added as a
whole; the counts of evidence by kind are one count. No collapse policy is a policy with
no noise names and a fan-out no directory reaches.

The filesystem is not a state. It answers every call anew, as other programs may have
changed it since the last one: a listing is any subset of the names of the directory, a
stat gives any inode in `Lookup`, or says that the entry is missing or cannot be read;
and the directory that is listed may be another one than the one whose stat was taken
(`Reached`). What one stat returns is consistent; an inode keeps its attributes.

Three history variables are not in the code: `charges` (what was counted, by path, and
whether it is a directory the walk entered),
`problems` (paths that left evidence) and `unseen` (paths not looked at because of an
error other than their absence). The properties compare the rows and the status of the
scan with them.

The mount comparison of `should_descend` (`MountCycle`) does not fire where mounts are
found by the longest prefix of the path: a mount met below the current one has a longer
mount point than all on the stack. A bind mount of an ancestor is recognised by the
identity of the directory; the mutant of `NoDirectoryTwice` leaves that test out.

### ReportReader

A report command has a read-only connection and takes no lock; each SELECT is a
transaction of its own. It deals with its snapshots one by one, so the reader follows
one: `Select` (the statements that choose COMPLETE and PARTIAL snapshots) or
`SelectById` (the numeric selector of `top`, which takes a snapshot of any status), then
one of the two ways in which the queries read rows: `ReadState` through the relation
`snapshot_state`, which looks the status up again, and `ReadHeader`, which trusts the
status it was given. `top` reads in the first way. `Write` is any step of `WriterOps`.
`expected` and `touched` are history variables.

### SnapshotDiff, Frontier, PathHistory

A tree is a function from directories to the bytes of their own files. A scan reads a
part of one (`ReadOf`): of the directories in `cut` it counts less than there is, and its
row of them carries an error, because they are unreadable, excluded or on a mount the
policy skips, because the table of hard links was full, or because an entry could not be
looked up; it passes over `virtual` filesystems without a row; everything it reads may be
folded. `wasThere` and `isThere` are what there was at the two scans, `old` and `new` what
they read, `baseline` and `current` the rows they stored: aggregates of what was read, and
nothing below a folded directory. `DiffRows` is `query_diff_rows` with and without a target path,
`DeletedRows`, `ExplainedRow`, `ReportSummary`, `FastRows` and `Investigate` the queries
and commands above it. Sorting is by the code's keys with the path last; ratios are
integer inequalities (0.95 is 19/20). A sorted list is given by the ranks of its elements
(`SortedBy`): the n-th is the one that n - 1 others come before. A unit is 256 MiB, so
that the absolute thresholds of the relocation suspects are 2 and 1.

### SnapshotPairs

`snapshots` are the rows of the table; a collection ends at any time the clock shows,
and the clock may go back, so the order of ids is not that of times. `PairOfRoot` and
`ResolveSnapshotPairs` are `resolve_snapshot_pairs`, `ResolveByIds`, `TrendSnapshots`,
`TopSnapshots`, `SelectPairForTarget` and `HistoryPair` the other selectors, with their
errors and warnings. A history is asked of a symbolic link: `seen` says for each
snapshot whether it has a row without an error of the path itself and of the directory
the link leads to, and `Observations` are what `_history_observations` finds of them.

### Trends

`samples` are the rows of one directory, `captures` the rows of `snapshot_filesystems`
for one filesystem. Both have an id, in the order in which the snapshots were taken, and
a time, which a clock that is set back puts out of that order. `Shape` is
`_classify_shape`; `BurstRatio` is `investigate`'s own measure. `Pressure` is
`_FilesystemPressureAccumulator`, fed in the order of the SQL: root, time, id.

### StorageDomains

A mount table maps mount points to a filesystem and one of its directories. `Collect`
scans a root under the configuration (other roots, excluded paths, the one-filesystem
rule, overlays, unreadable directories, folded ones); `FilesChange`, `StatFails` and
`Remount` are what happens on the host between a scan and the statvfs that is compared
with it: `stored` are the bytes of the files in each directory of each filesystem, `held`
those of files that are deleted but open. A snapshot has the `contents` its scan saw,
so that what has grown or gone since can be told (`Grown`, `Lost`). `DomainBytes` is the subtraction of nested mounts in
`query_indexed_storage_domain_totals`, `Section` and `LikelyReasons` are `df_index.py`,
`Hints` is the part of `summary.py` that judges the same section. No directory of a
filesystem is mounted twice (`TablesAssumption`), so that a domain's key determines its
mount point. `Shown` is what the mounts let anyone see of a filesystem: statvfs counts the
files that another mount hides, or that lie outside a bind mount, and no scan can.

### QueryServer

One request from the client's decision to use the socket to the last byte it reads.
`server` is where `run_query_server` is: reading the request, running the command,
in the command's handler, in the clauses of the server, composing, writing. A command is
its sequence of SQL statements, probes of filesystems or `/proc`, and plain Python
(`Body`). `alarm` is SIGALRM (off, set, fired), `late` says that the progress deadline
has passed, `stuck` that the statement or probe does not return by itself. An exception
goes to the innermost handler that takes it: a probe's `except OSError`, the command's
`except (OSError, sqlite3.Error)`, the server's `except TimeoutError` or
`except Exception`, or none of them.

## Runs

| Run | Instance | Shows |
|---|---|---|
| `store` | 1 root, 2 paths, 2 states, 3 ids, 1 process | the invariants of the tables, under every sequence of collections and prunes, with failures, signals and kills |
| `writers` | 1 root, 1 path, 2 states, 2 ids, 2 processes | two writers: types, no victim in use, `HistorySpec` (what is read is an append-only history with forgetting), waiting ends, the lock is handed back |
| `report` | 1 root, 1 path, 1 state, 3 ids, 1 writer, 1 reader | a snapshot nobody changes, chosen by status or by id, is shown with exactly the rows its scan stored; a FAILED one may be shown without any |
| `retention` | 2 roots, 4 rows, 7 hours, days of 2 h, a month of 6 h, 1 hourly and 2 daily days, a step back of 1 or 2 h | prunes leave no trace in what later ones keep; what a cut-off prune dropped is never kept later; the loop equals the tiers; a month once covered stays covered |
| `scanner` | 8 inodes, 3 names in the root, a bind mount in which the root reappears, a tmpfs, 2 hard-linked files; 4 configurations | exact aggregates, hard links charged once, one tree of rows, evidence kept by collapsing, COMPLETE only when nothing was missed, no directory inside itself |
| `diff` | all pairs of trees over a chain of three directories beside another one, one of which may change in apparent bytes only, and over two subtrees of one shape beside a large directory; sizes 1 and 19 (on both sides of the 0.95 rule); folding of one directory in either scan; all read, one directory not read to the end, or one passed over as a virtual filesystem | deleted means gone, or marked as not read, in reports and histories; every directory that was read is explained; the frontier names growth once and all of it; breakdowns add up; renames are set apart |
| `pairs` | nested roots, snapshots of each with any times, steps back included, and with usable rows of a path, of the directory it was moved to, or of neither | all selectors look at the same window; a history ends where the pair of its root ends, if that scan could read the path, and starts no further from the cutoff; a nested root owns its paths |
| `trends` | 5 snapshots of 2 roots, sizes 0, 200 and 201, samples and captures with times out of order, failing captures | a one-time jump is a burst; the pressure of a filesystem with one root is its change from the earliest capture to the latest |
| `domains` | a disk and a volume or an overlay, 5 directories, 16 configurations, one directory unreadable, one folded, remounts; files that are written, held open, or deleted while they are open, before and after each scan | totals are exact; deleted-open files are suspected only where there are some or a directory has grown, and found where the index is whole and does not count them; the summary agrees |
| `query` | 5 commands (4 served, 1 refused), 5 lists of `--db`, up to 2 hung calls | only the host's database; a whole response or nothing; the client's wait ends when no probe hangs |
| `whole_snapshots`, `timeout_named` | | disagreements between text and code, below |

Three ids suffice for a version that starts, one that ends and one in between, and for
an id that is deleted and given out again; ids are unbounded within a run because
deleting frees them. Two paths are needed for a state that names another path. Two
processes are enough to interleave a holder and a waiter; the theorems cover any number.
In `retention` the windows are short enough that within the run a snapshot passes
through all tiers, a day straddles each cutoff, and two months are touched. The bounds
are `MaxId`, `MaxPolls`, `MaxNow`, `MaxRows`, `MaxStepBack`, `MaxTaken` and `MaxHung`. `scanner` has no bound
on its depth: the cycle check ends the walk. Its configurations turn fan-out and noise
collapsing (the root's own name included), protected and excluded paths, a full table of
hard links, an included tmpfs and the one-filesystem rule on, two or three at a time; its
tree has protected directories below noise directories and excluded ones in collapsed
ones. `diff`, `trends` and `domains` are searches over inputs rather than long
behaviours: two scans, five snapshots, and one snapshot of each root are what the code
looks at. Their sizes are chosen on the boundaries of the code's ratios. The times of
`pairs` go to 3, so windows of 1 and 2 put the cutoff at an earlier snapshot and before all of them.

Fairness (`FairSpec` of `WriterOps`): a started command keeps taking its own steps. The
commands are sequential programs that neither wait for each other outside the lock nor
block for ever in SQLite (`busy_timeout` is five seconds). Nothing is assumed about the
start of commands, about signals or about kills. There is no fairness of the lock
itself: a waiter may time out, as in the code. Fairness of `QueryServer`: the
interpreter runs, time passes, the kernel delivers the alarm and the end of the stream.
Nothing obliges a stuck statement or probe to return, and `ClientEnds` says what follows:
statements are ended by the progress deadline, probes by nothing, so it holds for
behaviours in which none hangs.

Deadlock checking is off where the modelled program ends: `scanner`, `diff`, `trends`. In
the others something can always happen next.

### Disagreements

* `whole_snapshots`: README.md:187 says retention deletes whole snapshots. The prune
  commits the normalised versions first, so until its last delete, and after a kill
  until the next prune, a COMPLETE snapshot is listed with rows missing or with rows of
  a neighbour. `ViewFaithful` and `DroppedForGood` bound the damage: kept snapshots are
  never affected, and a later prune does not keep a hollow one while the clock does
  not go back.
* `timeout_named`: a test expects a timed-out request to be answered with
  `query_timeout`. The alarm's `TimeoutError` is an `OSError`, and the handlers of the
  commands turn it into `database_error`; only an interrupted statement of `timeline` or
  `investigate` is named correctly.

Without a run of their own, seen while modelling; the properties named leave them out
explicitly:

* A signal between the commit of a COMPLETE scan and the `discard` of its id turns it
  FAILED after its rows left the diagnostic table; schema.sql:43 says the rows of
  non-complete snapshots are retained. `top` shows it, asked for by its id, without any
  row (`ReportFaithful`).
* A directory that the newer scan left out, below one it could not or must not read, is
  listed as `deleted`; only the error of the nearest row tells (queries.py:1892). Under a
  virtual filesystem mounted since the baseline nothing tells (scanner.py:343;
  `DeletedAreGone`).
* Where the newest scan has an error in the row of a path, however small, its history
  ends with an earlier scan than the pair of its root (path_history.py:149;
  `HistoryExtendsPair`).
* README.md:191 promises daily snapshots for the 90 days after the hourly ones; both
  cutoffs are measured from now, so it is 90 days in total.
* schema.sql:16 says that only versions whose aggregate changed are stored. After a
  prune removed the snapshots in between, two adjacent versions of a directory may be
  equal; nothing merges them.
* explain-path looks for folded directories at or below its target only
  (queries.py:1359): of a directory below a folded one it says `deleted` where the diff
  of the same pair says `hidden_by_collapse`.
* A renamed directory that has nearly all of its bytes in one child is dropped as that
  child's ancestor before the relocations are matched (cli.py:1913); the child is then a
  contributor (`RenameIsNoCulprit`).
* `grow_then_clean` asks for some growth, not for material growth (trends.py:188), and
  even growth whose single intervals are below the threshold is `bursty_growth`, not
  `steady_growth` (trends.py:174), unlike the table in
  docs/persistent-growth-investigation-plan.md.
* The pressure rows of several roots on one filesystem are read in the order of the
  roots and not of time (queries.py:897), so start and end are not those of the window
  (`PressureOverWindow`).
* A file that was indexed and then deleted while it is open is in the index and in use
  alike, so nothing is unattributed and df-vs-index does not point it out until the next
  scan (df_index.py:264; `HeldSpaceFound`). Files that grew since the scan are taken for
  deleted-open ones (`SuspicionWarranted`).
* Deleted-open files are suspected without cause when a root was folded with skipped
  paths inside (queries.py:1101 drops the root's own evidence), when a mount point now
  shows another filesystem (df_index.py:220), for a bind mount of a subdirectory, which is
  compared with the whole filesystem, and where a mount hides files of the filesystem it
  is mounted on (`SuspicionWarranted`).
* An option argparse does not know raises SystemExit in the server, and a SIGALRM in the
  server's own clauses escapes: no response is written, against the comment at
  cli.py:870. The client reports an invalid response (`WholeOrNothing`).
* A second hung probe keeps server and client for good: the alarm fires once, and the
  first probe's `except OSError` takes it (df_index.py:221; `ClientEnds`).

## Proofs

### The database (`DatabaseProofs`)

Transaction by transaction, the invariants of the tables (`StoreInv`) are kept. The two
that need work are the promotion of a scan (`PromoteFacts`: at the new id the versions
are the scan, at smaller ids nothing changes) and the normalisation
(`NormalizedIntervalFacts`: bounds move only over ids that are not retained, so every
retained snapshot sees what it saw; `NormalizeInv`).

The inductive invariant of the writers is
`IInv == TypeOK /\ StoreInv /\ LockOwned /\ CollectorState /\ PruneState`. `StoreInv`
alone is not inductive: `StoreScan` is correct only for the newest snapshot, still
RUNNING and without diagnostic rows (`CollectorState`), and `DeleteSnapshot` only for an
id that bounds no version (`PruneState`: after the normalisation the list of victims is
disjoint from the bounds). Both hold because only the lock holder is in the middle of a
command (`LockOwned`). From `IInv` follow

* `TypeCorrect`, `FaithfulViews`, `WellFormedVersions`, `RecordedBounds`, `KnownPaths`,
  `OwnedDiagnostics`, `DormantVictims`: the invariants of the runs, for any number of
  processes, roots, paths, states and ids;
* `Refinement`: `Spec => HistorySpec`, step by step (`ForgetStep`, `RecordStep`,
  `RefinesStep`), with `Remembered` as the refinement mapping.

The invariant carries over to a reader. `FaithfulReports` needs, beside `IInv`, that
PARTIAL snapshots have their scans' rows among the diagnostic rows, FAILED ones these or
none, and RUNNING ones have stored nothing (`RowsKept`), and that a selected snapshot which nobody touched is still as it was selected
(`SelectionKept`). That no step of a writer slips past `touched` is by its definition;
the content is that promotion, normalisation and the deletion of other snapshots and of
orphaned paths leave the rows of an untouched one alone, which is `ViewFaithful`
together with `PathsKnown`.

### Retention (`RetentionProofs`)

The three invariants of `Retention` hold for every policy, calendar and length of
history. `MonthCovered` is inductive by itself: the latest COMPLETE row of a month
(`LatestExists`) is a monthly representative, so no prune deletes it. `PruneHistoryFree`
and `DroppedForGood` follow from `FutureKept`, which speaks of all later times: what a
prune at any time from now on would keep of all rows ever collected is still there, and
none of it was dropped. It is inductive for three reasons: what is kept later is kept
earlier (`KeptLaterKeptEarlier`, the point where a clock set back would break the
argument), a new row saves no other (`AddedSavesNone`), and rows missing from the
database change no representative as long as the kept ones are there
(`MissingChangeNothing`).

`PassAgrees` shows that the pass of `RetentionLoop` selects what the tiers define. Its
loop invariant `Read(state, S, t)` says that after the rows `S` the set `keep` holds the
rows of `S` which their own age keeps, and each dictionary the latest row of each bucket
of `S` (`HoldsLatest`). The pass goes by ids, so it also needs that no two rows share one
(`IdsUnique`).

### The scan (`ScannerProofs`)

First the walk, on any filesystem that changes in any way. `CompleteScans`
follows from a small invariant (`Reported`). `NoCycles` needs `WalkInv`: `should_descend`
compares a directory only with the frames on the stack, so one has to know that these
are exactly the directories entered at the ancestors of its path. That holds because a
name is never listed twice and a finished name is never gone back to (`Clear`, `Above`).

Then the rows. The actions of the walk are first reduced to seven kinds
of step: the next name of the frame on top is passed (`Passes`), a directory is listed
(`Lists`), entered (`Enters`) or left (`Leaves`), the walk ends with the root (`Ends`),
starts (`Starts`) or stops without a row (`Stops`). For these, each invariant rests on
the first two:

* `PlaceInv`: nothing has been noted yet, as a row, a charge or a problem, where a frame
  still has to go (`Fresh`), and no row is that of a directory on the stack.
* `TreeInv`, from which `RowsAreTree` follows: no two rows have one path, a row's parent
  has an expanded row or is still on the stack (`KeepsRow`), and the rows after a frame's
  `rowStart` are exactly those below it (`StartsRows`): what collapsing cuts off are never
  the rows of a neighbour.
* `ProtectedInv` (`ProtectedKept`): a directory that is, or leads to or lies below, a
  protected path has its row or its frame, and such a frame is not marked for collapsing.
* `SumInv` (`RowsAreExact`): a row has the sum of the charges at and below its path, a
  frame that of the charges at and below its path but not below the next frame's
  (`Belongs`), because a child is added to its parent only when it is left.
* `EvidenceInv` (`CollapsedReportsAll`): the same for problems, as cardinalities.
* `LinkInv` (`RootCountsLikeDu`): until something fails, `seenInodes` are the inodes of
  the links met so far, and their charges add up to one time their blocks.

### What the proofs share (`SharedTheorems`)

What the sums of scans and reports need of `SumFunctionOnSet`: adding and removing an
element, splitting in two or into disjoint parts (`SumOfParts`), monotony and bounds. The
recursion in its definition is met there once, with a smallest subset for which a
statement fails (`SmallestSubset`). `SortedIs`: what `SortedBy` gives for a total order is
a list of exactly the elements, in that order. And the facts on prefixes and ancestors:
they are transitive, two prefixes of one path compare (`AncestorsCompare`), each path
below another goes through one child of it (`ChildTowards`), and the subtrees of siblings
are disjoint (`SiblingsApart`).

### Pairs (`SnapshotPairsProofs`)

For any nesting of roots, any times, any order of ids. `TableOK`: the table is finite and
ids are unique, so that `Before` is a total order on its rows, the latest and the oldest
of some rows exist and a list in order begins and ends with them.
`SameWindow` then compares the selectors case by case: with a row at or before the cutoff
the anchor of the timeline is the baseline of the pair, without one the oldest row of the
window is. `InnermostRoot` follows from the longest prefix being chosen among the roots
with a pair, and the error raised for a longer one without. `HistoryOfMoved` goes from
the observations to the snapshots they are of: the last one of the linked directory is
the newest usable row of its root that has one (`ObservedEnds`), an observation of the
pair's own baseline is among those the history chooses from, and what it prefers to it is
nearer to the cutoff (`HistoryIs`).

### Diffs (`SnapshotDiffProofs`)

For any two trees, any parts of them that are not read, any folds and any limit. `PairInv`
says that the two tables are what a scan stores of what it read, with some directories
folded; what was read is a tree again (`ReadIsTree`), and a directory of it has a
row or lies below a folded row, never both (`RowOrFold`, `NoRowsBelowFold`).
`AllExplained` and `DeletedIsGone` rest on that: a missing row is reported as deleted
only when no fold is at or above it, so the directory was not read, and if it was there,
the nearest row above it is that of a directory which was not read to the end
(`UnreadHasError`), or it lay in a virtual filesystem. For `DeletedIsGone` the limit must not bring in rows
that are not there, so that what a sorted list contains is proved as well: the order of
paths and keys is total (`PathOrder`, `KeyOrder`), so each rank is taken by one row
(`SortedIs`).

The frontier drops candidates in favour of descendants that hold nearly all of their
growth, and then passes over the others and leaves out those below one it has taken.
`AllGrowthCovered`: at or below each candidate there is a last one, which has no stand-in
and so is not dropped, and what the pass leaves out lies below a row it took (`KeptOf`). Of two candidates that
stayed the upper one grew more, so it comes first, and the pass takes no row below
another: the subtrees of its rows are disjoint. `GrowthCountedOnce` adds up: a
row's change is the difference of two sums over its subtree, at most the sum of what its
directories grew (`GrowthWithin`, where a fold of the baseline must be one of the current
scan too), and disjoint subtrees together are a part of the tree (`SumOfParts`).

`UnexplainedIsDirect`: the breakdown of a path passes over its children in order, each
followed by the rows below it, until the limit is reached. If the list ends short of the
limit, every child that changed has been shown (`AllListed`), and the change of a
directory is that of its own files and of its children (`ChildrenHold`, `ChildRows`); the
children that are left out have not changed. The hypothesis that the list is shorter than
the limit is needed: what the limit cuts off counts as unexplained.

`RenamesRecognised`: after a rename the old name lost what the new name holds
(`RenamedSubtree`), and beside them nothing changed (`SiblingSubtree`). Of all rows that
grew, only the new name therefore fits the old one (same parent, like size), nothing else
takes it before its turn comes, and the pass matches the new name with something
(`PassFinds`); what is at or below a suspect is no contributor. The property asks that both
names are among the candidates, because each list is cut at three times the limit before
they are matched.

### Storage domains and the summary (`DiagnosticsProofs`)

For any filesystems and files in them, mount tables, roots, exclusions and folds. `IndexInv` says of every
snapshot of the index that what was read and what has a row are closed towards the root
(`IsTree`), that a row has the bytes of what was read at or below it (`IsCounted`), and
that what was not read lies at or below a last row with an error (`IsEvident`). It is kept
by every scan (`SnapshotStored`) and untouched by remounts and by what becomes of the
files, because a snapshot has its own mount table and contents. None of the properties is inductive by itself: they speak of sums of
rows, and only the invariant says what a row is the sum of.

* `SummaryFollows` needs little of it: the section shows the summary as much of the
  evidence as `LikelyReasons` used (`SuspectedIs`, `CompleteIs`).
* `BytesCountedWhereRead`: rows within a domain cancel out, so that what is added at its
  boundary and subtracted below it is the sum of its rows less that of the rows right
  below them (`BoundaryCancels`); a row less the rows right below it is what was read
  directly in it or folded into it (`RowParts`), and that has the row's domain as long as
  no mount point was folded away (`DirectDomain`).
* `HeldIsFound`: statvfs asks for the filesystem of the domain (`CurrentUse`), whose
  directories a mount shows once each (`NodesApart`, `ReadNodes`), so what was read
  through it is at most what the files use and what has gone since (`ReadOrLost`): held
  space beyond that is left over, and with everything read there is no evidence of anything
  missing.
* `SuspectedAreHeld` goes the other way: without a partial snapshot, an error row or a
  scope below the mount point, everything the mount shows was read (`AllRead`), by one root
  or another, so what is indexed is at least what the files use, if none has grown since
  (`TotalCovers`), and a difference can only be held space.

### Trends (`DiagnosticsProofs`)

`TrendInv`: samples and captures are finite and no two have one id, so the orders the code
sorts by are total (`LexicographicOrder`) and the lists are what `SortedIs` says. With one
root the order of the captures is that of their times and ids, and `PressureIsChange`
looks at the two ends of the list (`EndsOfList`). `JumpsAreBursts`: the last of the rises in ascending order
is the largest and the latest of that size (`LargestRise`), so it is the interval
`investigate` points at; it and the one before it are together at most the gross growth,
of which a jump is at least three quarters, so the one before is at most a third of
the jump; and the median of the others is between one and that (`MedianOfOthers`),
`round` to even included (`HalfBetween`).

### The query server (`QueryServerProofs`)

`QueryInv` (types, where the alarm may be set, which request the running command came
from) is inductive, and from it follow `RunsOnHostDb` and `WholeResponses`.
`WholeOrNothing` is not inductive by itself: that no deadline falls into the writing of
the response needs that the alarm is off from the `finally` clause on.

### Assumptions

`Refs` maps states to sets of paths, `MaxId` and `MaxPolls` are naturals, `NoProc` is no
process; the assumptions of `QueryServer` on its constants; the policy's own validation
and a calendar of positive lengths (`Retention`); inodes and names are what
`FilesystemAssumption` says (`Scanner`: names are distinct, entries are inodes, sizes are
naturals) and protected paths are made of names (`SetupAssumption`); roots and targets
are paths, times and windows are positive (`SnapshotPairs`); trees are finite, closed
under parents and have sizes, what a scan does not reach is in a directory that it did not
read to the end, limits are naturals (`SnapshotDiff`); directories, mount
points and filesystems are finitely many, sizes are naturals, something is mounted at `/`, no directory of a
filesystem at two places, and roots are directories (`StorageDomains`); sizes and uses are
naturals, roots are finitely many and there is one (`Trends`). Nothing else is
assumed to be finite, save that ids, rows and times of `Retention` and ids of
`SnapshotPairs` stay below their bounds, whatever these are.

### Only model-checked

* Liveness (`WaitEnds`, `LockFreed`, `ClientEnds`): TLAPS does not reason about fairness
  here.

Every safety property of a run that is expected to pass is also a theorem.

## What could follow

1. `Migrations`: databases of schema 7 and 8 and their placeholder rows.
2. The parsers of `deleted_open.py` against the format of lsof.
3. Relocations among several siblings of like size that grow and shrink at once.

## Not modelled

Rendering and wording of output, argument parsing, logging, the benchmark, release
scripts and systemd units; byte-level encoding of paths; SQLite itself beyond atomic
transactions, cascades and the choice of ids; the metrics vacuum prints; the parsing of
mountinfo, of lsof and `/proc`, and of the docker client's output, which keeps no state;
the summary and statistics statements, grouping labels and the layout of the timeline
payload; the upgrade of older schemas.
