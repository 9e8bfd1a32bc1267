---------------------------- MODULE StorageDomains ----------------------------
(***************************************************************************)
(* Which bytes of the index belong to which mounted filesystem, and how    *)
(* df-vs-index and the pressure summary explain what is left:              *)
(* query_indexed_storage_domain_totals of reporting/queries.py,            *)
(* diagnostics/df_index.py and diagnostics/summary.py.                     *)
(*                                                                         *)
(* A mount table is a function from mount points to what is mounted: a     *)
(* filesystem fs from its directory sub on.  Filesystems have directories  *)
(* of their own, the nodes <<fs, path>>, with the bytes of the files in    *)
(* them; beside those, files that are deleted but open hold space.  Both   *)
(* change between a scan and the statvfs that is compared with it.         *)
(***************************************************************************)
EXTENDS DirPaths, FiniteSets, Functions

CONSTANTS
  Dirs,            \* paths of the host
  Nodes,           \* directories of the filesystems
  Tables,          \* possible mount tables
  Configs,         \* configurations: roots, paths they exclude, and
                   \* mount_policy.one_filesystem
  Files            \* what the filesystems can hold: stored, the bytes of the
                   \* files in each node, and held, those of the deleted-open
                   \* files of each filesystem

Filesystems == {n[1] : n \in Nodes}

ASSUME DirsAssumption ==
  /\ Dirs \subseteq Seq(Nat) /\ IsFiniteSet(Dirs)
  /\ \A p \in Dirs : Ancestors(p) \subseteq Dirs

ASSUME FilesAssumption ==
  /\ IsFiniteSet(Nodes)
  /\ Files \subseteq [stored : [Nodes -> Nat], held : [Filesystems -> Nat]]

\* Something is mounted at "/".
ASSUME MountsAssumption ==
  \A t \in Tables :
    /\ <<>> \in DOMAIN t /\ DOMAIN t \subseteq Seq(Nat) /\ IsFiniteSet(DOMAIN t)
    /\ \A p \in DOMAIN t : t[p].fs \in Filesystems /\ t[p].sub \in Seq(Nat)

\* No directory of a filesystem is mounted at two places, so that the key of a
\* domain (_domain_key), which leaves the mount point out, determines it.
ASSUME TablesAssumption ==
  \A t, u \in Tables : \A p \in DOMAIN t, q \in DOMAIN u : t[p] = u[q] => p = q

ASSUME ConfigsAssumption == \A c \in Configs : c.roots \subseteq Dirs

VARIABLES
  table,     \* what is mounted
  config,    \* the configuration
  index,     \* the latest usable snapshot of each root that has one
  stored,    \* bytes of the files in each node
  held,      \* bytes of deleted-open files of each filesystem
  down       \* mount points where statvfs fails

vars == <<table, config, index, stored, held, down>>

--------------------------------------------------------------------------------
(* The host *)

\* _MountPrefixResolver, find_mount_for_path: the longest mount point
MountPoint(mounts, p) ==
  CHOOSE m \in DOMAIN mounts :
    /\ MatchesPathPrefix(p, m)
    /\ \A n \in DOMAIN mounts : MatchesPathPrefix(p, n) => Len(n) <= Len(m)

Mounted(mounts, p) == mounts[MountPoint(mounts, p)]

\* The directory of a filesystem that is seen at p.
Node(mounts, p) ==
  LET point == MountPoint(mounts, p)
  IN  <<mounts[point].fs, mounts[point].sub \o SubSeq(p, Len(point) + 1, Len(p))>>

Exists(mounts, p) == \A q \in {p} \union Ancestors(p) : Node(mounts, q) \in Nodes

\* The bytes of the files in each directory of the host.
Seen(mounts, contents) == [p \in Dirs |-> contents[Node(mounts, p)]]

\* What statvfs reports as used.
Used(fs) == SumFunctionOnSet(stored, {n \in Nodes : n[1] = fs}) + held[fs]

--------------------------------------------------------------------------------
(* Collections *)

\* validate_roots: a root inside another one must be a mount of its own
\* (require_mount is set wherever it can matter).
ValidateRoots ==
  \A r, s \in config.roots :
    /\ Exists(table, r)
    /\ s \in Ancestors(r) => /\ config.oneFilesystem
                             /\ r \in DOMAIN table
                             /\ Mounted(table, r).fs # Mounted(table, s).fs

\* Other roots below are excluded, and so is what the mount policy skips.
Skips(root, p) ==
  /\ p # root
  /\ \/ p \in config.roots \union config.excludes
     \/ Mounted(table, p).type = "overlay"
     \/ config.oneFilesystem /\ Mounted(table, p).fs # Mounted(table, root).fs

\* The snapshot of a scan that could not read some directories and folded the
\* contents of others.
SnapshotOf(root, unread, fold) ==
  LET below   == {p \in Dirs : MatchesPathPrefix(p, root) /\ Exists(table, p)}
      stopped == {p \in below : Skips(root, p) \/ p \in unread}
      reached == {p \in below : Ancestors(p) \intersect stopped = {}}
      read    == reached \ stopped
  IN  [root     |-> root,
       complete |-> unread \intersect reached = {},
       mounts   |-> table,
       contents |-> stored,
       read     |-> read,
       rows     |-> [p \in {q \in reached : Ancestors(q) \intersect fold = {}} |->
                       [disk  |-> SumFunctionOnSet(Seen(table, stored),
                                    {q \in read : MatchesPathPrefix(q, p)}),
                        error |-> \/ p \in stopped
                                  \/ /\ p \in fold
                                     /\ \E q \in stopped \intersect reached :
                                          MatchesPathPrefix(q, p)]]]

Init ==
  /\ table \in Tables
  /\ config \in Configs
  /\ index = {}
  /\ \E f \in Files : stored = f.stored /\ held = f.held
  /\ down = {}

\* A root is scanned; a scan that cannot read the root itself, or finds it on an
\* overlay, has no usable result.
Collect ==
  \E root \in config.roots, unread, fold \in {{}} \union {{p} : p \in Dirs} :
    /\ ValidateRoots
    /\ Mounted(table, root).type # "overlay"
    /\ root \notin unread
    /\ \A p \in unread \union fold : MatchesPathPrefix(p, root)
    /\ index' = {s \in index : s.root # root} \union {SnapshotOf(root, unread, fold)}
    /\ UNCHANGED <<table, config, stored, held, down>>

\* Files are written, deleted, or deleted while they are open, and closed.
FilesChange ==
  /\ \E f \in Files : stored' = f.stored /\ held' = f.held
  /\ UNCHANGED <<table, config, index, down>>

StatFails ==
  /\ \E points \in SUBSET DOMAIN table : down' = points
  /\ UNCHANGED <<table, config, index, stored, held>>

Remount ==
  /\ table' \in Tables
  /\ UNCHANGED <<config, index, stored, held, down>>

Next == Collect \/ FilesChange \/ StatFails \/ Remount

Spec == Init /\ [][Next]_vars

--------------------------------------------------------------------------------
(* Totals of the index *)

\* _domain_key and the label that goes with it
Domain(mounts, p) ==
  [fs |-> Mounted(mounts, p).fs, sub |-> Mounted(mounts, p).sub,
   type |-> Mounted(mounts, p).type, point |-> MountPoint(mounts, p)]

\* _nearest_indexed_ancestor_match, as a set of at most one row
NearestIndexed(s, p) ==
  LET above == Ancestors(p) \intersect DOMAIN s.rows
  IN  {q \in above : \A r \in above : Len(r) <= Len(q)}

\* _accumulate_storage_domain_boundary_rows
Boundary(s) ==
  {p \in DOMAIN s.rows :
     \A q \in NearestIndexed(s, p) : Domain(s.mounts, q) # Domain(s.mounts, p)}

Domains == UNION {{Domain(s.mounts, p) : p \in DOMAIN s.rows} : s \in index}

DiskBytes(s, paths) == SumFunctionOnSet([p \in DOMAIN s.rows |-> s.rows[p].disk], paths)

\* The boundary rows below a row of domain d.
Leaving(s, d) == {p \in Boundary(s) : \E q \in NearestIndexed(s, p) : Domain(s.mounts, q) = d}

\* Mutant: a domain is counted at its mount point only.
MountPointBytes(s, d) ==
  DiskBytes(s, {p \in Boundary(s) : p = d.point}) - DiskBytes(s, Leaving(s, d))

\* What one snapshot adds to the total of a domain.
DomainBytes(s, d) ==
  DiskBytes(s, {p \in Boundary(s) : Domain(s.mounts, p) = d}) - DiskBytes(s, Leaving(s, d))

Evidence(d) == {s \in index : \E p \in Boundary(s) : Domain(s.mounts, p) = d}

\* Mutant: what a complete scan left out is forgotten.
SkippedNowhere(d) == {}

ErrorRows(s, d) == {p \in DOMAIN s.rows : s.rows[p].error /\ Domain(s.mounts, p) = d}

\* skipped_paths, less what another root indexes
SkippedPaths(d) == (UNION {ErrorRows(s, d) : s \in index}) \ {s.root : s \in Evidence(d)}

\* _DomainAccumulator.to_total
Indexed(d) ==
  LET bytes == SumFunctionOnSet([s \in index |-> DomainBytes(s, d)], index)
  IN  IF bytes < 0 THEN 0 ELSE bytes

--------------------------------------------------------------------------------
(* df-vs-index; a unit is MISMATCH_MIN_BYTES *)

NonNegative(n) == IF n < 0 THEN 0 ELSE n

IsStrictSubtree(p, point) == point \in Ancestors(p)

\* Mutant: a root at the mount point itself counts as a part of the filesystem.
ScopeExtendsAny(d) ==
  /\ Evidence(d) # {}
  /\ \A s \in Evidence(d) : MatchesPathPrefix(s.root, d.point)

\* _default_scope_extends
ScopeExtends(d) ==
  /\ Evidence(d) # {}
  /\ \A s \in Evidence(d) : IsStrictSubtree(s.root, d.point)

IsPartial(d) == \E s \in Evidence(d) : ~ s.complete

\* _is_overlay_mount_accounting_alias
IsAlias(d) == d.type = "overlay" /\ d.point # <<>> /\ Indexed(d) = 0

\* statvfs of the domain's mount point: what is mounted there now
DfUsed(d) == Used(Mounted(table, d.point).fs)

StatAvailable(d) == d.point \notin down

Unattributed(d) ==
  IF IsAlias(d) \/ ~ StatAvailable(d) THEN 0 ELSE NonNegative(DfUsed(d) - Indexed(d))

OverIndexed(d) ==
  IF IsAlias(d) \/ ~ StatAvailable(d) THEN 0 ELSE NonNegative(Indexed(d) - DfUsed(d))

\* MISMATCH_MIN_RATIO = 0.05
Material(d) ==
  StatAvailable(d) /\ Unattributed(d) >= 1 /\ 20 * Unattributed(d) >= DfUsed(d)

\* _classify_mismatch
LikelyReasons(d) ==
  LET partial == IsPartial(d) \/ SkippedPaths(d) # {}
  IN  IF ~ Material(d) THEN {}
      ELSE {"docker_or_containerd_storage", "reserved_or_metadata_accounting"}
             \union (IF ~ ScopeExtends(d) /\ ~ partial
                       THEN {"deleted_open_file_suspected"} ELSE {})
             \union (IF ScopeExtends(d) THEN {"filesystem_scope_beyond_indexed_roots"} ELSE {})
             \union (IF partial THEN {"skipped_or_partial_scan_evidence"} ELSE {})

\* _build_section of df_index.py
Section(d) ==
  [domain       |-> d,
   available    |-> StatAvailable(d),
   unattributed |-> Unattributed(d),
   overIndexed  |-> OverIndexed(d),
   extends      |-> ScopeExtends(d),
   complete     |-> {s.complete : s \in Evidence(d)},
   coverage     |-> (IF SkippedPaths(d) # {} THEN {"indexed_paths_skipped"} ELSE {})
                      \union (IF IsAlias(d) /\ StatAvailable(d)
                                THEN {"overlay_mount_reuses_parent_filesystem_usage"} ELSE {}),
   reasons      |-> LikelyReasons(d)]

Sections == {Section(d) : d \in Domains}

--------------------------------------------------------------------------------
(* The pressure summary *)

\* Mutant: partial snapshots alone count as partial evidence.
AllowsOpenPartialOnly(sec, probed) == (~ sec.extends /\ FALSE \notin sec.complete) \/ probed

\* _append_unattributed_section: probed says that a live probe found some.
AllowsDeletedOpen(sec, probed) ==
  \/ ~ sec.extends /\ FALSE \notin sec.complete /\ "indexed_paths_skipped" \notin sec.coverage
  \/ probed

\* The hints of _build_section of summary.py, without that of a full filesystem.
Hints(sec, probed) ==
  IF ~ sec.available THEN {"filesystem_stat_unavailable"}
  ELSE IF sec.unattributed > 0 /\ sec.reasons # {}
    THEN {"unattributed_usage"}
           \union (IF AllowsDeletedOpen(sec, probed) THEN {"deleted_open_file_suspected"} ELSE {})
  ELSE IF sec.overIndexed > 0 THEN {"over_indexed_skew"}
  ELSE {}

\* Accounting aliases are left out of the summary.
Summarized ==
  {sec \in Sections : "overlay_mount_reuses_parent_filesystem_usage" \notin sec.coverage}

--------------------------------------------------------------------------------
(* Properties *)

HidesMount(s) == \E p \in DOMAIN s.mounts : p \in s.read /\ p \notin DOMAIN s.rows

\* statvfs asks for the filesystems the index was taken of.
Current == \A s \in index : s.mounts = table

\* What the scan of s read on a mount.
ReadBytes(s, d) ==
  SumFunctionOnSet(Seen(s.mounts, s.contents), {p \in s.read : Domain(s.mounts, p) = d})

\* The total of a domain is what the scans read on that mount, unless a mount
\* point itself was folded into the directory above it.
TotalsExact ==
  (\A s \in index : ~ HidesMount(s)) =>
    \A d \in Domains :
      Indexed(d) = SumFunctionOnSet([s \in index |-> ReadBytes(s, d)], index)

\* All files of the filesystem are in directories that its mount shows: it is
\* mounted from its top on, and no other mount hides files.
Shown(d) ==
  \A n \in Nodes : n[1] = d.fs /\ stored[n] > 0 =>
    \E p \in Dirs : Exists(table, p) /\ Domain(table, p) = d /\ Node(table, p) = n

\* A directory of the filesystem has grown since a scan has read it.
Grown(d) ==
  \E s \in index : \E n \in {Node(s.mounts, p) : p \in s.read} :
    n[1] = d.fs /\ stored[n] > s.contents[n]

\* The bytes that directories of the filesystem have lost since a scan.
Lost(s, d) ==
  SumFunctionOnSet([n \in Nodes |-> NonNegative(s.contents[n] - stored[n])],
                   {n \in Nodes : n[1] = d.fs})

\* df-vs-index suspects deleted-open files only where there are some: never for
\* what was excluded, unreadable, on another root, or outside the roots.  There
\* are five exceptions: a directory that has grown since its scan, for statvfs is
\* asked now and the index is as old as its snapshots; files that no mount shows,
\* or another one; a mount point that was folded away; a mount table that has
\* changed since the scan; and a root that was folded itself, whose evidence of
\* skipped paths SkippedPaths leaves out with the root.
SuspicionWarranted ==
  Current =>
    \A d \in Domains :
      /\ "deleted_open_file_suspected" \in LikelyReasons(d)
      /\ Shown(d)
      /\ \A s \in index : ~ HidesMount(s) /\ ~ s.rows[s.root].error
      => held[d.fs] > 0 \/ Grown(d)

\* Where nothing is missing from the index, held space is pointed out as far as it
\* exceeds what the directories have lost since the scan: a file that was indexed
\* and then deleted while it was open is still in the index and still in use, so
\* nothing is unattributed and nothing is suspected.
HeldSpaceFound ==
  Current => \A d \in Domains :
    /\ \A s \in index : s.read = {p \in Dirs : MatchesPathPrefix(p, s.root) /\ Exists(table, p)}
    /\ StatAvailable(d) /\ ~ IsAlias(d)
    /\ \A s \in index : DOMAIN s.rows = s.read
    /\ \E s \in index :
         LET new == held[d.fs] - Lost(s, d)
         IN  s.root = <<>> /\ new >= 1 /\ 20 * new >= Used(d.fs)
    => "deleted_open_file_suspected" \in LikelyReasons(d)

\* The summary, which judges the evidence anew, suspects deleted-open files in
\* the domains in which df-vs-index does, unless a probe has found some.
SummaryAgrees ==
  \A sec \in Summarized :
    "deleted_open_file_suspected" \in Hints(sec, FALSE)
      <=> "deleted_open_file_suspected" \in sec.reasons
================================================================================
