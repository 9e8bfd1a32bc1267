-------------------------- MODULE DiagnosticsProofs --------------------------
(***************************************************************************)
(* What df-vs-index and the pressure summary make of an index, for every   *)
(* host, mount table and configuration, and what the trends make of a      *)
(* window, for every series of samples.                                    *)
(***************************************************************************)
EXTENDS StorageDomains, Trends, SharedTheorems

--------------------------------------------------------------------------------
(* The index *)

\* The directories there were for a scan to read.
Within(s) == {p \in Dirs : MatchesPathPrefix(p, s.root) /\ Exists(s.mounts, p)}

\* What is read and what has a row is closed upwards to the root.
IsTree(s) ==
  /\ s.read \subseteq Within(s) /\ DOMAIN s.rows \subseteq Within(s)
  /\ s.root \in DOMAIN s.rows /\ s.root \in s.read
  /\ \A p \in s.read : \A q \in Ancestors(p) : MatchesPathPrefix(q, s.root) => q \in s.read
  /\ \A p \in DOMAIN s.rows : \A q \in Ancestors(p) :
       MatchesPathPrefix(q, s.root) => q \in DOMAIN s.rows

\* A row has the bytes of what was read at or below it.
IsCounted(s) ==
  \A p \in DOMAIN s.rows :
    s.rows[p].disk =
      SumFunctionOnSet(Seen(s.mounts, s.contents), {q \in s.read : MatchesPathPrefix(q, p)})

\* What was not read is at or below a last row with an error, and where something
\* is said to be missing, something was not read.
IsEvident(s) ==
  /\ \A p \in Within(s) \ s.read : \E q \in DOMAIN s.rows :
       /\ MatchesPathPrefix(p, q) /\ s.rows[q].error
       /\ \A r \in DOMAIN s.rows : q \notin Ancestors(r)
  /\ ~ s.complete \/ (\E p \in DOMAIN s.rows : s.rows[p].error) => Within(s) # s.read

IsSnapshot(s) ==
  /\ s.mounts \in Tables /\ s.contents \in [Nodes -> Nat]
  /\ s.root \in Dirs /\ s.complete \in BOOLEAN
  /\ IsTree(s) /\ IsCounted(s) /\ IsEvident(s)

IndexInv ==
  /\ table \in Tables /\ config \in Configs
  /\ stored \in [Nodes -> Nat] /\ held \in [Filesystems -> Nat]
  /\ IsFiniteSet(index)
  /\ \A s \in index : /\ IsSnapshot(s) /\ s.root \in config.roots
                      /\ s.read \intersect config.roots \subseteq {s.root}
  /\ \A s, t \in index : s.root = t.root => s = t

--------------------------------------------------------------------------------
(* Scans *)

\* Of some paths, one is a shortest.
LEMMA ShortestPath ==
  ASSUME NEW S, S \subseteq Seq(Nat), S # {}
  PROVE  \E x \in S : \A y \in S : Len(x) <= Len(y)
<1>. DEFINE T == {Len(x) : x \in S}
<1>1. T \subseteq Nat /\ T # {}
  <2>1. T \subseteq Nat
    BY LenProperties
  <2>2. PICK x \in S : TRUE
    OBVIOUS
  <2>3. Len(x) \in T
    BY <2>2, Zenon
  <2>. QED
    BY <2>1, <2>3
<1>. HIDE DEF T
<1>2. PICK n \in T : \A k \in T : n <= k
  BY <1>1, LeastNumber
<1>. QED
  BY <1>2 DEF T

\* Of some prefixes of a path, one is a longest.
LEMMA LongestPrefix ==
  ASSUME NEW S, S \subseteq Seq(Nat), S # {}, NEW p \in Seq(Nat),
         \A x \in S : MatchesPathPrefix(p, x)
  PROVE  \E x \in S : \A y \in S : Len(y) <= Len(x)
<1>. DEFINE T == {Len(p) - Len(x) : x \in S}
<1>1. \A x \in S : Len(x) \in Nat /\ Len(p) \in Nat /\ Len(x) <= Len(p)
  BY PrefixIs, LenProperties
<1>2. T \subseteq Nat /\ T # {}
  BY <1>1
<1>. HIDE DEF T
<1>3. PICK n \in T : \A k \in T : n <= k
  BY <1>2, LeastNumber
<1>4. PICK x \in S : n = Len(p) - Len(x)
  BY <1>3 DEF T
<1>5. ASSUME NEW y \in S PROVE Len(y) <= Len(x)
  <2>1. Len(p) - Len(y) \in T
    BY DEF T
  <2>2. Len(p) - Len(x) <= Len(p) - Len(y)
    BY <1>3, <1>4, <2>1
  <2>. QED
    BY <1>1, <2>2
<1>. QED
  BY <1>5

\* A directory exists only where those above it do.
LEMMA ExistsAbove ==
  ASSUME NEW mounts, NEW p \in Seq(Nat), Exists(mounts, p), NEW q \in Ancestors(p)
  PROVE  Exists(mounts, q)
<1>1. {q} \union Ancestors(q) \subseteq {p} \union Ancestors(p)
  BY AncestorTrans
<1>. QED
  BY <1>1 DEF Exists

\* The parts of a scan.
Reachable(root) == {p \in Dirs : MatchesPathPrefix(p, root) /\ Exists(table, p)}
Stopped(root, unread) == {p \in Reachable(root) : Skips(root, p) \/ p \in unread}
Reached(root, unread) ==
  {p \in Reachable(root) : Ancestors(p) \intersect Stopped(root, unread) = {}}
Expanded(root, unread, fold) ==
  {p \in Reached(root, unread) : Ancestors(p) \intersect fold = {}}
HasError(root, unread, fold, p) ==
  \/ p \in Stopped(root, unread)
  \/ /\ p \in fold
     /\ \E q \in Stopped(root, unread) \intersect Reached(root, unread) :
          MatchesPathPrefix(q, p)

\* The fields of its snapshot.
HasFields(s, root, unread, fold) ==
  /\ s.root = root /\ s.mounts = table /\ s.contents = stored
  /\ s.complete = (unread \intersect Reached(root, unread) = {})
  /\ s.read = Reached(root, unread) \ Stopped(root, unread)
  /\ DOMAIN s.rows = Expanded(root, unread, fold)
  /\ \A p \in Expanded(root, unread, fold) :
       /\ s.rows[p].disk = SumFunctionOnSet(Seen(table, stored), {q \in s.read : MatchesPathPrefix(q, p)})
       /\ s.rows[p].error = HasError(root, unread, fold, p)

\* The definition of a snapshot, with its parts named.
LEMMA SnapshotFields ==
  ASSUME NEW root, NEW unread, NEW fold
  PROVE  HasFields(SnapshotOf(root, unread, fold), root, unread, fold)
BY DEF SnapshotOf, Reachable, Stopped, Reached, Expanded, HasError, HasFields

\* What can be reached is closed upwards to the root.
LEMMA ReachableAbove ==
  ASSUME NEW root \in Dirs, NEW p \in Reachable(root), NEW q \in Ancestors(p),
         MatchesPathPrefix(q, root)
  PROVE  q \in Reachable(root)
<1>1. p \in Dirs /\ p \in Seq(Nat) /\ Exists(table, p)
  BY DirsAssumption DEF Reachable
<1>2. q \in Dirs /\ Exists(table, q)
  BY <1>1, DirsAssumption, ExistsAbove
<1>. QED
  BY <1>2 DEF Reachable

\* So is what was reached, and nothing above it stopped the scan.
LEMMA ReachedAbove ==
  ASSUME NEW root \in Dirs, NEW unread, NEW p \in Reached(root, unread), NEW q \in Ancestors(p),
         MatchesPathPrefix(q, root)
  PROVE  q \in Reached(root, unread) \ Stopped(root, unread)
<1>1. p \in Reachable(root) /\ p \in Seq(Nat)
      /\ Ancestors(p) \intersect Stopped(root, unread) = {}
  BY DirsAssumption DEF Reached, Reachable
<1>2. q \in Reachable(root)
  BY <1>1, ReachableAbove
<1>3. Ancestors(q) \subseteq Ancestors(p)
  BY <1>1, AncestorTrans
<1>. QED
  BY <1>1, <1>2, <1>3 DEF Reached

\* A root that can be read is reached, and is not folded into anything.
LEMMA RootReached ==
  ASSUME NEW root \in Dirs, Exists(table, root), NEW unread, root \notin unread, NEW fold,
         \A p \in fold : p \in Dirs /\ MatchesPathPrefix(p, root)
  PROVE  /\ root \in Reached(root, unread) \ Stopped(root, unread)
         /\ root \in Expanded(root, unread, fold)
<1>1. root \in Seq(Nat)
  BY DirsAssumption
<1>2. root \in Reachable(root)
  BY <1>1, BelowIs DEF Reachable
<1>3. ASSUME NEW p \in Dirs, MatchesPathPrefix(p, root) PROVE p \notin Ancestors(root)
  <2>1. p \in Seq(Nat)
    BY DirsAssumption
  <2>2. Len(root) <= Len(p) /\ Len(root) \in Nat /\ Len(p) \in Nat
    BY <1>1, <1>3, <2>1, PrefixIs, LenProperties
  <2>. QED
    BY <1>1, <2>2, AncestorIs
<1>4. Ancestors(root) \intersect Stopped(root, unread) = {}
  BY <1>3 DEF Stopped, Reachable
<1>5. Ancestors(root) \intersect fold = {}
  BY <1>3
<1>6. root \notin Stopped(root, unread)
  BY DEF Stopped, Skips
<1>. QED
  BY <1>2, <1>4, <1>5, <1>6 DEF Reached, Expanded

\* What was not read is at or below something that was reached and stopped the scan.
LEMMA FirstStop ==
  ASSUME NEW root \in Dirs, NEW unread, NEW p \in Reachable(root),
         p \notin Reached(root, unread) \ Stopped(root, unread)
  PROVE  \E x \in Stopped(root, unread) \intersect Reached(root, unread) :
           MatchesPathPrefix(p, x)
<1>. DEFINE X == {x \in Stopped(root, unread) : MatchesPathPrefix(p, x)}
<1>1. /\ p \in Seq(Nat) /\ Stopped(root, unread) \subseteq Reachable(root)
      /\ Reachable(root) \subseteq Seq(Nat) /\ MatchesPathPrefix(p, p)
  BY DirsAssumption, BelowIs DEF Stopped, Reachable
<1>2. X \subseteq Seq(Nat) /\ X # {}
  <2>1. CASE p \in Stopped(root, unread)
    BY <1>1, <2>1
  <2>2. CASE p \notin Stopped(root, unread)
    <3>1. PICK x \in Ancestors(p) : x \in Stopped(root, unread)
      BY <2>2 DEF Reached
    <3>2. x \in X
      BY <1>1, <3>1, BelowIs
    <3>. QED
      BY <1>1, <3>2
  <2>. QED
    BY <2>1, <2>2
<1>3. PICK x \in X : \A y \in X : Len(x) <= Len(y)
  <2>. HIDE DEF X
  <2>. QED
    BY <1>2, ShortestPath
<1>4. ASSUME NEW y \in Ancestors(x), y \in Stopped(root, unread) PROVE FALSE
  <2>1. x \in Seq(Nat) /\ y \in Seq(Nat) /\ (x = p \/ x \in Ancestors(p))
    BY <1>1, <1>2, <1>3, <1>4, BelowIs
  <2>2. y \in Ancestors(p)
    BY <1>1, <1>4, <2>1, AncestorTrans
  <2>3. y \in X
    BY <1>1, <1>4, <2>1, <2>2, BelowIs
  <2>4. Len(y) < Len(x) /\ Len(y) \in Nat /\ Len(x) \in Nat
    BY <1>4, <2>1, AncestorIs, LenProperties
  <2>. QED
    BY <1>3, <2>3, <2>4
<1>5. x \in Stopped(root, unread) \intersect Reached(root, unread)
  BY <1>1, <1>3, <1>4 DEF Reached
<1>. QED
  BY <1>3, <1>5

\* What was not read is at or below a last row with an error.
LEMMA MissedIsEvident ==
  ASSUME NEW root \in Dirs, NEW unread, NEW p \in Reachable(root),
         p \notin Reached(root, unread) \ Stopped(root, unread), NEW fold,
         \A y \in fold : y \in Dirs /\ MatchesPathPrefix(y, root)
  PROVE  \E q \in Expanded(root, unread, fold) :
           /\ MatchesPathPrefix(p, q) /\ HasError(root, unread, fold, q)
           /\ \A r \in Expanded(root, unread, fold) : q \notin Ancestors(r)
<1>1. PICK x \in Stopped(root, unread) \intersect Reached(root, unread) :
             MatchesPathPrefix(p, x)
  BY FirstStop
<1>2. /\ p \in Seq(Nat) /\ x \in Seq(Nat) /\ (x = p \/ x \in Ancestors(p))
      /\ Reached(root, unread) \subseteq Seq(Nat)
  BY <1>1, DirsAssumption, BelowIs DEF Reached, Reachable
<1>3. CASE Ancestors(x) \intersect fold = {}
  <2>1. x \in Expanded(root, unread, fold) /\ HasError(root, unread, fold, x)
    BY <1>1, <1>3 DEF Expanded, HasError
  <2>2. \A r \in Expanded(root, unread, fold) : x \notin Ancestors(r)
    BY <1>1 DEF Expanded, Reached
  <2>. QED
    BY <1>1, <2>1, <2>2
<1>4. CASE Ancestors(x) \intersect fold # {}
  <2>. DEFINE Y == Ancestors(x) \intersect fold
  <2>1. Y \subseteq Seq(Nat) /\ Y # {}
    BY <1>4, DirsAssumption
  <2>2. PICK y \in Y : \A z \in Y : Len(y) <= Len(z)
    <3>. HIDE DEF Y
    <3>. QED
      BY <2>1, ShortestPath
  <2>3. /\ y \in Seq(Nat) /\ y \in Ancestors(x) /\ y \in fold /\ y \in Ancestors(p)
        /\ MatchesPathPrefix(y, root)
    BY <1>2, <2>1, <2>2, AncestorTrans
  <2>4. y \in Reached(root, unread)
    BY <1>1, <2>3, ReachedAbove
  <2>5. ASSUME NEW z \in Ancestors(y), z \in fold PROVE FALSE
    <3>1. z \in Ancestors(x)
      BY <1>2, <2>3, AncestorTrans
    <3>2. Len(z) < Len(y) /\ Len(z) \in Nat /\ Len(y) \in Nat
      BY <2>3, AncestorIs, LenProperties
    <3>. QED
      BY <2>2, <2>5, <3>1, <3>2
  <2>6. y \in Expanded(root, unread, fold)
    BY <2>4, <2>5 DEF Expanded
  <2>7. MatchesPathPrefix(p, y) /\ MatchesPathPrefix(x, y)
    BY <1>2, <2>3, BelowIs
  <2>8. HasError(root, unread, fold, y)
    BY <1>1, <2>3, <2>7 DEF HasError
  <2>9. \A r \in Expanded(root, unread, fold) : y \notin Ancestors(r)
    BY <2>3 DEF Expanded
  <2>. QED
    BY <2>6, <2>7, <2>8, <2>9
<1>. QED
  BY <1>3, <1>4

\* What a scan stores is a snapshot.
LEMMA SnapshotStored ==
  ASSUME table \in Tables, stored \in [Nodes -> Nat],
         NEW root \in Dirs, Exists(table, root), NEW unread,
         root \notin unread, NEW fold, \A y \in fold : y \in Dirs /\ MatchesPathPrefix(y, root),
         NEW s, s = SnapshotOf(root, unread, fold)
  PROVE  IsSnapshot(s) /\ s.root = root /\ s.read \intersect config.roots \subseteq {root}
<1>. DEFINE below == Reachable(root)
            stopped == Stopped(root, unread)
            reached == Reached(root, unread)
            rows == Expanded(root, unread, fold)
<1>1. /\ s.root = root /\ s.mounts = table /\ s.contents = stored
      /\ s.complete = (unread \intersect reached = {})
      /\ s.read = reached \ stopped
      /\ DOMAIN s.rows = rows
      /\ \A p \in rows :
           /\ s.rows[p].disk = SumFunctionOnSet(Seen(table, stored),
                                 {q \in s.read : MatchesPathPrefix(q, p)})
           /\ s.rows[p].error = HasError(root, unread, fold, p)
  <2>1. HasFields(s, root, unread, fold)
    BY SnapshotFields
  <2>. QED
    BY <2>1, Zenon DEF HasFields
<1>2. Within(s) = below /\ reached \subseteq below /\ rows \subseteq reached /\ below \subseteq Dirs
  BY <1>1 DEF Within, Reachable, Reached, Expanded
<1>3. IsTree(s)
  <2>1. s.read \subseteq Within(s) /\ DOMAIN s.rows \subseteq Within(s)
    BY <1>1, <1>2
  <2>2. s.root \in DOMAIN s.rows /\ s.root \in s.read
    BY <1>1, RootReached
  <2>3. \A p \in s.read : \A q \in Ancestors(p) : MatchesPathPrefix(q, s.root) => q \in s.read
    BY <1>1, ReachedAbove
  <2>4. ASSUME NEW p \in rows, NEW q \in Ancestors(p), MatchesPathPrefix(q, root)
        PROVE  q \in rows
    <3>1. q \in reached
      BY <1>2, <2>4, ReachedAbove
    <3>2. Ancestors(q) \subseteq Ancestors(p)
      BY <1>2, DirsAssumption, AncestorTrans
    <3>. QED
      BY <3>1, <3>2 DEF Expanded
  <2>. QED
    BY <1>1, <2>1, <2>2, <2>3, <2>4, Zenon DEF IsTree
<1>4. IsCounted(s)
  BY <1>1, Zenon DEF IsCounted
<1>5. IsEvident(s)
  <2>1. ASSUME NEW p \in Within(s) \ s.read
        PROVE  \E q \in DOMAIN s.rows : /\ MatchesPathPrefix(p, q) /\ s.rows[q].error
                                        /\ \A r \in DOMAIN s.rows : q \notin Ancestors(r)
    <3>1. p \in below /\ p \notin reached \ stopped
      BY <1>1, <1>2
    <3>2. PICK q \in rows : /\ MatchesPathPrefix(p, q) /\ HasError(root, unread, fold, q)
                            /\ \A r \in rows : q \notin Ancestors(r)
      BY <3>1, MissedIsEvident
    <3>. QED
      BY <1>1, <3>2, Zenon
  <2>2. stopped \intersect reached # {} => Within(s) # s.read
    BY <1>1, <1>2
  <2>3. ASSUME ~ s.complete PROVE Within(s) # s.read
    <3>1. PICK p \in reached : p \in unread
      BY <1>1, <2>3
    <3>2. p \in stopped
      BY <1>2, <3>1 DEF Stopped
    <3>. QED
      BY <2>2, <3>1, <3>2
  <2>4. ASSUME NEW p \in DOMAIN s.rows, s.rows[p].error PROVE Within(s) # s.read
    <3>1. HasError(root, unread, fold, p) /\ p \in reached
      BY <1>1, <1>2, <2>4
    <3>. QED
      BY <2>2, <3>1 DEF HasError
  <2>. QED
    BY <2>1, <2>3, <2>4, Zenon DEF IsEvident
<1>6. s.complete \in BOOLEAN
  BY <1>1
<1>7. s.read \intersect config.roots \subseteq {root}
  BY <1>1, <1>2 DEF Stopped, Reached, Skips
<1>. QED
  BY <1>1, <1>3, <1>4, <1>5, <1>6, <1>7 DEF IsSnapshot

\* The inductive invariant of the index: each root has at most one snapshot, and
\* what it holds is what there was to read, or is accounted for.
THEOREM IndexInvariance == Spec => []IndexInv
<1>1. Init => IndexInv
  <2>1. SUFFICES ASSUME Init PROVE IndexInv
    OBVIOUS
  <2>2. stored \in [Nodes -> Nat] /\ held \in [Filesystems -> Nat]
    BY <2>1, FilesAssumption DEF Init
  <2>3. index = {} /\ IsFiniteSet(index)
    BY <2>1, FS_EmptySet DEF Init
  <2>. QED
    BY <2>1, <2>2, <2>3 DEF Init, IndexInv
<1>2. IndexInv /\ [Next]_vars => IndexInv'
  <2>1. SUFFICES ASSUME IndexInv, [Next]_vars PROVE IndexInv'
    OBVIOUS
  <2>2. CASE Collect
    <3>1. PICK root \in config.roots, unread, fold \in {{}} \union {{p} : p \in Dirs} :
            /\ ValidateRoots
            /\ Mounted(table, root).type # "overlay"
            /\ root \notin unread
            /\ \A p \in unread \union fold : MatchesPathPrefix(p, root)
            /\ index' = {s \in index : s.root # root} \union {SnapshotOf(root, unread, fold)}
      BY <2>2 DEF Collect
    <3>2. UNCHANGED <<table, config, stored, held>>
      BY <2>2 DEF Collect
    <3>3. /\ table \in Tables /\ stored \in [Nodes -> Nat] /\ root \in Dirs /\ Exists(table, root)
          /\ \A y \in fold : y \in Dirs /\ MatchesPathPrefix(y, root)
      BY <2>1, <3>1, ConfigsAssumption DEF IndexInv, ValidateRoots
    <3>4. PICK new : new = SnapshotOf(root, unread, fold)
      OBVIOUS
    <3>5. IsSnapshot(new) /\ new.root = root /\ new.read \intersect config.roots \subseteq {root}
      BY <3>1, <3>3, <3>4, SnapshotStored
    <3>6. index' = {s \in index : s.root # root} \union {new}
      BY <3>1, <3>4
    <3>7. IsFiniteSet(index')
      <4>1. IsFiniteSet({s \in index : s.root # root})
        BY <2>1, FS_Subset DEF IndexInv
      <4>. QED
        BY <3>6, <4>1, FS_AddElement
    <3>8. \A s \in index' : /\ IsSnapshot(s) /\ s.root \in config.roots
                            /\ s.read \intersect config.roots \subseteq {s.root}
      BY <2>1, <3>1, <3>5, <3>6 DEF IndexInv
    <3>9. \A s, t \in index' : s.root = t.root => s = t
      BY <2>1, <3>5, <3>6 DEF IndexInv
    <3>. QED
      BY <2>1, <3>2, <3>7, <3>8, <3>9 DEF IndexInv
  <2>3. CASE FilesChange
    <3>1. PICK f \in Files : stored' = f.stored /\ held' = f.held
      BY <2>3 DEF FilesChange
    <3>2. stored' \in [Nodes -> Nat] /\ held' \in [Filesystems -> Nat]
      BY <3>1, FilesAssumption
    <3>3. UNCHANGED <<table, config, index>>
      BY <2>3 DEF FilesChange
    <3>. QED
      BY <2>1, <3>2, <3>3 DEF IndexInv
  <2>4. CASE StatFails
    BY <2>1, <2>4 DEF IndexInv, StatFails
  <2>5. CASE Remount
    BY <2>1, <2>5 DEF IndexInv, Remount
  <2>6. CASE UNCHANGED vars
    BY <2>1, <2>6 DEF IndexInv, vars
  <2>. QED
    BY <2>1, <2>2, <2>3, <2>4, <2>5, <2>6 DEF Next
<1>. QED
  BY <1>1, <1>2, PTL DEF Spec

--------------------------------------------------------------------------------
(* Mounts *)

\* A path has one mount point, the longest above it.
LEMMA MountPointIs ==
  ASSUME NEW t \in Tables, NEW p \in Seq(Nat), NEW m, m = MountPoint(t, p)
  PROVE  /\ m \in DOMAIN t /\ m \in Seq(Nat) /\ MatchesPathPrefix(p, m)
         /\ \A n \in DOMAIN t : MatchesPathPrefix(p, n) => Len(n) <= Len(m)
<1>. DEFINE S == {n \in DOMAIN t : MatchesPathPrefix(p, n)}
<1>1. <<>> \in DOMAIN t /\ DOMAIN t \subseteq Seq(Nat)
  BY MountsAssumption
<1>2. MatchesPathPrefix(p, <<>>)
  BY RootMatches
<1>3. PICK x \in S : \A y \in S : Len(y) <= Len(x)
  <2>1. S \subseteq Seq(Nat) /\ S # {} /\ \A k \in S : MatchesPathPrefix(p, k)
    BY <1>1, <1>2
  <2>. HIDE DEF S
  <2>. QED
    BY <2>1, LongestPrefix
<1>4. \E k \in DOMAIN t : /\ MatchesPathPrefix(p, k)
                          /\ \A n \in DOMAIN t : MatchesPathPrefix(p, n) => Len(n) <= Len(k)
  BY <1>3
<1>. QED
  BY <1>1, <1>4 DEF MountPoint

\* It is the mount point of what lies between it and the path.
LEMMA MountPointBetween ==
  ASSUME NEW t \in Tables, NEW p \in Seq(Nat), NEW q \in Seq(Nat), MatchesPathPrefix(p, q),
         MatchesPathPrefix(q, MountPoint(t, p))
  PROVE  MountPoint(t, q) = MountPoint(t, p)
<1>1. PICK m : m = MountPoint(t, p)
  OBVIOUS
<1>2. PICK n : n = MountPoint(t, q)
  OBVIOUS
<1>3. /\ m \in DOMAIN t /\ m \in Seq(Nat) /\ MatchesPathPrefix(p, m)
      /\ \A k \in DOMAIN t : MatchesPathPrefix(p, k) => Len(k) <= Len(m)
  BY <1>1, MountPointIs
<1>4. /\ n \in DOMAIN t /\ n \in Seq(Nat) /\ MatchesPathPrefix(q, n)
      /\ \A k \in DOMAIN t : MatchesPathPrefix(q, k) => Len(k) <= Len(n)
  BY <1>2, MountPointIs
<1>5. MatchesPathPrefix(p, n)
  BY <1>4, PrefixTrans
<1>6. Len(n) = Len(m)
  BY <1>1, <1>3, <1>4, <1>5, LenProperties
<1>7. n = m
  BY <1>3, <1>4, <1>5, <1>6, SiblingsApart
<1>. QED
  BY <1>1, <1>2, <1>7

--------------------------------------------------------------------------------
(* Totals are numbers *)

\* What a directory that exists holds.
LEMMA SeenIs ==
  ASSUME NEW t, NEW contents \in [Nodes -> Nat], NEW p \in Dirs, Exists(t, p)
  PROVE  /\ Node(t, p) \in Nodes /\ Seen(t, contents)[p] = contents[Node(t, p)]
         /\ Seen(t, contents)[p] \in Nat
<1>1. Node(t, p) \in Nodes
  BY DEF Exists
<1>2. Seen(t, contents)[p] = contents[Node(t, p)]
  BY DEF Seen
<1>. QED
  BY <1>1, <1>2

\* What a snapshot counts.
LEMMA CountedIs ==
  ASSUME NEW s, IsSnapshot(s)
  PROVE  /\ IsFiniteSet(s.read) /\ \A q \in s.read : Seen(s.mounts, s.contents)[q] \in Nat
         /\ IsFiniteSet(DOMAIN s.rows) /\ \A p \in DOMAIN s.rows : s.rows[p].disk \in Nat
<1>1. s.read \subseteq Within(s) /\ DOMAIN s.rows \subseteq Within(s) /\ IsCounted(s)
  BY DEF IsSnapshot, IsTree
<1>2. IsFiniteSet(s.read) /\ IsFiniteSet(DOMAIN s.rows)
  BY <1>1, DirsAssumption, FS_Subset DEF Within
<1>3. \A q \in s.read : Seen(s.mounts, s.contents)[q] \in Nat
  BY <1>1, SeenIs DEF Within, IsSnapshot
<1>4. ASSUME NEW p \in DOMAIN s.rows PROVE s.rows[p].disk \in Nat
  <2>1. PICK Q : Q = {q \in s.read : MatchesPathPrefix(q, p)}
    OBVIOUS
  <2>2. IsFiniteSet(Q) /\ \A q \in Q : Seen(s.mounts, s.contents)[q] \in Nat
    BY <1>2, <1>3, <2>1, FS_Subset
  <2>3. s.rows[p].disk = SumFunctionOnSet(Seen(s.mounts, s.contents), Q)
    BY <1>1, <2>1 DEF IsCounted
  <2>. QED
    BY <2>2, <2>3, SumNat
<1>. QED
  BY <1>2, <1>3, <1>4

\* The bytes of some rows.
LEMMA DiskBytesInt ==
  ASSUME NEW s, IsSnapshot(s), NEW P, P \subseteq DOMAIN s.rows
  PROVE  IsFiniteSet(P) /\ DiskBytes(s, P) \in Int
<1>. DEFINE disk == [p \in DOMAIN s.rows |-> s.rows[p].disk]
<1>1. IsFiniteSet(P) /\ \A p \in P : disk[p] \in Int
  BY CountedIs, FS_Subset
<1>. HIDE DEF disk
<1>2. SumFunctionOnSet(disk, P) \in Int
  BY <1>1, SumInt
<1>. QED
  BY <1>1, <1>2 DEF DiskBytes, disk

\* What a snapshot adds to a total is a number,
LEMMA DomainBytesInt ==
  ASSUME NEW s, IsSnapshot(s), NEW d
  PROVE  DomainBytes(s, d) \in Int
<1>1. PICK P : P = {p \in Boundary(s) : Domain(s.mounts, p) = d}
  OBVIOUS
<1>2. P \subseteq DOMAIN s.rows /\ Leaving(s, d) \subseteq DOMAIN s.rows
  BY <1>1 DEF Boundary, Leaving
<1>3. DiskBytes(s, P) \in Int /\ DiskBytes(s, Leaving(s, d)) \in Int
  BY <1>2, DiskBytesInt
<1>4. DomainBytes(s, d) = DiskBytes(s, P) - DiskBytes(s, Leaving(s, d))
  BY <1>1 DEF DomainBytes
<1>. QED
  BY <1>3, <1>4

\* The total of a domain.
TotalOf(d) == SumFunctionOnSet([s \in index |-> DomainBytes(s, d)], index)

\* and so is the total, which is not negative.
LEMMA IndexedIs ==
  ASSUME IndexInv, NEW d
  PROVE  /\ TotalOf(d) \in Int /\ Indexed(d) \in Nat
         /\ TotalOf(d) >= 0 => Indexed(d) = TotalOf(d)
<1>. DEFINE f == [s \in index |-> DomainBytes(s, d)]
<1>1. \A s \in index : f[s] \in Int
  BY DomainBytesInt DEF IndexInv
<1>2. IsFiniteSet(index)
  BY DEF IndexInv
<1>. HIDE DEF f
<1>3. PICK total \in Int : total = SumFunctionOnSet(f, index)
  BY <1>1, <1>2, SumInt
<1>4. TotalOf(d) = total /\ Indexed(d) = IF total < 0 THEN 0 ELSE total
  BY <1>3 DEF TotalOf, Indexed, f
<1>. QED
  BY <1>4

--------------------------------------------------------------------------------
(* The summary *)

\* The use of a filesystem is a number.
LEMMA UsedIs ==
  ASSUME IndexInv, NEW fs \in Filesystems
  PROVE  /\ Used(fs) \in Nat
         /\ SumFunctionOnSet(stored, {n \in Nodes : n[1] = fs}) \in Nat
         /\ Used(fs) = SumFunctionOnSet(stored, {n \in Nodes : n[1] = fs}) + held[fs]
<1>1. PICK N : N = {n \in Nodes : n[1] = fs}
  OBVIOUS
<1>2. IsFiniteSet(N) /\ \A n \in N : stored[n] \in Nat
  BY <1>1, FilesAssumption, FS_Subset DEF IndexInv
<1>3. SumFunctionOnSet(stored, N) \in Nat
  BY <1>2, SumNat
<1>4. held[fs] \in Nat
  BY DEF IndexInv
<1>. QED
  BY <1>1, <1>3, <1>4 DEF Used

\* Evidence of deleted-open files, as df-vs-index judges it.
LEMMA SuspectedIs ==
  ASSUME NEW d
  PROVE  /\ LikelyReasons(d) # {} <=> Material(d)
         /\ "deleted_open_file_suspected" \in LikelyReasons(d) <=>
              Material(d) /\ ~ ScopeExtends(d) /\ ~ IsPartial(d) /\ SkippedPaths(d) = {}
BY DEF LikelyReasons

\* The evidence of the snapshots is complete where none is partial.
LEMMA CompleteIs ==
  ASSUME IndexInv, NEW d
  PROVE  FALSE \notin {s.complete : s \in Evidence(d)} <=> ~ IsPartial(d)
<1>1. \A s \in Evidence(d) : s.complete \in BOOLEAN
  BY DEF Evidence, IndexInv, IsSnapshot
<1>. QED
  BY <1>1, Zenon DEF IsPartial

\* What is unattributed is a number.
LEMMA UnattributedIs ==
  ASSUME IndexInv, NEW d \in Domains
  PROVE  /\ Mounted(table, d.point).fs \in Filesystems /\ DfUsed(d) \in Nat
         /\ Indexed(d) \in Nat
         /\ Material(d) => /\ ~ IsAlias(d) /\ DfUsed(d) - Indexed(d) >= 1
                           /\ Unattributed(d) > 0 /\ StatAvailable(d)
<1>1. PICK s \in index : \E p \in DOMAIN s.rows : d = Domain(s.mounts, p)
  BY DEF Domains
<1>2. PICK p \in DOMAIN s.rows : d = Domain(s.mounts, p)
  BY <1>1
<1>3. d.point \in Seq(Nat)
  <2>1. p \in Seq(Nat) /\ s.mounts \in Tables
    BY <1>1, <1>2, DirsAssumption DEF IndexInv, IsSnapshot, IsTree, Within
  <2>2. d.point = MountPoint(s.mounts, p)
    BY <1>2 DEF Domain
  <2>. QED
    BY <2>1, <2>2, MountPointIs
<1>4. Mounted(table, d.point).fs \in Filesystems
  <2>1. PICK m : m = MountPoint(table, d.point)
    OBVIOUS
  <2>2. table \in Tables
    BY DEF IndexInv
  <2>3. m \in DOMAIN table
    BY <1>3, <2>1, <2>2, MountPointIs
  <2>4. table[m].fs \in Filesystems
    BY <2>2, <2>3, MountsAssumption
  <2>. QED
    BY <2>1, <2>4 DEF Mounted
<1>5. PICK used \in Nat : used = DfUsed(d)
  BY <1>4, UsedIs DEF DfUsed
<1>6. PICK bytes \in Nat : bytes = Indexed(d)
  BY IndexedIs
<1>7. ASSUME Material(d) PROVE /\ ~ IsAlias(d) /\ used - bytes >= 1
                               /\ Unattributed(d) > 0 /\ StatAvailable(d)
  <2>1. PICK u : u = Unattributed(d)
    OBVIOUS
  <2>2. StatAvailable(d) /\ u >= 1
    BY <1>7, <2>1 DEF Material
  <2>3. u = IF IsAlias(d) THEN 0 ELSE IF used - bytes < 0 THEN 0 ELSE used - bytes
    BY <1>5, <1>6, <2>1, <2>2 DEF Unattributed, NonNegative
  <2>4. ~ IsAlias(d)
    BY <2>2, <2>3
  <2>. QED
    BY <2>1, <2>2, <2>3, <2>4
<1>. QED
  BY <1>4, <1>5, <1>6, <1>7

\* The summary takes the sections of df-vs-index, judges the evidence anew from
\* what they show of it, and comes to the same suspicions.
THEOREM SummaryFollows == Spec => []SummaryAgrees
<1>1. ASSUME IndexInv PROVE SummaryAgrees
  <2>1. SUFFICES ASSUME NEW d \in Domains, NEW sec, sec = Section(d)
                 PROVE  "deleted_open_file_suspected" \in Hints(sec, FALSE)
                          <=> "deleted_open_file_suspected" \in sec.reasons
    BY DEF SummaryAgrees, Summarized, Sections
  <2>2. /\ sec.available = StatAvailable(d) /\ sec.unattributed = Unattributed(d)
        /\ sec.extends = ScopeExtends(d) /\ sec.reasons = LikelyReasons(d)
        /\ sec.complete = {s.complete : s \in Evidence(d)}
        /\ "indexed_paths_skipped" \in sec.coverage <=> SkippedPaths(d) # {}
    BY <2>1 DEF Section
  <2>3. AllowsDeletedOpen(sec, FALSE) <=>
          ~ ScopeExtends(d) /\ ~ IsPartial(d) /\ SkippedPaths(d) = {}
    BY <1>1, <2>2, CompleteIs DEF AllowsDeletedOpen
  <2>4. "deleted_open_file_suspected" \in Hints(sec, FALSE) <=>
          /\ sec.available /\ sec.unattributed > 0 /\ sec.reasons # {}
          /\ AllowsDeletedOpen(sec, FALSE)
    BY DEF Hints
  <2>5. Material(d) => StatAvailable(d) /\ Unattributed(d) > 0
    BY <1>1, UnattributedIs
  <2>. QED
    BY <2>2, <2>3, <2>4, <2>5, SuspectedIs
<1>. QED
  BY <1>1, IndexInvariance, PTL

--------------------------------------------------------------------------------
(* Totals are exact *)

\* The rows of a domain, those whose parents are in it, the rows right below a
\* row, and what was read at or below it, and in it but in no row below it.
RowsOf(s, d) == {p \in DOMAIN s.rows : Domain(s.mounts, p) = d}
RowsBelow(s, d) == {p \in DOMAIN s.rows \ {s.root} : Domain(s.mounts, Parent(p)) = d}
ChildRows(s, p) == {c \in DOMAIN s.rows \ {s.root} : Parent(c) = p}
ReadBelow(s, p) == {q \in s.read : MatchesPathPrefix(q, p)}
ReadDirectly(s, p) ==
  {q \in ReadBelow(s, p) : \A c \in ChildRows(s, p) : ~ MatchesPathPrefix(q, c)}

\* Where the rows and what was read are.
LEMMA TreeIs ==
  ASSUME NEW s, IsSnapshot(s), NEW p, p \in DOMAIN s.rows \/ p \in s.read
  PROVE  /\ p \in Seq(Nat) /\ s.root \in Seq(Nat) /\ Len(p) \in Nat /\ Len(s.root) \in Nat
         /\ MatchesPathPrefix(p, s.root) /\ Len(s.root) <= Len(p)
<1>1. p \in Seq(Nat) /\ s.root \in Seq(Nat) /\ MatchesPathPrefix(p, s.root)
  BY DirsAssumption DEF IsSnapshot, IsTree, Within
<1>. QED
  BY <1>1, PrefixIs, LenProperties

\* Every row but that of the root is right below another row.
LEMMA ParentRow ==
  ASSUME NEW s, IsSnapshot(s), NEW p \in DOMAIN s.rows, p # s.root
  PROVE  /\ Parent(p) \in DOMAIN s.rows /\ Parent(p) \in Ancestors(p)
         /\ Parent(p) \in Seq(Nat) /\ Len(p) = Len(Parent(p)) + 1
<1>1. /\ p \in Seq(Nat) /\ s.root \in Seq(Nat) /\ Len(p) \in Nat /\ Len(s.root) \in Nat
      /\ MatchesPathPrefix(p, s.root) /\ Len(s.root) <= Len(p)
  BY TreeIs
<1>2. s.root \in Ancestors(p)
  BY <1>1, BelowIs
<1>3. Len(s.root) < Len(p)
  BY <1>1, <1>2, AncestorIs
<1>4. p # <<>>
  BY <1>1, <1>3, EmptySeq
<1>5. Parent(p) \in Seq(Nat) /\ Parent(p) \in Ancestors(p) /\ Len(p) = Len(Parent(p)) + 1
  BY <1>1, <1>4, ParentAbove
<1>6. Len(s.root) <= Len(Parent(p)) /\ MatchesPathPrefix(p, Parent(p))
  BY <1>1, <1>3, <1>5, BelowIs, LenProperties
<1>7. MatchesPathPrefix(Parent(p), s.root)
  BY <1>1, <1>5, <1>6, PrefixesNest
<1>8. Parent(p) \in DOMAIN s.rows
  BY <1>5, <1>7 DEF IsSnapshot, IsTree
<1>. QED
  BY <1>5, <1>8

\* That row is the nearest one above it; the root has none.
LEMMA NearestIs ==
  ASSUME NEW s, IsSnapshot(s), NEW p \in DOMAIN s.rows
  PROVE  NearestIndexed(s, p) = IF p = s.root THEN {} ELSE {Parent(p)}
<1>1. CASE p = s.root
  <2>1. ASSUME NEW q \in DOMAIN s.rows PROVE q \notin Ancestors(p)
    BY <1>1, TreeIs, AncestorIs
  <2>. QED
    BY <1>1, <2>1 DEF NearestIndexed
<1>2. CASE p # s.root
  <2>1. /\ Parent(p) \in DOMAIN s.rows /\ Parent(p) \in Ancestors(p)
        /\ Parent(p) \in Seq(Nat) /\ Len(p) = Len(Parent(p)) + 1
    BY <1>2, ParentRow
  <2>2. p \in Seq(Nat) /\ Len(p) \in Nat /\ Len(Parent(p)) \in Nat
    BY <2>1, TreeIs
  <2>3. ASSUME NEW q \in Ancestors(p)
        PROVE  /\ Len(q) <= Len(Parent(p))
               /\ Len(Parent(p)) <= Len(q) => q = Parent(p)
    <3>1. q \in Seq(Nat) /\ Len(q) \in Nat /\ Len(q) < Len(p)
      BY <2>2, AncestorIs, LenProperties
    <3>2. MatchesPathPrefix(p, q) /\ MatchesPathPrefix(p, Parent(p))
      BY <2>1, <2>2, <3>1, BelowIs
    <3>3. Len(q) <= Len(Parent(p))
      BY <2>1, <2>2, <3>1
    <3>4. ASSUME Len(Parent(p)) <= Len(q) PROVE q = Parent(p)
      <4>1. Len(q) = Len(Parent(p))
        BY <2>2, <3>1, <3>3, <3>4
      <4>. QED
        BY <2>1, <2>2, <3>1, <3>2, <4>1, SiblingsApart
    <3>. QED
      BY <3>3, <3>4
  <2>. QED
    BY <1>2, <2>1, <2>3 DEF NearestIndexed
<1>. QED
  BY <1>1, <1>2

\* Rows within a domain cancel out: it has what its rows have, less what is right
\* below them.
LEMMA BoundaryCancels ==
  ASSUME NEW s, IsSnapshot(s), NEW d
  PROVE  DomainBytes(s, d) = DiskBytes(s, RowsOf(s, d)) - DiskBytes(s, RowsBelow(s, d))
<1>. DEFINE in == {p \in Boundary(s) : Domain(s.mounts, p) = d}
            out == Leaving(s, d)
            inner == {p \in DOMAIN s.rows \ Boundary(s) : Domain(s.mounts, p) = d}
            disk == [p \in DOMAIN s.rows |-> s.rows[p].disk]
            Sum(u) == SumFunctionOnSet(disk, u)
<1>1. in \subseteq DOMAIN s.rows /\ out \subseteq DOMAIN s.rows /\ inner \subseteq DOMAIN s.rows
  BY DEF Boundary, Leaving
<1>2. in \union inner = RowsOf(s, d) /\ in \intersect inner = {}
  BY DEF RowsOf, Boundary
<1>3. out \union inner = RowsBelow(s, d) /\ out \intersect inner = {}
  <2>1. ASSUME NEW p \in DOMAIN s.rows
        PROVE  /\ p \in Boundary(s) <=>
                    (p # s.root => Domain(s.mounts, Parent(p)) # Domain(s.mounts, p))
               /\ p \in Leaving(s, d) <=>
                    p \in Boundary(s) /\ p # s.root /\ Domain(s.mounts, Parent(p)) = d
    BY NearestIs DEF Boundary, Leaving
  <2>2. ASSUME NEW p \in DOMAIN s.rows
        PROVE  p \in out \union inner <=> p \in RowsBelow(s, d)
    BY <2>1 DEF RowsBelow
  <2>. QED
    BY <1>1, <2>2 DEF RowsBelow, Leaving
<1>4. /\ IsFiniteSet(in) /\ IsFiniteSet(out) /\ IsFiniteSet(inner)
      /\ \A p \in in \union out \union inner : disk[p] \in Int
  BY <1>1, CountedIs, FS_Subset
<1>. HIDE DEF in, out, inner, disk
<1>5. Sum(in \union inner) = Sum(in) + Sum(inner)
  BY <1>2, <1>4, SumUnion
<1>6. Sum(out \union inner) = Sum(out) + Sum(inner)
  BY <1>3, <1>4, SumUnion
<1>7. Sum(in) \in Int /\ Sum(out) \in Int /\ Sum(inner) \in Int
  BY <1>4, SumInt
<1>8. /\ DomainBytes(s, d) = Sum(in) - Sum(out)
      /\ DiskBytes(s, RowsOf(s, d)) = Sum(in \union inner)
      /\ DiskBytes(s, RowsBelow(s, d)) = Sum(out \union inner)
  BY <1>2, <1>3, Zenon DEF DomainBytes, DiskBytes, in, out, disk
<1>. HIDE DEF Sum
<1>. QED
  BY <1>5, <1>6, <1>7, <1>8

\* Towards a row below it, a row has one right below.
LEMMA ChildRowTowards ==
  ASSUME NEW s, IsSnapshot(s), NEW p \in DOMAIN s.rows, NEW r \in DOMAIN s.rows,
         p \in Ancestors(r)
  PROVE  \E c \in ChildRows(s, p) : MatchesPathPrefix(r, c)
<1>1. /\ p \in Seq(Nat) /\ r \in Seq(Nat) /\ s.root \in Seq(Nat) /\ Len(p) \in Nat
      /\ Len(s.root) \in Nat /\ MatchesPathPrefix(p, s.root) /\ Len(s.root) <= Len(p)
  BY TreeIs
<1>2. PICK c \in Seq(Nat) : /\ p \in Ancestors(c) /\ Parent(c) = p
                            /\ c = r \/ c \in Ancestors(r)
  BY <1>1, ChildTowards
<1>3. MatchesPathPrefix(r, c) /\ MatchesPathPrefix(c, p)
  BY <1>1, <1>2, BelowIs
<1>4. MatchesPathPrefix(c, s.root)
  BY <1>1, <1>2, <1>3, PrefixTrans
<1>5. c \in DOMAIN s.rows
  BY <1>2, <1>4 DEF IsSnapshot, IsTree
<1>6. c # s.root
  BY <1>1, <1>2, AncestorIs
<1>. QED
  BY <1>2, <1>3, <1>5, <1>6 DEF ChildRows

\* A row has what was read directly in it, and what the rows right below it have.
LEMMA RowParts ==
  ASSUME NEW s, IsSnapshot(s), NEW p \in DOMAIN s.rows
  PROVE  /\ SumFunctionOnSet(Seen(s.mounts, s.contents), ReadDirectly(s, p)) =
              s.rows[p].disk - DiskBytes(s, ChildRows(s, p))
         /\ SumFunctionOnSet(Seen(s.mounts, s.contents), ReadDirectly(s, p)) \in Nat
<1>. DEFINE below == ReadBelow(s, p)
            direct == ReadDirectly(s, p)
            rest == below \ direct
            kids == ChildRows(s, p)
            seen == Seen(s.mounts, s.contents)
            disk == [c \in DOMAIN s.rows |-> s.rows[c].disk]
            part == [c \in kids |-> ReadBelow(s, c)]
<1>1. /\ direct \union rest = below /\ direct \intersect rest = {}
      /\ below \subseteq s.read /\ direct \subseteq s.read /\ rest \subseteq s.read
      /\ kids \subseteq DOMAIN s.rows
  BY DEF ReadBelow, ReadDirectly, ChildRows
<1>2. /\ IsFiniteSet(direct) /\ IsFiniteSet(rest) /\ IsFiniteSet(kids)
      /\ \A q \in s.read : seen[q] \in Nat
  BY <1>1, CountedIs, FS_Subset
<1>3. IsSplit(part, disk, kids, seen, rest)
  <2>1. ASSUME NEW c \in kids
        PROVE  /\ c \in Seq(Nat) /\ MatchesPathPrefix(c, p) /\ Len(c) = Len(p) + 1
    <3>1. /\ c \in DOMAIN s.rows /\ Parent(c) \in Ancestors(c) /\ Parent(c) = p
          /\ Parent(c) \in Seq(Nat) /\ Len(c) = Len(Parent(c)) + 1
      BY ParentRow DEF ChildRows
    <3>2. c \in Seq(Nat)
      BY <3>1, TreeIs
    <3>. QED
      BY <3>1, <3>2, BelowIs
  <2>2. \A q \in s.read : q \in Seq(Nat)
    BY TreeIs
  <2>3. p \in Seq(Nat)
    BY TreeIs
  <2>4. ASSUME NEW c \in kids
        PROVE  part[c] \subseteq rest /\ disk[c] = SumFunctionOnSet(seen, part[c])
    <3>1. ASSUME NEW q \in ReadBelow(s, c) PROVE q \in below /\ q \notin direct
      <4>1. q \in s.read /\ MatchesPathPrefix(q, c)
        BY DEF ReadBelow
      <4>2. MatchesPathPrefix(q, p)
        BY <2>1, <2>2, <2>3, <4>1, PrefixTrans
      <4>. QED
        BY <4>1, <4>2 DEF ReadBelow, ReadDirectly
    <3>2. s.rows[c].disk = SumFunctionOnSet(seen, ReadBelow(s, c))
      BY <1>1 DEF IsSnapshot, IsCounted, ReadBelow
    <3>3. part[c] = ReadBelow(s, c) /\ disk[c] = s.rows[c].disk
      BY <1>1
    <3>. QED
      BY <3>1, <3>2, <3>3
  <2>5. ASSUME NEW c \in kids, NEW e \in kids, c # e PROVE part[c] \intersect part[e] = {}
    <3>1. ASSUME NEW q \in ReadBelow(s, c), q \in ReadBelow(s, e) PROVE FALSE
      <4>1. q \in Seq(Nat) /\ MatchesPathPrefix(q, c) /\ MatchesPathPrefix(q, e)
        BY <2>2, <3>1 DEF ReadBelow
      <4>2. c \in Seq(Nat) /\ e \in Seq(Nat) /\ Len(c) = Len(e)
        BY <2>1
      <4>. QED
        BY <2>5, <4>1, <4>2, SiblingsApart
    <3>. QED
      BY <3>1
  <2>6. ASSUME NEW q \in rest PROVE \E c \in kids : q \in part[c]
    <3>1. PICK c \in kids : MatchesPathPrefix(q, c)
      BY DEF ReadDirectly
    <3>2. q \in ReadBelow(s, c)
      BY <1>1, <3>1 DEF ReadBelow
    <3>. QED
      BY <3>2
  <2>. HIDE DEF rest, kids, seen, disk, part
  <2>. QED
    BY <2>4, <2>5, <2>6 DEF IsSplit
<1>4. s.rows[p].disk = SumFunctionOnSet(seen, below)
  BY DEF IsSnapshot, IsCounted, ReadBelow
<1>5. DiskBytes(s, kids) = SumFunctionOnSet(disk, kids)
  BY Zenon DEF DiskBytes
<1>. HIDE DEF below, direct, rest, kids, seen, disk, part
<1>6. SumFunctionOnSet(disk, kids) = SumFunctionOnSet(seen, rest)
  BY <1>1, <1>2, <1>3, SumOfSplit
<1>7. SumFunctionOnSet(seen, direct) \in Nat /\ SumFunctionOnSet(seen, rest) \in Nat
  BY <1>1, <1>2, SumNat
<1>8. SumFunctionOnSet(seen, direct \union rest)
        = SumFunctionOnSet(seen, direct) + SumFunctionOnSet(seen, rest)
  BY <1>1, <1>2, SumUnion
<1>9. SumFunctionOnSet(seen, direct) = s.rows[p].disk - DiskBytes(s, kids)
  <2>1. PICK a \in Nat : a = SumFunctionOnSet(seen, direct)
    BY <1>7
  <2>2. PICK b \in Nat : b = SumFunctionOnSet(seen, rest)
    BY <1>7
  <2>3. s.rows[p].disk = a + b
    BY <1>1, <1>4, <1>8, <2>1, <2>2, Zenon
  <2>4. DiskBytes(s, kids) = b
    BY <1>5, <1>6, <2>2, Zenon
  <2>. QED
    BY <2>1, <2>3, <2>4
<1>. QED
  BY <1>7, <1>9 DEF direct, seen, kids

\* What was read directly in a row is in its domain, if no mount point was folded.
LEMMA DirectDomain ==
  ASSUME NEW s, IsSnapshot(s), ~ HidesMount(s), NEW p \in DOMAIN s.rows,
         NEW q \in ReadDirectly(s, p)
  PROVE  Domain(s.mounts, q) = Domain(s.mounts, p)
<1>1. q \in s.read /\ MatchesPathPrefix(q, p) /\ s.mounts \in Tables
  BY DEF ReadDirectly, ReadBelow, IsSnapshot
<1>2. /\ p \in Seq(Nat) /\ q \in Seq(Nat) /\ s.root \in Seq(Nat)
      /\ MatchesPathPrefix(p, s.root)
  BY <1>1, TreeIs
<1>3. PICK m : m = MountPoint(s.mounts, q)
  OBVIOUS
<1>4. m \in DOMAIN s.mounts /\ m \in Seq(Nat) /\ MatchesPathPrefix(q, m)
  BY <1>1, <1>2, <1>3, MountPointIs
<1>5. Len(m) \in Nat /\ Len(p) \in Nat
  BY <1>2, <1>4, LenProperties
<1>6. CASE Len(m) <= Len(p)
  <2>1. MatchesPathPrefix(p, m)
    BY <1>1, <1>2, <1>4, <1>6, PrefixesNest
  <2>2. MountPoint(s.mounts, p) = MountPoint(s.mounts, q)
    BY <1>1, <1>2, <1>3, <2>1, MountPointBetween
  <2>. QED
    BY <2>2 DEF Domain, Mounted
<1>7. CASE Len(p) < Len(m)
  <2>1. MatchesPathPrefix(m, p)
    BY <1>1, <1>2, <1>4, <1>5, <1>7, PrefixesNest
  <2>2. MatchesPathPrefix(m, s.root) /\ p \in Ancestors(m)
    BY <1>2, <1>4, <1>5, <1>7, <2>1, PrefixTrans, BelowIs
  <2>3. m \in s.read
    BY <1>1, <1>2, <1>4, <2>2, BelowIs DEF IsSnapshot, IsTree
  <2>4. m \in DOMAIN s.rows
    BY <1>4, <2>3 DEF HidesMount
  <2>5. PICK c \in ChildRows(s, p) : MatchesPathPrefix(m, c)
    BY <2>2, <2>4, ChildRowTowards
  <2>6. c \in Seq(Nat)
    BY TreeIs DEF ChildRows
  <2>7. MatchesPathPrefix(q, c)
    BY <1>2, <1>4, <2>5, <2>6, PrefixTrans
  <2>. QED
    BY <2>5, <2>7 DEF ReadDirectly
<1>. QED
  BY <1>5, <1>6, <1>7

\* Everything that was read was read directly in one row.
LEMMA OneOwner ==
  ASSUME NEW s, IsSnapshot(s), NEW q \in s.read
  PROVE  /\ \E p \in DOMAIN s.rows : q \in ReadDirectly(s, p)
         /\ \A p, r \in DOMAIN s.rows :
              q \in ReadDirectly(s, p) /\ q \in ReadDirectly(s, r) => p = r
<1>1. q \in Seq(Nat) /\ MatchesPathPrefix(q, s.root) /\ s.root \in DOMAIN s.rows
      /\ \A p \in DOMAIN s.rows : p \in Seq(Nat) /\ Len(p) \in Nat
  BY TreeIs DEF IsSnapshot, IsTree
<1>2. \E p \in DOMAIN s.rows : q \in ReadDirectly(s, p)
  <2>. DEFINE P == {p \in DOMAIN s.rows : MatchesPathPrefix(q, p)}
  <2>1. P \subseteq Seq(Nat) /\ P # {} /\ \A p \in P : MatchesPathPrefix(q, p)
    BY <1>1
  <2>2. PICK p \in P : \A r \in P : Len(r) <= Len(p)
    <3>. HIDE DEF P
    <3>. QED
      BY <1>1, <2>1, LongestPrefix
  <2>3. ASSUME NEW c \in ChildRows(s, p), MatchesPathPrefix(q, c) PROVE FALSE
    <3>1. /\ c \in DOMAIN s.rows /\ Parent(c) = p /\ Len(c) = Len(Parent(c)) + 1
      BY ParentRow DEF ChildRows
    <3>2. c \in P /\ p \in DOMAIN s.rows
      BY <2>3, <3>1
    <3>. QED
      BY <1>1, <2>2, <3>1, <3>2
  <2>. QED
    BY <2>2, <2>3 DEF ReadDirectly, ReadBelow
<1>3. ASSUME NEW p \in DOMAIN s.rows, NEW r \in DOMAIN s.rows,
             q \in ReadDirectly(s, p), q \in ReadDirectly(s, r), Len(p) <= Len(r)
      PROVE  p = r
  <2>1. MatchesPathPrefix(q, p) /\ MatchesPathPrefix(q, r)
    BY <1>3 DEF ReadDirectly, ReadBelow
  <2>2. MatchesPathPrefix(r, p)
    BY <1>1, <1>3, <2>1, PrefixesNest
  <2>3. ASSUME p # r PROVE FALSE
    <3>1. p \in Ancestors(r)
      BY <1>1, <2>2, <2>3, BelowIs
    <3>2. PICK c \in ChildRows(s, p) : MatchesPathPrefix(r, c)
      BY <3>1, ChildRowTowards
    <3>3. c \in Seq(Nat)
      BY <1>1 DEF ChildRows
    <3>4. MatchesPathPrefix(q, c)
      BY <1>1, <2>1, <3>2, <3>3, PrefixTrans
    <3>. QED
      BY <1>3, <3>2, <3>4 DEF ReadDirectly
  <2>. QED
    BY <2>3
<1>4. ASSUME NEW p \in DOMAIN s.rows, NEW r \in DOMAIN s.rows,
             q \in ReadDirectly(s, p), q \in ReadDirectly(s, r)
      PROVE  p = r
  BY <1>1, <1>3, <1>4
<1>. QED
  BY <1>2, <1>4

\* A snapshot adds to the total of a domain what its scan read there.
LEMMA SnapshotTotal ==
  ASSUME NEW s, IsSnapshot(s), ~ HidesMount(s), NEW d
  PROVE  DomainBytes(s, d) = ReadBytes(s, d) /\ ReadBytes(s, d) \in Nat
<1>. DEFINE rows == RowsOf(s, d)
            lower == RowsBelow(s, d)
            read == {q \in s.read : Domain(s.mounts, q) = d}
            seen == Seen(s.mounts, s.contents)
            disk == [p \in DOMAIN s.rows |-> s.rows[p].disk]
            kids == [p \in rows |-> DiskBytes(s, ChildRows(s, p))]
            own == [p \in rows |-> SumFunctionOnSet(seen, ReadDirectly(s, p))]
            child == [p \in rows |-> ChildRows(s, p)]
            direct == [p \in rows |-> ReadDirectly(s, p)]
<1>1. /\ rows \subseteq DOMAIN s.rows /\ lower \subseteq DOMAIN s.rows /\ read \subseteq s.read
      /\ \A p \in DOMAIN s.rows : ChildRows(s, p) \subseteq DOMAIN s.rows
  BY DEF RowsOf, RowsBelow, ChildRows
<1>2. /\ IsFiniteSet(rows) /\ IsFiniteSet(lower) /\ IsFiniteSet(read)
      /\ \A p \in DOMAIN s.rows : disk[p] \in Int
      /\ \A q \in read : seen[q] \in Nat
  BY <1>1, CountedIs, FS_Subset
<1>3. \A p \in rows : /\ own[p] \in Int /\ disk[p] \in Int /\ kids[p] \in Int
                      /\ own[p] = disk[p] - kids[p]
  <2>. SUFFICES ASSUME NEW p \in rows
                PROVE  /\ own[p] \in Int /\ disk[p] \in Int /\ kids[p] \in Int
                       /\ own[p] = disk[p] - kids[p]
    OBVIOUS
  <2>1. /\ SumFunctionOnSet(seen, ReadDirectly(s, p)) =
             s.rows[p].disk - DiskBytes(s, ChildRows(s, p))
        /\ SumFunctionOnSet(seen, ReadDirectly(s, p)) \in Nat
    BY <1>1, RowParts
  <2>2. DiskBytes(s, ChildRows(s, p)) \in Int
    BY <1>1, DiskBytesInt
  <2>3. s.rows[p].disk \in Int
    BY <1>1, CountedIs
  <2>. QED
    BY <1>1, <2>1, <2>2, <2>3
<1>4. IsSplit(child, kids, rows, disk, lower)
  <2>1. ASSUME NEW p \in rows
        PROVE  child[p] \subseteq lower /\ kids[p] = SumFunctionOnSet(disk, child[p])
    <3>1. child[p] = ChildRows(s, p) /\ kids[p] = DiskBytes(s, ChildRows(s, p))
      BY Zenon
    <3>2. DiskBytes(s, ChildRows(s, p)) = SumFunctionOnSet(disk, ChildRows(s, p))
      BY Zenon DEF DiskBytes
    <3>3. ChildRows(s, p) \subseteq lower
      BY DEF ChildRows, RowsBelow, RowsOf
    <3>. HIDE DEF child, kids, disk, lower, rows
    <3>. QED
      BY <3>1, <3>2, <3>3
  <2>2. ASSUME NEW p \in rows, NEW r \in rows, p # r PROVE child[p] \intersect child[r] = {}
    BY <2>2 DEF ChildRows
  <2>3. ASSUME NEW c \in lower PROVE \E p \in rows : c \in child[p]
    <3>1. Parent(c) \in DOMAIN s.rows /\ c \in DOMAIN s.rows \ {s.root}
          /\ Domain(s.mounts, Parent(c)) = d
      BY ParentRow DEF RowsBelow
    <3>2. Parent(c) \in rows /\ c \in ChildRows(s, Parent(c))
      BY <3>1 DEF RowsOf, ChildRows
    <3>. QED
      BY <3>2, Zenon
  <2>. HIDE DEF child, kids, disk, lower, rows
  <2>. QED
    BY <2>1, <2>2, <2>3 DEF IsSplit
<1>5. IsSplit(direct, own, rows, seen, read)
  <2>1. ASSUME NEW p \in rows
        PROVE  direct[p] \subseteq read /\ own[p] = SumFunctionOnSet(seen, direct[p])
    <3>1. direct[p] = ReadDirectly(s, p)
          /\ own[p] = SumFunctionOnSet(seen, ReadDirectly(s, p))
      BY Zenon
    <3>2. ASSUME NEW q \in ReadDirectly(s, p) PROVE q \in read
      <4>1. p \in DOMAIN s.rows /\ Domain(s.mounts, p) = d
        BY DEF RowsOf
      <4>2. Domain(s.mounts, q) = d
        BY <4>1, DirectDomain
      <4>. QED
        BY <4>2 DEF ReadDirectly, ReadBelow
    <3>. HIDE DEF direct, own, seen, read, rows
    <3>. QED
      BY <3>1, <3>2
  <2>2. ASSUME NEW p \in rows, NEW r \in rows, p # r PROVE direct[p] \intersect direct[r] = {}
    <3>1. ASSUME NEW q \in ReadDirectly(s, p), q \in ReadDirectly(s, r) PROVE FALSE
      <4>1. q \in s.read
        BY DEF ReadDirectly, ReadBelow
      <4>. QED
        BY <1>1, <2>2, <3>1, <4>1, OneOwner
    <3>. QED
      BY <3>1
  <2>3. ASSUME NEW q \in read PROVE \E p \in rows : q \in direct[p]
    <3>1. PICK p \in DOMAIN s.rows : q \in ReadDirectly(s, p)
      BY OneOwner
    <3>2. p \in rows
      BY <3>1, DirectDomain DEF RowsOf
    <3>. QED
      BY <3>1, <3>2, Zenon
  <2>. HIDE DEF direct, own, seen, read, rows
  <2>. QED
    BY <2>1, <2>2, <2>3 DEF IsSplit
<1>6. /\ DomainBytes(s, d) = SumFunctionOnSet(disk, rows) - SumFunctionOnSet(disk, lower)
      /\ ReadBytes(s, d) = SumFunctionOnSet(seen, read)
  BY BoundaryCancels, Zenon DEF DiskBytes, ReadBytes
<1>. HIDE DEF rows, lower, read, seen, disk, kids, own, child, direct
<1>7. SumFunctionOnSet(kids, rows) = SumFunctionOnSet(disk, lower)
  BY <1>1, <1>2, <1>4, SumOfSplit
<1>8. SumFunctionOnSet(own, rows) = SumFunctionOnSet(seen, read)
  BY <1>2, <1>5, SumOfSplit
<1>9. SumFunctionOnSet(own, rows) = SumFunctionOnSet(disk, rows) - SumFunctionOnSet(kids, rows)
  BY <1>2, <1>3, SumMinus
<1>10. SumFunctionOnSet(seen, read) \in Nat
  BY <1>2, SumNat
<1>. QED
  BY <1>6, <1>7, <1>8, <1>9, <1>10

\* Then the total of the domain is the sum of what was read there.
LEMMA TotalIs ==
  ASSUME IndexInv, \A s \in index : ~ HidesMount(s), NEW d
  PROVE  /\ Indexed(d) = SumFunctionOnSet([s \in index |-> ReadBytes(s, d)], index)
         /\ \A s \in index : ReadBytes(s, d) \in Nat
<1>. DEFINE f == [s \in index |-> DomainBytes(s, d)]
            g == [s \in index |-> ReadBytes(s, d)]
<1>1. IsFiniteSet(index) /\ \A s \in index : IsSnapshot(s)
  BY DEF IndexInv
<1>2. \A s \in index : DomainBytes(s, d) = ReadBytes(s, d) /\ ReadBytes(s, d) \in Nat
  BY <1>1, SnapshotTotal
<1>3. \A s \in index : f[s] = g[s] /\ g[s] \in Nat
  BY <1>2
<1>4. TotalOf(d) = SumFunctionOnSet(f, index)
  BY Zenon DEF TotalOf
<1>. HIDE DEF f, g
<1>5. PICK total \in Nat : total = SumFunctionOnSet(g, index)
  BY <1>1, <1>3, SumNat
<1>6. SumFunctionOnSet(f, index) = total
  BY <1>1, <1>3, <1>5, SumSame
<1>7. TotalOf(d) = total /\ total >= 0
  BY <1>4, <1>5, <1>6
<1>8. Indexed(d) = SumFunctionOnSet(g, index)
  BY <1>5, <1>7, IndexedIs
<1>. QED
  BY <1>2, <1>8 DEF g

\* Whatever roots, mounts and rows there are, every byte that was read is counted
\* once, and in the filesystem it is on, as long as no mount point was folded into
\* the directory above it.
THEOREM BytesCountedWhereRead == Spec => []TotalsExact
<1>1. IndexInv => TotalsExact
  BY TotalIs DEF TotalsExact
<1>. QED
  BY <1>1, IndexInvariance, PTL

--------------------------------------------------------------------------------
(* Filesystems *)

\* A mount shows each directory of its filesystem once.
LEMMA NodesApart ==
  ASSUME NEW t \in Tables, NEW p \in Seq(Nat), NEW q \in Seq(Nat),
         Domain(t, p) = Domain(t, q), Node(t, p) = Node(t, q)
  PROVE  p = q
<1>1. MountPoint(t, p) = MountPoint(t, q)
  BY DEF Domain
<1>2. PICK m : m = MountPoint(t, p)
  OBVIOUS
<1>3. /\ m \in DOMAIN t /\ m \in Seq(Nat)
      /\ MatchesPathPrefix(p, m) /\ MatchesPathPrefix(q, m)
  BY <1>1, <1>2, MountPointIs
<1>4. PICK sub \in Seq(Nat) : sub = t[m].sub
  BY <1>3, MountsAssumption
<1>5. PICK a : a = SubSeq(p, Len(m) + 1, Len(p))
  OBVIOUS
<1>6. PICK b : b = SubSeq(q, Len(m) + 1, Len(q))
  OBVIOUS
<1>7. a \in Seq(Nat) /\ m \o a = p
  BY <1>3, <1>5, SuffixIs
<1>8. b \in Seq(Nat) /\ m \o b = q
  BY <1>3, <1>6, SuffixIs
<1>9. sub \o a = sub \o b
  BY <1>1, <1>2, <1>4, <1>5, <1>6 DEF Node
<1>10. SubSeq(sub \o a, Len(sub) + 1, Len(sub \o a)) = a
  BY <1>7, PrefixOfConcat
<1>11. SubSeq(sub \o b, Len(sub) + 1, Len(sub \o b)) = b
  BY <1>8, PrefixOfConcat
<1>12. a = b
  BY <1>9, <1>10, <1>11, Zenon
<1>. QED
  BY <1>7, <1>8, <1>12

\* The directories of a filesystem that a scan read through a mount.
NodesRead(s, d) == {Node(s.mounts, q) : q \in {r \in s.read : Domain(s.mounts, r) = d}}

\* What was read on a mount is what they hold.
LEMMA ReadNodes ==
  ASSUME NEW s, IsSnapshot(s), NEW d
  PROVE  /\ ReadBytes(s, d) = SumFunctionOnSet(s.contents, NodesRead(s, d))
         /\ NodesRead(s, d) \subseteq {n \in Nodes : n[1] = d.fs}
<1>. DEFINE Q == {q \in s.read : Domain(s.mounts, q) = d}
            N == NodesRead(s, d)
            seen == Seen(s.mounts, s.contents)
            part == [q \in Q |-> {Node(s.mounts, q)}]
<1>1. /\ \A q \in Q : q \in Dirs /\ q \in Seq(Nat) /\ Exists(s.mounts, q) /\ q \in s.read
      /\ s.mounts \in Tables /\ s.contents \in [Nodes -> Nat]
  BY DirsAssumption DEF IsSnapshot, IsTree, Within
<1>2. \A q \in Q : /\ Node(s.mounts, q) \in Nodes /\ seen[q] = s.contents[Node(s.mounts, q)]
                   /\ seen[q] \in Nat
  BY <1>1, SeenIs
<1>3. N \subseteq Nodes /\ \A n \in N : n[1] = d.fs
  <2>1. ASSUME NEW q \in Q
        PROVE  Node(s.mounts, q) \in Nodes /\ Node(s.mounts, q)[1] = d.fs
    <3>1. Node(s.mounts, q)[1] = Domain(s.mounts, q).fs
      BY DEF Node, Domain, Mounted
    <3>. QED
      BY <1>2, <3>1
  <2>. QED
    BY <2>1 DEF NodesRead
<1>4. IsFiniteSet(Q) /\ IsFiniteSet(N) /\ \A n \in N : s.contents[n] \in Int
  BY <1>1, <1>3, CountedIs, FilesAssumption, FS_Subset
<1>5. IsSplit(part, seen, Q, s.contents, N)
  <2>1. ASSUME NEW q \in Q
        PROVE  part[q] \subseteq N /\ seen[q] = SumFunctionOnSet(s.contents, part[q])
    <3>1. part[q] = {Node(s.mounts, q)}
      OBVIOUS
    <3>2. Node(s.mounts, q) \in N
      BY DEF NodesRead
    <3>3. SumFunctionOnSet(s.contents, {Node(s.mounts, q)}) = s.contents[Node(s.mounts, q)]
      BY <1>4, <3>2, SumSingle
    <3>. QED
      BY <1>2, <3>1, <3>2, <3>3
  <2>2. ASSUME NEW q \in Q, NEW r \in Q, q # r PROVE part[q] \intersect part[r] = {}
    <3>1. Node(s.mounts, q) # Node(s.mounts, r)
      BY <1>1, <2>2, NodesApart
    <3>. QED
      BY <3>1
  <2>3. ASSUME NEW n \in N PROVE \E q \in Q : n \in part[q]
    <3>1. PICK q \in Q : n = Node(s.mounts, q)
      BY DEF NodesRead
    <3>. QED
      BY <3>1
  <2>. HIDE DEF part, seen, Q, N
  <2>. QED
    BY <2>1, <2>2, <2>3 DEF IsSplit
<1>6. ReadBytes(s, d) = SumFunctionOnSet(seen, Q)
  BY Zenon DEF ReadBytes
<1>7. N \subseteq {n \in Nodes : n[1] = d.fs}
  BY <1>3
<1>. HIDE DEF part, seen, Q
<1>8. SumFunctionOnSet(seen, Q) = SumFunctionOnSet(s.contents, N)
  <2>. HIDE DEF N
  <2>. QED
    BY <1>4, <1>5, SumOfSplit
<1>. QED
  BY <1>6, <1>7, <1>8

\* While the mount table is that of the index, statvfs asks for the filesystem of
\* the domain.
LEMMA CurrentUse ==
  ASSUME IndexInv, Current, NEW d \in Domains
  PROVE  /\ d.point \in Seq(Nat) /\ d.fs \in Filesystems /\ DfUsed(d) = Used(d.fs)
         /\ \E p \in Dirs : d = Domain(table, p)
<1>1. PICK s \in index : \E p \in DOMAIN s.rows : d = Domain(s.mounts, p)
  BY DEF Domains
<1>2. PICK p \in DOMAIN s.rows : d = Domain(s.mounts, p)
  BY <1>1
<1>3. p \in Dirs /\ p \in Seq(Nat) /\ s.mounts = table /\ table \in Tables
  BY <1>1, <1>2, DirsAssumption DEF IndexInv, IsSnapshot, IsTree, Within, Current
<1>4. PICK m : m = MountPoint(table, p)
  OBVIOUS
<1>5. m \in Seq(Nat) /\ m \in DOMAIN table /\ MatchesPathPrefix(p, m)
  BY <1>3, <1>4, MountPointIs
<1>6. MountPoint(table, m) = m
  BY <1>3, <1>4, <1>5, MountPointBetween, BelowIs
<1>7. d.point = m /\ d.fs = table[m].fs
  BY <1>2, <1>3, <1>4 DEF Domain, Mounted
<1>8. Mounted(table, d.point).fs = d.fs
  BY <1>6, <1>7 DEF Mounted
<1>9. d.fs \in Filesystems
  BY <1>3, <1>5, <1>7, MountsAssumption
<1>. QED
  BY <1>2, <1>3, <1>5, <1>7, <1>8, <1>9 DEF DfUsed

--------------------------------------------------------------------------------
(* Held space is found *)

\* The directories of the filesystem of a domain.
NodesOf(d) == {n \in Nodes : n[1] = d.fs}

\* What was read of a filesystem is still there, or lost.
LEMMA ReadOrLost ==
  ASSUME NEW s, IsSnapshot(s), stored \in [Nodes -> Nat], NEW d
  PROVE  /\ Lost(s, d) \in Nat
         /\ ReadBytes(s, d) <= SumFunctionOnSet(stored, NodesOf(d)) + Lost(s, d)
<1>. DEFINE all == NodesOf(d)
            lost == [n \in Nodes |-> NonNegative(s.contents[n] - stored[n])]
<1>1. s.contents \in [Nodes -> Nat]
  BY DEF IsSnapshot
<1>2. IsFiniteSet(all) /\ all \subseteq Nodes
  BY FilesAssumption, FS_Subset DEF NodesOf
<1>3. \A n \in all : /\ s.contents[n] \in Nat /\ stored[n] \in Nat /\ lost[n] \in Nat
                     /\ s.contents[n] <= stored[n] + lost[n]
  BY <1>1, <1>2 DEF NonNegative
<1>4. Lost(s, d) = SumFunctionOnSet(lost, all)
  BY Zenon DEF Lost, NodesOf
<1>5. /\ ReadBytes(s, d) = SumFunctionOnSet(s.contents, NodesRead(s, d))
      /\ NodesRead(s, d) \subseteq all
  BY ReadNodes DEF NodesOf
<1>. HIDE DEF all, lost
<1>6. SumFunctionOnSet(lost, all) \in Nat /\ SumFunctionOnSet(stored, all) \in Nat
      /\ SumFunctionOnSet(s.contents, all) \in Nat
  BY <1>2, <1>3, SumNat
<1>7. SumFunctionOnSet(s.contents, NodesRead(s, d)) <= SumFunctionOnSet(s.contents, all)
  BY <1>2, <1>3, <1>5, SumMonotone
<1>8. SumFunctionOnSet(s.contents, all)
        <= SumFunctionOnSet(stored, all) + SumFunctionOnSet(lost, all)
  BY <1>2, <1>3, SumBound
<1>9. IsFiniteSet(NodesRead(s, d)) /\ \A n \in NodesRead(s, d) : s.contents[n] \in Nat
  BY <1>2, <1>3, <1>5, FS_Subset
<1>10. SumFunctionOnSet(s.contents, NodesRead(s, d)) \in Nat
  BY <1>9, SumNat
<1>. QED
  BY <1>4, <1>5, <1>6, <1>7, <1>8, <1>10 DEF all

\* Where the scan of "/" read all there is, held space that was not indexed before
\* it was held makes a difference that nothing else explains, and is pointed out.
THEOREM HeldIsFound == Spec => []HeldSpaceFound
<1>1. ASSUME IndexInv PROVE HeldSpaceFound
  <2>1. SUFFICES ASSUME Current, NEW d \in Domains,
                        \A s \in index : s.read = {p \in Dirs : MatchesPathPrefix(p, s.root)
                                                                  /\ Exists(table, p)},
                        StatAvailable(d), ~ IsAlias(d),
                        \A s \in index : DOMAIN s.rows = s.read,
                        NEW s \in index, s.root = <<>>,
                        held[d.fs] - Lost(s, d) >= 1,
                        20 * (held[d.fs] - Lost(s, d)) >= Used(d.fs)
                 PROVE  "deleted_open_file_suspected" \in LikelyReasons(d)
    BY Zenon DEF HeldSpaceFound
  <2>2. s \in index /\ s.root = <<>>
    BY <2>1
  <2>3. ASSUME NEW u \in index
        PROVE  /\ u.root = <<>> /\ u = s /\ ~ HidesMount(u) /\ u.complete
               /\ \A p \in DOMAIN u.rows : ~ u.rows[p].error
    <3>1. IsSnapshot(u) /\ IsSnapshot(s) /\ u.mounts = table
      BY <1>1, <2>1 DEF IndexInv, Current
    <3>2. u.root \in config.roots /\ s.read \intersect config.roots \subseteq {s.root}
      BY <1>1 DEF IndexInv
    <3>3. u.root \in Dirs /\ Exists(table, u.root) /\ u.root \in Seq(Nat)
      BY <3>1, DirsAssumption DEF IsSnapshot, IsTree, Within
    <3>4. MatchesPathPrefix(u.root, <<>>)
      BY <3>3, RootMatches
    <3>5. u.root \in s.read
      BY <2>1, <2>2, <3>3, <3>4
    <3>6. u.root = <<>> /\ u = s
      BY <1>1, <2>2, <3>2, <3>5 DEF IndexInv
    <3>7. Within(u) = u.read
      BY <2>1, <3>1 DEF Within
    <3>8. ~ HidesMount(u)
      BY <2>1 DEF HidesMount
    <3>9. u.complete /\ \A p \in DOMAIN u.rows : ~ u.rows[p].error
      BY <3>1, <3>7, Zenon DEF IsSnapshot, IsEvident
    <3>. QED
      BY <3>6, <3>8, <3>9
  <2>4. ~ IsPartial(d) /\ SkippedPaths(d) = {}
    <3>1. ~ IsPartial(d)
      BY <2>3 DEF IsPartial, Evidence
    <3>2. \A u \in index : ErrorRows(u, d) = {}
      BY <2>3, Zenon DEF ErrorRows
    <3>. QED
      BY <3>1, <3>2 DEF SkippedPaths
  <2>5. ~ ScopeExtends(d)
    <3>1. d.point \notin Ancestors(<<>>)
      BY DEF Ancestors
    <3>. QED
      BY <2>3, <3>1 DEF ScopeExtends, IsStrictSubtree, Evidence
  <2>6. Material(d)
    <3>. DEFINE f == [u \in index |-> ReadBytes(u, d)]
    <3>1. d.fs \in Filesystems /\ DfUsed(d) = Used(d.fs)
      BY <1>1, <2>1, CurrentUse
    <3>2. IsSnapshot(s) /\ stored \in [Nodes -> Nat]
      BY <1>1 DEF IndexInv
    <3>3. Indexed(d) = SumFunctionOnSet(f, index) /\ ReadBytes(s, d) \in Nat
      BY <1>1, <2>3, TotalIs
    <3>4. index = {s} /\ f[s] = ReadBytes(s, d)
      BY <2>2, <2>3
    <3>. HIDE DEF f
    <3>5. Indexed(d) = ReadBytes(s, d)
      BY <3>3, <3>4, SumSingle
    <3>6. held[d.fs] \in Nat /\ SumFunctionOnSet(stored, NodesOf(d)) \in Nat
          /\ Used(d.fs) = SumFunctionOnSet(stored, NodesOf(d)) + held[d.fs]
      BY <1>1, <3>1, UsedIs DEF IndexInv, NodesOf
    <3>7. PICK own \in Nat : own = SumFunctionOnSet(stored, NodesOf(d))
      BY <3>6
    <3>8. PICK bytes \in Nat : bytes = Indexed(d)
      BY <3>3, <3>5
    <3>9. PICK h \in Nat : h = held[d.fs]
      BY <3>6
    <3>10. PICK lost \in Nat : lost = Lost(s, d)
      BY <3>2, ReadOrLost
    <3>11. bytes <= own + lost
      BY <3>2, <3>5, <3>7, <3>8, <3>10, ReadOrLost
    <3>12. DfUsed(d) = own + h /\ h - lost >= 1 /\ 20 * (h - lost) >= own + h
      BY <2>1, <3>1, <3>6, <3>7, <3>9, <3>10
    <3>13. Unattributed(d) = (own + h) - bytes
      BY <2>1, <3>8, <3>11, <3>12 DEF Unattributed, NonNegative
    <3>. QED
      BY <2>1, <3>11, <3>12, <3>13 DEF Material
  <2>. QED
    BY <2>4, <2>5, <2>6, SuspectedIs
<1>. QED
  BY <1>1, IndexInvariance, PTL

--------------------------------------------------------------------------------
(* Suspicions are warranted *)

\* Each domain of the index has evidence.
LEMMA EvidenceExists ==
  ASSUME IndexInv, NEW d \in Domains
  PROVE  Evidence(d) # {}
<1>1. PICK s \in index : \E p \in DOMAIN s.rows : d = Domain(s.mounts, p)
  BY DEF Domains
<1>2. IsSnapshot(s)
  BY DEF IndexInv
<1>3. RowsOf(s, d) \subseteq Seq(Nat) /\ RowsOf(s, d) # {}
  BY <1>1, <1>2, TreeIs DEF RowsOf
<1>4. PICK p \in RowsOf(s, d) : \A q \in RowsOf(s, d) : Len(p) <= Len(q)
  BY <1>3, ShortestPath
<1>5. p \in DOMAIN s.rows /\ Domain(s.mounts, p) = d
  BY <1>4 DEF RowsOf
<1>6. ASSUME NEW q \in NearestIndexed(s, p), Domain(s.mounts, q) = Domain(s.mounts, p)
      PROVE  FALSE
  <2>1. p # s.root /\ q = Parent(p)
    BY <1>2, <1>5, NearestIs
  <2>2. q \in DOMAIN s.rows /\ q \in Seq(Nat) /\ Len(p) = Len(q) + 1
    BY <1>2, <1>5, <2>1, ParentRow
  <2>3. q \in RowsOf(s, d) /\ Len(q) \in Nat
    BY <1>5, <1>6, <2>2, LenProperties DEF RowsOf
  <2>. QED
    BY <1>4, <2>2, <2>3
<1>7. p \in Boundary(s)
  BY <1>5, <1>6 DEF Boundary
<1>8. s \in Evidence(d)
  BY <1>5, <1>7 DEF Evidence
<1>. QED
  BY <1>8

\* Where evidence comes from: a row at or below the mount point, and the root.
LEMMA EvidenceIs ==
  ASSUME IndexInv, Current, NEW d, NEW s \in Evidence(d)
  PROVE  /\ s \in index /\ IsSnapshot(s) /\ s.mounts = table /\ s.root \in Seq(Nat)
         /\ \E e \in DOMAIN s.rows : /\ e \in Seq(Nat) /\ Domain(table, e) = d
                                     /\ d.point \in Seq(Nat) /\ MatchesPathPrefix(e, d.point)
                                     /\ MatchesPathPrefix(e, s.root)
<1>1. s \in index /\ IsSnapshot(s) /\ s.mounts = table /\ table \in Tables
  BY DEF Evidence, IndexInv, Current
<1>2. PICK e \in DOMAIN s.rows : Domain(table, e) = d
  BY <1>1 DEF Evidence, Boundary
<1>3. e \in Seq(Nat) /\ s.root \in Seq(Nat) /\ MatchesPathPrefix(e, s.root)
  BY <1>1, <1>2, TreeIs
<1>4. d.point = MountPoint(table, e)
  BY <1>2 DEF Domain
<1>5. d.point \in Seq(Nat) /\ MatchesPathPrefix(e, d.point)
  BY <1>1, <1>3, <1>4, MountPointIs
<1>. QED
  BY <1>1, <1>2, <1>3, <1>5

\* Without evidence of anything missing, each directory of the mount was read.
LEMMA AllRead ==
  ASSUME IndexInv, Current, NEW d \in Domains, ~ ScopeExtends(d), SkippedPaths(d) = {},
         \A s \in index : ~ s.rows[s.root].error,
         NEW p \in Dirs, Exists(table, p), Domain(table, p) = d
  PROVE  \E t \in index : Node(table, p) \in NodesRead(t, d)
<1>1. p \in Seq(Nat) /\ table \in Tables /\ d.point = MountPoint(table, p)
  BY DirsAssumption DEF IndexInv, Domain
<1>2. d.point \in Seq(Nat) /\ MatchesPathPrefix(p, d.point) /\ Len(d.point) \in Nat
  BY <1>1, MountPointIs, LenProperties
<1>. DEFINE U == {r \in {u.root : u \in Evidence(d)} : MatchesPathPrefix(p, r)}
<1>3. U \subseteq Seq(Nat) /\ U # {} /\ \A r \in U : MatchesPathPrefix(p, r)
  <2>1. PICK s \in Evidence(d) : d.point \notin Ancestors(s.root)
    BY EvidenceExists DEF ScopeExtends, IsStrictSubtree
  <2>2. PICK e \in DOMAIN s.rows : /\ e \in Seq(Nat) /\ MatchesPathPrefix(e, d.point)
                                   /\ MatchesPathPrefix(e, s.root) /\ s.root \in Seq(Nat)
    BY <2>1, EvidenceIs
  <2>3. Len(s.root) \in Nat
    BY <2>2, LenProperties
  <2>4. MatchesPathPrefix(d.point, s.root)
    <3>1. CASE Len(s.root) <= Len(d.point)
      BY <1>2, <2>2, <3>1, PrefixesNest
    <3>2. CASE Len(d.point) < Len(s.root)
      <4>1. MatchesPathPrefix(s.root, d.point)
        BY <1>2, <2>2, <2>3, <3>2, PrefixesNest
      <4>. QED
        BY <1>2, <2>1, <2>2, <2>3, <3>2, <4>1, BelowIs
    <3>. QED
      BY <1>2, <2>3, <3>1, <3>2
  <2>5. MatchesPathPrefix(p, s.root)
    BY <1>1, <1>2, <2>2, <2>4, PrefixTrans
  <2>6. s.root \in U
    BY <2>1, <2>5
  <2>7. U \subseteq Seq(Nat)
    BY EvidenceIs
  <2>. QED
    BY <2>6, <2>7
<1>4. PICK root \in U : \A r \in U : Len(r) <= Len(root)
  <2>. HIDE DEF U
  <2>. QED
    BY <1>1, <1>3, LongestPrefix
<1>5. PICK t \in Evidence(d) : t.root = root
  BY <1>4
<1>6. t \in index /\ IsSnapshot(t) /\ t.mounts = table /\ t.root \in Seq(Nat)
      /\ MatchesPathPrefix(p, t.root)
  BY <1>3, <1>4, <1>5, EvidenceIs
<1>7. PICK e \in DOMAIN t.rows : e \in Seq(Nat) /\ MatchesPathPrefix(e, d.point)
  BY <1>5, EvidenceIs
<1>8. p \in t.read
  <2>1. SUFFICES ASSUME p \notin t.read PROVE FALSE
    OBVIOUS
  <2>2. p \in Within(t) \ t.read
    BY <1>6, <2>1 DEF Within
  <2>3. PICK y \in DOMAIN t.rows : /\ MatchesPathPrefix(p, y) /\ t.rows[y].error
                                   /\ \A r \in DOMAIN t.rows : y \notin Ancestors(r)
    BY <1>6, <2>2, Zenon DEF IsSnapshot, IsEvident
  <2>4. /\ y \in Seq(Nat) /\ Len(y) \in Nat /\ MatchesPathPrefix(y, t.root)
        /\ Len(t.root) <= Len(y) /\ Len(t.root) \in Nat
    BY <1>6, TreeIs
  <2>5. CASE Len(d.point) <= Len(y)
    <3>1. MatchesPathPrefix(y, d.point)
      BY <1>1, <1>2, <2>3, <2>4, <2>5, PrefixesNest
    <3>2. MountPoint(table, y) = MountPoint(table, p)
      BY <1>1, <2>3, <2>4, <3>1, MountPointBetween
    <3>3. Domain(t.mounts, y) = d
      BY <1>6, <3>2 DEF Domain, Mounted
    <3>4. PICK u \in Evidence(d) : u.root = y
      <4>1. y \in ErrorRows(t, d)
        BY <2>3, <3>3, Zenon DEF ErrorRows
      <4>2. y \in UNION {ErrorRows(s, d) : s \in index}
        BY <1>6, <4>1, Zenon
      <4>3. y \in {s.root : s \in Evidence(d)}
        BY <4>2 DEF SkippedPaths
      <4>. QED
        BY <4>3
    <3>5. y \in U
      BY <2>3, <3>4
    <3>6. Len(y) = Len(t.root)
      BY <1>4, <1>5, <2>4, <3>5
    <3>7. MatchesPathPrefix(y, y)
      BY <2>4, BelowIs
    <3>8. y = t.root
      BY <1>6, <2>4, <3>6, <3>7, SiblingsApart
    <3>. QED
      BY <1>6, <2>3, <3>8, Zenon
  <2>6. CASE Len(y) < Len(d.point)
    <3>1. MatchesPathPrefix(d.point, y)
      BY <1>1, <1>2, <2>3, <2>4, <2>6, PrefixesNest
    <3>2. MatchesPathPrefix(e, y)
      BY <1>2, <1>7, <2>4, <3>1, PrefixTrans
    <3>3. Len(d.point) <= Len(e) /\ Len(e) \in Nat
      BY <1>2, <1>7, PrefixIs, LenProperties
    <3>4. y \in Ancestors(e)
      BY <1>2, <1>7, <2>4, <2>6, <3>2, <3>3, BelowIs
    <3>. QED
      BY <1>7, <2>3, <3>4
  <2>. QED
    BY <1>2, <2>4, <2>5, <2>6
<1>9. Node(table, p) \in NodesRead(t, d)
  BY <1>6, <1>8 DEF NodesRead
<1>. QED
  BY <1>6, <1>9

\* What is found of a filesystem in some snapshot is in the total, if it has not
\* grown since.
LEMMA TotalCovers ==
  ASSUME IndexInv, \A s \in index : ~ HidesMount(s), NEW d,
         NEW N, N \subseteq Nodes, \A n \in N : \E t \in index : n \in NodesRead(t, d),
         \A t \in index : \A n \in NodesRead(t, d) : stored[n] <= t.contents[n]
  PROVE  SumFunctionOnSet(stored, N) <= Indexed(d)
<1>. DEFINE owner == [n \in N |-> CHOOSE t \in index : n \in NodesRead(t, d)]
            part == [t \in index |-> {n \in N : owner[n] = t}]
            f == [t \in index |-> SumFunctionOnSet(stored, part[t])]
            g == [t \in index |-> ReadBytes(t, d)]
<1>1. IsFiniteSet(index) /\ IsFiniteSet(N) /\ \A n \in N : stored[n] \in Nat
  BY FilesAssumption, FS_Subset DEF IndexInv
<1>2. \A n \in N : owner[n] \in index /\ n \in NodesRead(owner[n], d)
  BY Zenon
<1>3. \A t \in index : part[t] = {n \in N : owner[n] = t} /\ f[t] = SumFunctionOnSet(stored, part[t])
  BY Zenon
<1>4. /\ \A t \in index : g[t] = ReadBytes(t, d) /\ ReadBytes(t, d) \in Nat
      /\ Indexed(d) = SumFunctionOnSet(g, index)
  BY TotalIs
<1>. HIDE DEF owner, part, f, g
<1>5. IsSplit(part, f, index, stored, N)
  <2>1. \A t \in index : part[t] \subseteq N /\ f[t] = SumFunctionOnSet(stored, part[t])
    BY <1>3
  <2>2. ASSUME NEW t \in index, NEW u \in index, t # u PROVE part[t] \intersect part[u] = {}
    BY <1>3, <2>2
  <2>3. \A n \in N : \E t \in index : n \in part[t]
    BY <1>2, <1>3
  <2>. QED
    BY <2>1, <2>2, <2>3 DEF IsSplit
<1>6. SumFunctionOnSet(f, index) = SumFunctionOnSet(stored, N)
  BY <1>1, <1>5, SumOfSplit
<1>7. ASSUME NEW t \in index PROVE f[t] \in Int /\ g[t] \in Int /\ f[t] <= g[t]
  <2>. DEFINE read == NodesRead(t, d)
  <2>1. IsSnapshot(t) /\ t.contents \in [Nodes -> Nat] /\ stored \in [Nodes -> Nat]
    BY DEF IndexInv, IsSnapshot
  <2>2. ReadBytes(t, d) = SumFunctionOnSet(t.contents, read) /\ read \subseteq Nodes
    BY <2>1, ReadNodes
  <2>3. IsFiniteSet(read)
    BY <2>2, FilesAssumption, FS_Subset
  <2>4. \A n \in read : stored[n] \in Nat /\ t.contents[n] \in Nat /\ stored[n] <= t.contents[n]
    BY <2>1, <2>2
  <2>5. part[t] \subseteq read /\ IsFiniteSet(part[t])
    BY <1>1, <1>2, <1>3, FS_Subset
  <2>. HIDE DEF read
  <2>6. SumFunctionOnSet(stored, part[t]) <= SumFunctionOnSet(stored, read)
    BY <2>3, <2>4, <2>5, SumMonotone
  <2>7. SumFunctionOnSet(stored, read) <= SumFunctionOnSet(t.contents, read)
    BY <2>3, <2>4, SumLess
  <2>8. SumFunctionOnSet(stored, part[t]) \in Nat /\ SumFunctionOnSet(stored, read) \in Nat
    BY <2>3, <2>4, <2>5, SumNat
  <2>. QED
    BY <1>3, <1>4, <2>2, <2>6, <2>7, <2>8
<1>8. SumFunctionOnSet(f, index) <= SumFunctionOnSet(g, index)
  BY <1>1, <1>7, SumLess
<1>. QED
  BY <1>4, <1>6, <1>8

\* df-vs-index suspects deleted-open files on a filesystem only if some of its
\* space is held or it has grown since it was scanned, however roots are nested, excluded, unreadable or folded, but
\* for the exceptions that SuspicionWarranted names.
THEOREM SuspectedAreHeld == Spec => []SuspicionWarranted
<1>1. ASSUME IndexInv PROVE SuspicionWarranted
  <2>1. SUFFICES ASSUME Current, NEW d \in Domains,
                        "deleted_open_file_suspected" \in LikelyReasons(d), Shown(d),
                        \A s \in index : ~ HidesMount(s) /\ ~ s.rows[s.root].error,
                        ~ Grown(d)
                 PROVE  held[d.fs] > 0
    BY Zenon DEF SuspicionWarranted
  <2>2. Material(d) /\ ~ ScopeExtends(d) /\ SkippedPaths(d) = {}
    BY <2>1, SuspectedIs
  <2>. DEFINE all == {n \in Nodes : n[1] = d.fs}
              some == {n \in all : stored[n] > 0}
  <2>3. \A n \in some : \E t \in index : n \in NodesRead(t, d)
    <3>1. ASSUME NEW n \in some PROVE \E t \in index : n \in NodesRead(t, d)
      <4>1. PICK p \in Dirs : Exists(table, p) /\ Domain(table, p) = d /\ Node(table, p) = n
        BY <2>1 DEF Shown
      <4>2. \E t \in index : Node(table, p) \in NodesRead(t, d)
        BY <1>1, <2>1, <2>2, <4>1, AllRead
      <4>. QED
        BY <4>1, <4>2
    <3>. QED
      BY <3>1
  <2>4. /\ IsFiniteSet(all) /\ some \subseteq all /\ some \subseteq Nodes
        /\ \A n \in all : stored[n] \in Nat /\ stored[n] \in Int
        /\ \A n \in all \ some : stored[n] = 0
    BY <1>1, FilesAssumption, FS_Subset DEF IndexInv
  <2>5. d.fs \in Filesystems /\ DfUsed(d) = Used(d.fs)
    BY <1>1, <2>1, CurrentUse
  <2>6. held[d.fs] \in Nat /\ SumFunctionOnSet(stored, all) \in Nat
        /\ Used(d.fs) = SumFunctionOnSet(stored, all) + held[d.fs]
    BY <1>1, <2>5, UsedIs DEF IndexInv
  <2>7. Indexed(d) \in Nat /\ DfUsed(d) - Indexed(d) >= 1
    BY <1>1, <2>2, UnattributedIs
  <2>8. ASSUME NEW t \in index, NEW n \in NodesRead(t, d) PROVE stored[n] <= t.contents[n]
    <3>1. IsSnapshot(t) /\ stored \in [Nodes -> Nat]
      BY <1>1 DEF IndexInv
    <3>2. n \in Nodes /\ n[1] = d.fs
      BY <3>1, ReadNodes
    <3>3. PICK p \in t.read : n = Node(t.mounts, p)
      BY DEF NodesRead
    <3>4. ~ (stored[n] > t.contents[n])
      BY <2>1, <3>2, <3>3 DEF Grown
    <3>5. stored[n] \in Nat /\ t.contents[n] \in Nat
      BY <3>1, <3>2 DEF IsSnapshot
    <3>. QED
      BY <3>4, <3>5
  <2>. HIDE DEF all, some
  <2>9. SumFunctionOnSet(stored, all) = SumFunctionOnSet(stored, some)
    BY <2>4, SumWithout
  <2>10. SumFunctionOnSet(stored, some) <= Indexed(d)
    BY <1>1, <2>1, <2>3, <2>4, <2>8, TotalCovers
  <2>11. PICK own \in Nat : own = SumFunctionOnSet(stored, all)
    BY <2>6
  <2>12. PICK bytes \in Nat : bytes = Indexed(d)
    BY <2>7
  <2>13. PICK h \in Nat : h = held[d.fs]
    BY <2>6
  <2>14. own <= bytes /\ (own + h) - bytes >= 1
    BY <2>5, <2>6, <2>7, <2>9, <2>10, <2>11, <2>12, <2>13
  <2>. QED
    BY <2>13, <2>14
<1>. QED
  BY <1>1, IndexInvariance, PTL

--------------------------------------------------------------------------------
(* The window of a trend *)

\* Samples and captures are finitely many rows, with ids that have been given out,
\* none of them twice.
TrendInv ==
  /\ taken \in [Roots -> Nat] /\ IsFiniteSet(samples) /\ IsFiniteSet(captures)
  /\ \A s \in samples : s.id \in Nat /\ s.id <= Count /\ s.at \in Int /\ s.disk \in Nat
  /\ \A s, t \in samples : s.id = t.id => s = t
  /\ \A c \in captures : c.id \in Nat /\ c.id <= Count /\ c.root \in Roots
                            /\ c.at \in Int /\ c.used \in Int
  /\ \A c, d \in captures : c.id = d.id => c = d

\* One more snapshot of a root is one more in the window.
LEMMA CountGrows ==
  ASSUME NEW f \in [Roots -> Nat], NEW r \in Roots, NEW g, g = [f EXCEPT ![r] = @ + 1]
  PROVE  /\ g \in [Roots -> Nat] /\ SumFunctionOnSet(f, Roots) \in Nat
         /\ SumFunctionOnSet(g, Roots) = SumFunctionOnSet(f, Roots) + 1
<1>1. /\ g \in [Roots -> Nat] /\ g[r] = f[r] + 1 /\ f[r] \in Nat
      /\ \A x \in Roots \ {r} : g[x] = f[x]
  OBVIOUS
<1>2. IsFiniteSet(Roots) /\ IsFiniteSet(Roots \ {r})
  BY TrendsAssumption, FS_Subset
<1>3. SumFunctionOnSet(f, Roots) = f[r] + SumFunctionOnSet(f, Roots \ {r})
  <2>1. \A x \in Roots : f[x] \in Int
    OBVIOUS
  <2>. QED
    BY <1>2, <2>1, SumRemove
<1>4. SumFunctionOnSet(g, Roots) = g[r] + SumFunctionOnSet(g, Roots \ {r})
  <2>1. \A x \in Roots : g[x] \in Int
    BY <1>1
  <2>. QED
    BY <1>2, <2>1, SumRemove
<1>5. SumFunctionOnSet(g, Roots \ {r}) = SumFunctionOnSet(f, Roots \ {r})
  BY <1>1, <1>2, SumSame
<1>6. SumFunctionOnSet(f, Roots) \in Nat
  <2>1. \A x \in Roots : f[x] \in Nat
    OBVIOUS
  <2>. QED
    BY <1>2, <2>1, SumNat
<1>7. PICK rest \in Nat : rest = SumFunctionOnSet(f, Roots \ {r})
  <2>1. \A x \in Roots \ {r} : f[x] \in Nat
    OBVIOUS
  <2>. QED
    BY <1>2, <2>1, SumNat
<1>8. PICK k \in Nat : k = f[r]
  BY <1>1
<1>9. SumFunctionOnSet(f, Roots) = k + rest /\ SumFunctionOnSet(g, Roots) = (k + 1) + rest
  BY <1>1, <1>3, <1>4, <1>5, <1>7, <1>8, Zenon
<1>. QED
  BY <1>1, <1>6, <1>9

\* The inductive invariant of a window: every snapshot gives its row a new id, in
\* whatever order their times are.
THEOREM TrendInvariance == TrendSpec => []TrendInv
<1>1. TrendInit => TrendInv
  <2>1. SUFFICES ASSUME TrendInit PROVE TrendInv
    OBVIOUS
  <2>2. taken \in [Roots -> Nat] /\ samples = {} /\ captures = {}
    BY <2>1 DEF TrendInit
  <2>. QED
    BY <2>2, FS_EmptySet DEF TrendInv
<1>2. TrendInv /\ [TrendNext]_trendVars => TrendInv'
  <2>1. SUFFICES ASSUME TrendInv, [TrendNext]_trendVars PROVE TrendInv'
    OBVIOUS
  <2>2. Home \in Roots
    <3>1. \E x \in Roots : \A y \in Roots : x <= y
      BY TrendsAssumption, LeastNumber
    <3>. QED
      BY <3>1, Zenon DEF Home, Min
  <2>3. CASE Observe
    <3>1. PICK disk \in Disks, at \in Times :
            samples' = samples \union {[id |-> Count + 1, at |-> at, disk |-> disk]}
      BY <2>3 DEF Observe
    <3>2. captures' = captures /\ taken' = [taken EXCEPT ![Home] = @ + 1]
      BY <2>3 DEF Observe
    <3>3. Count \in Nat /\ Count' = Count + 1 /\ taken' \in [Roots -> Nat]
      BY <2>1, <2>2, <3>2, CountGrows DEF TrendInv, Count
    <3>4. PICK n \in Nat : n = Count
      BY <3>3
    <3>5. PICK new : new = [id |-> n + 1, at |-> at, disk |-> disk]
      OBVIOUS
    <3>6. new.id = n + 1 /\ new.at \in Int /\ new.disk \in Nat
      BY <3>1, <3>4, <3>5, TrendsAssumption DEF Times
    <3>7. samples' = samples \union {new}
      BY <3>1, <3>4, <3>5
    <3>8. IsFiniteSet(samples')
      BY <2>1, <3>7, FS_AddElement DEF TrendInv
    <3>9. /\ \A s \in samples : s.id \in Nat /\ s.id <= n /\ s.at \in Int /\ s.disk \in Nat
          /\ \A s, t \in samples : s.id = t.id => s = t
          /\ \A c \in captures : /\ c.id \in Nat /\ c.id <= n /\ c.root \in Roots
                                 /\ c.at \in Int /\ c.used \in Int
          /\ \A c, d \in captures : c.id = d.id => c = d
          /\ IsFiniteSet(captures)
      BY <2>1, <3>4, Zenon DEF TrendInv
    <3>10. Count' = n + 1
      BY <3>3, <3>4
    <3>11. /\ \A s \in samples' : /\ s.id \in Nat /\ s.id <= n + 1 /\ s.at \in Int
                                  /\ s.disk \in Nat
           /\ \A s, t \in samples' : s.id = t.id => s = t
      BY <3>6, <3>7, <3>9
    <3>12. \A c \in captures : /\ c.id \in Nat /\ c.id <= n + 1 /\ c.root \in Roots
                               /\ c.at \in Int /\ c.used \in Int
      BY <3>9
    <3>. QED
      BY <3>2, <3>3, <3>8, <3>9, <3>10, <3>11, <3>12, Zenon DEF TrendInv
  <2>4. CASE Capture
    <3>1. PICK used \in Uses \union {Failed}, root \in Roots, at \in Times :
            /\ captures' = captures \union
                              {[id |-> Count + 1, root |-> root, at |-> at, used |-> used]}
            /\ taken' = [taken EXCEPT ![root] = @ + 1]
      BY <2>4 DEF Capture
    <3>2. samples' = samples
      BY <2>4 DEF Capture
    <3>3. Count \in Nat /\ Count' = Count + 1 /\ taken' \in [Roots -> Nat]
      BY <2>1, <3>1, CountGrows DEF TrendInv, Count
    <3>4. PICK n \in Nat : n = Count
      BY <3>3
    <3>5. PICK new : new = [id |-> n + 1, root |-> root, at |-> at, used |-> used]
      OBVIOUS
    <3>6. new.id = n + 1 /\ new.root \in Roots /\ new.at \in Int /\ new.used \in Int
      BY <3>1, <3>4, <3>5, TrendsAssumption DEF Failed, Times
    <3>7. captures' = captures \union {new}
      BY <3>1, <3>4, <3>5
    <3>8. IsFiniteSet(captures')
      BY <2>1, <3>7, FS_AddElement DEF TrendInv
    <3>9. /\ \A s \in samples : s.id \in Nat /\ s.id <= n /\ s.at \in Int /\ s.disk \in Nat
          /\ \A s, t \in samples : s.id = t.id => s = t
          /\ \A c \in captures : /\ c.id \in Nat /\ c.id <= n /\ c.root \in Roots
                                 /\ c.at \in Int /\ c.used \in Int
          /\ \A c, d \in captures : c.id = d.id => c = d
          /\ IsFiniteSet(samples)
      BY <2>1, <3>4, Zenon DEF TrendInv
    <3>10. Count' = n + 1
      BY <3>3, <3>4
    <3>11. /\ \A c \in captures' : /\ c.id \in Nat /\ c.id <= n + 1 /\ c.root \in Roots
                                   /\ c.at \in Int /\ c.used \in Int
           /\ \A c, d \in captures' : c.id = d.id => c = d
      BY <3>6, <3>7, <3>9
    <3>12. \A s \in samples : s.id \in Nat /\ s.id <= n + 1 /\ s.at \in Int /\ s.disk \in Nat
      BY <3>9
    <3>. QED
      BY <3>2, <3>3, <3>8, <3>9, <3>10, <3>11, <3>12, Zenon DEF TrendInv
  <2>5. CASE UNCHANGED trendVars
    <3>1. samples' = samples /\ captures' = captures /\ taken' = taken /\ Count' = Count
      BY <2>5 DEF trendVars, Count
    <3>. QED
      BY <2>1, <3>1, Zenon DEF TrendInv
  <2>. QED
    BY <2>1, <2>3, <2>4, <2>5 DEF TrendNext
<1>. QED
  BY <1>1, <1>2, PTL DEF TrendSpec

\* Rows ordered by one number, and by another that no two share where the first
\* agrees, are in a strict total order.
LEMMA LexicographicOrder ==
  ASSUME NEW S, NEW k, NEW l, \A s \in S : k[s] \in Int /\ l[s] \in Int,
         \A s, t \in S : l[s] = l[t] => s = t, NEW before,
         \A s, t \in S : <<s, t>> \in before <=> k[s] < k[t] \/ (k[s] = k[t] /\ l[s] < l[t])
  PROVE  IsOrder(before, S)
<1>1. \A s \in S : <<s, s>> \notin before
  OBVIOUS
<1>2. \A s, t, u \in S : <<s, t>> \in before /\ <<t, u>> \in before => <<s, u>> \in before
  OBVIOUS
<1>3. \A s, t \in S : s # t => <<s, t>> \in before \/ <<t, s>> \in before
  <2>1. SUFFICES ASSUME NEW s \in S, NEW t \in S, s # t
                 PROVE  <<s, t>> \in before \/ <<t, s>> \in before
    OBVIOUS
  <2>2. l[s] # l[t] /\ l[s] \in Int /\ l[t] \in Int /\ k[s] \in Int /\ k[t] \in Int
    BY <2>1
  <2>3. \/ k[s] < k[t] \/ (k[s] = k[t] /\ l[s] < l[t])
        \/ k[t] < k[s] \/ (k[t] = k[s] /\ l[t] < l[s])
    BY <2>2
  <2>. QED
    BY <2>3
<1>. QED
  BY <1>1, <1>2, <1>3, Zenon DEF IsOrder

\* The first of an ordered list is the one that comes before all others, and the last
\* the one that comes after them.
LEMMA EndsOfList ==
  ASSUME NEW S, NEW before, IsOrder(before, S),
         NEW N \in Nat, N >= 1, NEW list, \A i \in 1 .. N : list[i] \in S,
         \A s \in S : \E i \in 1 .. N : s = list[i],
         \A i, j \in 1 .. N : i < j => <<list[i], list[j]>> \in before
  PROVE  /\ list[1] \in S /\ list[N] \in S
         /\ \A t \in S : t = list[1] \/ <<list[1], t>> \in before
         /\ \A t \in S : t = list[N] \/ <<t, list[N]>> \in before
<1>1. 1 \in 1 .. N /\ N \in 1 .. N
  OBVIOUS
<1>2. \A i \in 1 .. N : /\ i = 1 \/ <<list[1], list[i]>> \in before
                        /\ i = N \/ <<list[i], list[N]>> \in before
  BY <1>1
<1>. QED
  BY <1>1, <1>2

\* Where one root lies on a filesystem, the change of its use is that from the earliest
\* capture of the window that succeeded to the latest, whichever others failed and
\* however the clock was set between them.
THEOREM PressureIsChange == TrendSpec => []PressureOverWindow
<1>1. ASSUME TrendInv PROVE PressureOverWindow
  <2>. DEFINE good == {c \in captures : c.used # Failed}
              before == {x \in good \X good : CaptureBefore(x[1], x[2])}
              id == [c \in good |-> c.id]
              at == [c \in good |-> c.at]
  <2>1. SUFFICES ASSUME good # {}, Cardinality({c.root : c \in captures}) = 1
                 PROVE  Pressure.delta =
                          (CHOOSE c \in good : \A d \in good \ {c} : SampleBefore(d, c)).used
                            - (CHOOSE c \in good : \A d \in good \ {c} :
                                 SampleBefore(c, d)).used
    BY Zenon DEF PressureOverWindow
  <2>2. IsFiniteSet(good)
    BY <1>1, FS_Subset DEF TrendInv
  <2>3. \A c, d \in good : c.root = d.root
    <3>. DEFINE R == {c.root : c \in captures}
    <3>1. IsFiniteSet(R)
      <4>1. R \subseteq Roots
        BY <1>1 DEF TrendInv
      <4>. QED
        BY <4>1, TrendsAssumption, FS_Subset
    <3>2. \A c \in good : c.root \in R
      OBVIOUS
    <3>3. Cardinality(R) = 1
      BY <2>1
    <3>. HIDE DEF R
    <3>4. \E x : R = {x}
      BY <3>1, <3>3, FS_Singleton
    <3>. QED
      BY <3>2, <3>4
  <2>4. \A c \in good : c.id \in Nat /\ c.at \in Int /\ c.root \in Nat
    BY <1>1, TrendsAssumption DEF TrendInv
  <2>5. \A c, d \in good : c.id = d.id => c = d
    BY <1>1, Zenon DEF TrendInv
  <2>6. \A c \in good : id[c] = c.id /\ at[c] = c.at
    OBVIOUS
  <2>7. \A c, d \in good : <<c, d>> \in before <=> SampleBefore(c, d)
    <3>1. SUFFICES ASSUME NEW c \in good, NEW d \in good
                   PROVE  <<c, d>> \in before <=> SampleBefore(c, d)
      OBVIOUS
    <3>2. <<c, d>> \in before <=> CaptureBefore(c, d)
      OBVIOUS
    <3>3. c.root = d.root /\ c.root \in Nat
      BY <2>3, <2>4
    <3>. QED
      BY <3>2, <3>3 DEF CaptureBefore
  <2>8. UsedSamples = [n \in DOMAIN SortedBy(good, before) |-> SortedBy(good, before)[n].used]
    BY Zenon DEF UsedSamples, OrderedCaptures
  <2>. HIDE DEF good, before, id, at
  <2>9. IsOrder(before, good)
    <3>1. \A c \in good : at[c] \in Int /\ id[c] \in Int
      BY <2>4, <2>6
    <3>2. \A c, d \in good : id[c] = id[d] => c = d
      BY <2>5, <2>6, Zenon
    <3>3. \A c, d \in good :
            <<c, d>> \in before <=> at[c] < at[d] \/ (at[c] = at[d] /\ id[c] < id[d])
      BY <2>6, <2>7, Zenon DEF SampleBefore
    <3>. QED
      BY <3>1, <3>2, <3>3, LexicographicOrder
  <2>10. PICK list : list = SortedBy(good, before)
    OBVIOUS
  <2>11. /\ list \in Seq(good) /\ Range(list) = good
         /\ \A i, j \in 1 .. Len(list) : i < j => <<list[i], list[j]>> \in before
    BY <2>2, <2>9, <2>10, SortedIs
  <2>12. PICK N \in Nat : N = Len(list) /\ DOMAIN list = 1 .. N
    BY <2>11, LenProperties
  <2>13. \A i \in 1 .. N : list[i] \in good
    BY <2>11, <2>12, ElementOfSeq
  <2>14. \A c \in good : \E i \in 1 .. N : c = list[i]
    BY <2>11, <2>12, Zenon DEF Range
  <2>15. \A i, j \in 1 .. N : i < j => <<list[i], list[j]>> \in before
    BY <2>11, <2>12, Zenon
  <2>16. N >= 1
    BY <2>1, <2>14
  <2>17. /\ list[1] \in good /\ list[N] \in good
         /\ \A d \in good : d = list[1] \/ <<list[1], d>> \in before
         /\ \A d \in good : d = list[N] \/ <<d, list[N]>> \in before
    BY <2>9, <2>13, <2>14, <2>15, <2>16, EndsOfList
  <2>18. \A c, d \in good : ~ (SampleBefore(c, d) /\ SampleBefore(d, c))
    BY <2>4 DEF SampleBefore
  <2>19. /\ list[1] = CHOOSE c \in good : \A d \in good \ {c} : SampleBefore(c, d)
         /\ list[N] = CHOOSE c \in good : \A d \in good \ {c} : SampleBefore(d, c)
    <3>1. /\ \A d \in good \ {list[1]} : SampleBefore(list[1], d)
          /\ \A d \in good \ {list[N]} : SampleBefore(d, list[N])
      BY <2>7, <2>17
    <3>2. \A c \in good : (\A d \in good \ {c} : SampleBefore(c, d)) => c = list[1]
      BY <2>17, <2>18, <3>1
    <3>3. \A c \in good : (\A d \in good \ {c} : SampleBefore(d, c)) => c = list[N]
      BY <2>17, <2>18, <3>1
    <3>. QED
      BY <2>17, <3>1, <3>2, <3>3, Zenon
  <2>20. PICK used : used = UsedSamples
    OBVIOUS
  <2>21. used = [n \in 1 .. N |-> list[n].used]
    BY <2>8, <2>10, <2>12, <2>20, Zenon
  <2>22. Len(used) = N /\ used # <<>> /\ used[1] = list[1].used /\ used[N] = list[N].used
    BY <2>16, <2>21
  <2>23. Pressure.delta = used[N] - used[1]
    BY <2>20, <2>22 DEF Pressure, Last
  <2>. QED
    BY <2>19, <2>22, <2>23, Zenon
<1>. QED
  BY <1>1, TrendInvariance, PTL

--------------------------------------------------------------------------------
(* Jumps and bursts *)

\* Half of the sum of two numbers, rounded as Python rounds it, lies between bounds
\* that both keep.
LEMMA HalfBetween ==
  ASSUME NEW B \in Nat, NEW x \in Nat, NEW y \in Nat, 1 <= x, x <= B, 1 <= y, y <= B
  PROVE  HalfEven(x + y) \in Nat /\ 1 <= HalfEven(x + y) /\ HalfEven(x + y) <= B
<1>1. PICK n \in Nat : n = x + y
  OBVIOUS
<1>2. PICK h \in Nat : h = n \div 2
  BY <1>1
<1>3. (n = 2 * h /\ n % 2 = 0) \/ (n = 2 * h + 1 /\ n % 2 = 1)
  BY <1>1, <1>2
<1>4. 1 <= h /\ (n = 2 * h => h <= B) /\ (n = 2 * h + 1 => h + 1 <= B)
  BY <1>1, <1>2, <1>3
<1>5. HalfEven(n) = IF n % 2 = 0 \/ h % 2 = 0 THEN h ELSE h + 1
  BY <1>2, Zenon DEF HalfEven
<1>6. h <= B /\ (n % 2 # 0 => h + 1 <= B)
  BY <1>3, <1>4
<1>7. HalfEven(n) = h \/ (HalfEven(n) = h + 1 /\ h + 1 <= B)
  BY <1>5, <1>6
<1>. QED
  BY <1>1, <1>2, <1>4, <1>6, <1>7

\* The median lies between bounds that all values keep.
LEMMA MedianBetween ==
  ASSUME NEW B \in Nat, NEW values \in Seq(Nat), Len(values) >= 1,
         \A i \in 1 .. Len(values) : 1 <= values[i] /\ values[i] <= B
  PROVE  MedianInt(values) \in Nat /\ 1 <= MedianInt(values) /\ MedianInt(values) <= B
<1>1. PICK n \in Nat : n = Len(values)
  OBVIOUS
<1>2. n >= 1 /\ \A i \in 1 .. n : values[i] \in Nat /\ 1 <= values[i] /\ values[i] <= B
  BY <1>1, ElementOfSeq
<1>3. PICK mid \in Nat : mid = n \div 2
  BY <1>1
<1>4. (n = 2 * mid /\ n % 2 = 0) \/ (n = 2 * mid + 1 /\ n % 2 = 1)
  BY <1>1, <1>3
<1>5. MedianInt(values) =
        IF n % 2 = 1 THEN values[mid + 1] ELSE HalfEven(values[mid] + values[mid + 1])
  BY <1>1, <1>3, Zenon DEF MedianInt
<1>6. CASE n % 2 = 1
  <2>1. mid + 1 \in 1 .. n /\ MedianInt(values) = values[mid + 1]
    BY <1>2, <1>4, <1>5, <1>6
  <2>. QED
    BY <1>2, <2>1, Zenon
<1>7. CASE n % 2 # 1
  <2>1. mid \in 1 .. n /\ mid + 1 \in 1 .. n
    BY <1>2, <1>4, <1>7
  <2>2. MedianInt(values) = HalfEven(values[mid] + values[mid + 1])
    BY <1>5, <1>7, Zenon
  <2>3. PICK x \in Nat : x = values[mid] /\ 1 <= x /\ x <= B
    BY <1>2, <2>1
  <2>4. PICK y \in Nat : y = values[mid + 1] /\ 1 <= y /\ y <= B
    BY <1>2, <2>1
  <2>5. MedianInt(values) = HalfEven(x + y)
    BY <2>2, <2>3, <2>4, Zenon
  <2>. QED
    BY <2>3, <2>4, <2>5, HalfBetween
<1>. QED
  BY <1>6, <1>7

\* The rises of a window as a list, the smallest first, the later of two equal ones
\* behind the earlier.
LEMMA RisesInOrder ==
  ASSUME NEW deltas, IsFiniteSet(DOMAIN deltas), DOMAIN deltas \subseteq Nat,
         \A n \in DOMAIN deltas : deltas[n] \in Int
  PROVE  \E order \in Seq(Rising(deltas)) :
           /\ Range(order) = Rising(deltas) /\ Len(order) = Cardinality(Rising(deltas))
           /\ Ascending(deltas) = [k \in DOMAIN order |-> deltas[order[k]]]
           /\ \A i, j \in 1 .. Len(order) : i < j => DeltaBefore(deltas, order[i], order[j])
<1>. DEFINE R == Rising(deltas)
            before == {x \in R \X R : DeltaBefore(deltas, x[1], x[2])}
            self == [n \in R |-> n]
            order == SortedBy(R, before)
            nth(n) == CHOOSE s \in R : Cardinality({t \in R : <<t, s>> \in before}) = n - 1
<1>1. IsFiniteSet(R) /\ \A n \in R : n \in Nat /\ deltas[n] \in Int
  BY FS_Subset DEF Rising
<1>2. \A m, n \in R : <<m, n>> \in before <=> DeltaBefore(deltas, m, n)
  OBVIOUS
<1>3. \A n \in R : self[n] = n
  OBVIOUS
<1>4. Ascending(deltas) = [k \in DOMAIN order |-> deltas[order[k]]]
  BY Zenon DEF Ascending
<1>5. order = [n \in 1 .. Cardinality(R) |-> nth(n)]
  BY Zenon DEF SortedBy
<1>6. Len(order) = Cardinality(R)
  <2>1. PICK N \in Nat : N = Cardinality(R)
    BY <1>1, FS_CardinalityType
  <2>. HIDE DEF R, order, nth
  <2>2. order = [n \in 1 .. N |-> nth(n)]
    BY <1>5, <2>1, Zenon
  <2>3. Len(order) = N
    BY <2>2
  <2>. QED
    BY <2>1, <2>3
<1>. HIDE DEF R, before, self, order, nth
<1>7. IsOrder(before, R)
  <2>1. \A m \in R : deltas[m] \in Int /\ self[m] \in Int
    BY <1>1, <1>3
  <2>2. \A m, n \in R : self[m] = self[n] => m = n
    BY <1>3, Zenon
  <2>3. ASSUME NEW m \in R, NEW n \in R
        PROVE  <<m, n>> \in before <=>
                 deltas[m] < deltas[n] \/ (deltas[m] = deltas[n] /\ self[m] < self[n])
    <3>1. <<m, n>> \in before <=> DeltaBefore(deltas, m, n)
      BY <1>2
    <3>2. self[m] = m /\ self[n] = n
      BY <1>3
    <3>. QED
      BY <3>1, <3>2, Zenon DEF DeltaBefore
  <2>. QED
    BY <2>1, <2>2, <2>3, LexicographicOrder
<1>8. PICK list : list = order
  OBVIOUS
<1>9. /\ list \in Seq(R) /\ Range(list) = R
      /\ \A i, j \in 1 .. Len(list) : i < j => <<list[i], list[j]>> \in before
  BY <1>1, <1>7, <1>8, SortedIs DEF order
<1>10. \A i, j \in 1 .. Len(list) : i < j => DeltaBefore(deltas, list[i], list[j])
  <2>1. \A i \in 1 .. Len(list) : list[i] \in R
    BY <1>9, ElementOfSeq
  <2>. QED
    BY <1>2, <1>9, <2>1
<1>11. Ascending(deltas) = [k \in DOMAIN list |-> deltas[list[k]]] /\ Len(list) = Cardinality(R)
  BY <1>4, <1>6, <1>8, Zenon
<1>. QED
  BY <1>9, <1>10, <1>11, Zenon DEF R

\* The last of the list is the largest rise and the latest of that size; with the one
\* before it, it is at most all that the directory grew.
LEMMA LargestRise ==
  ASSUME NEW deltas, IsFiniteSet(DOMAIN deltas), DOMAIN deltas \subseteq Nat,
         \A n \in DOMAIN deltas : deltas[n] \in Int,
         NEW N \in Nat, N >= 1, NEW order, \A i \in 1 .. N : order[i] \in Rising(deltas),
         \A r \in Rising(deltas) : \E i \in 1 .. N : r = order[i],
         \A i, j \in 1 .. N : i < j => DeltaBefore(deltas, order[i], order[j])
  PROVE  /\ Max({deltas[n] : n \in Rising(deltas)}) = deltas[order[N]]
         /\ Max({n \in Rising(deltas) : deltas[n] = deltas[order[N]]}) = order[N]
         /\ GrossPositive(deltas) \in Nat
         /\ N >= 2 => deltas[order[N]] + deltas[order[N - 1]] <= GrossPositive(deltas)
<1>. DEFINE R == Rising(deltas)
            last == order[N]
<1>1. IsFiniteSet(R) /\ \A n \in R : n \in Nat /\ deltas[n] \in Nat /\ deltas[n] >= 1
  BY FS_Subset DEF Rising
<1>2. last \in R
  OBVIOUS
<1>. HIDE DEF last
<1>3. \A r \in R : r = last \/ DeltaBefore(deltas, r, last)
  BY DEF last
<1>. HIDE DEF R
<1>4. \A r \in R : deltas[r] <= deltas[last] /\ (deltas[r] = deltas[last] => r <= last)
  BY <1>1, <1>2, <1>3 DEF DeltaBefore
<1>5. Max({deltas[n] : n \in R}) = deltas[last]
  <2>. DEFINE V == {deltas[n] : n \in R}
  <2>1. deltas[last] \in V /\ \A v \in V : v \in Nat /\ deltas[last] >= v
    BY <1>1, <1>2, <1>4
  <2>. HIDE DEF V
  <2>2. \A v \in V : (\A w \in V : v >= w) => v = deltas[last]
    BY <2>1
  <2>. QED
    BY <2>1, <2>2, Zenon DEF Max, V
<1>6. Max({n \in R : deltas[n] = deltas[last]}) = last
  <2>. DEFINE V == {n \in R : deltas[n] = deltas[last]}
  <2>1. last \in V /\ \A v \in V : v \in Nat /\ last >= v
    BY <1>1, <1>2, <1>4
  <2>. HIDE DEF V
  <2>2. \A v \in V : (\A w \in V : v >= w) => v = last
    BY <2>1
  <2>. QED
    BY <2>1, <2>2, Zenon DEF Max, V
<1>7. GrossPositive(deltas) = SumFunctionOnSet(deltas, R)
  BY Zenon DEF GrossPositive, R
<1>8. SumFunctionOnSet(deltas, R) \in Nat
  BY <1>1, SumNat
<1>9. ASSUME N >= 2 PROVE deltas[last] + deltas[order[N - 1]] <= SumFunctionOnSet(deltas, R)
  <2>1. PICK prior \in R : prior = order[N - 1] /\ prior # last
    <3>1. N - 1 \in 1 .. N /\ N \in 1 .. N /\ N - 1 < N
      BY <1>9
    <3>2. order[N - 1] \in R
      BY <3>1 DEF R
    <3>3. DeltaBefore(deltas, order[N - 1], last)
      BY <3>1 DEF last
    <3>4. order[N - 1] # last
      BY <1>1, <1>2, <3>3 DEF DeltaBefore
    <3>. QED
      BY <3>2, <3>4
  <2>. DEFINE T == {last, prior}
  <2>2. IsFiniteSet(T) /\ T \in SUBSET R /\ last \in T /\ T \ {last} = {prior}
    BY <1>1, <1>2, <2>1, FS_Subset
  <2>. HIDE DEF T
  <2>3. \A x \in T : deltas[x] \in Int
    BY <1>1, <2>2
  <2>4. SumFunctionOnSet(deltas, T) = deltas[last] + SumFunctionOnSet(deltas, T \ {last})
    BY <2>2, <2>3, SumRemove
  <2>5. SumFunctionOnSet(deltas, {prior}) = deltas[prior]
    <3>1. deltas[prior] \in Int
      BY <1>1, <2>1
    <3>. QED
      BY <3>1, SumSingle
  <2>6. SumFunctionOnSet(deltas, T) <= SumFunctionOnSet(deltas, R)
    BY <1>1, <2>2, SumMonotone
  <2>. QED
    BY <2>1, <2>2, <2>4, <2>5, <2>6, Zenon
<1>. QED
  BY <1>5, <1>6, <1>7, <1>8, <1>9, Zenon DEF R, last

\* The intervals between the samples, in the order of their times, have whole numbers
\* as their changes.
LEMMA DeltasTyped ==
  ASSUME TrendInv
  PROVE  LET deltas == DiskDeltas(OrderedSamples)
         IN  /\ IsFiniteSet(DOMAIN deltas) /\ DOMAIN deltas \subseteq Nat
             /\ \A n \in DOMAIN deltas : deltas[n] \in Int
<1>. DEFINE before == {x \in samples \X samples : SampleBefore(x[1], x[2])}
            id == [s \in samples |-> s.id]
            at == [s \in samples |-> s.at]
<1>1. IsFiniteSet(samples) /\ \A s \in samples : s.disk \in Nat
  BY DEF TrendInv
<1>2. \A s \in samples : id[s] \in Int /\ at[s] \in Int /\ id[s] = s.id /\ at[s] = s.at
  BY DEF TrendInv
<1>3. \A s, t \in samples : s.id = t.id => s = t
  BY Zenon DEF TrendInv
<1>4. \A s, t \in samples :
        <<s, t>> \in before <=> at[s] < at[t] \/ (at[s] = at[t] /\ id[s] < id[t])
  BY <1>2 DEF SampleBefore
<1>5. OrderedSamples = SortedBy(samples, before)
  BY Zenon DEF OrderedSamples
<1>. HIDE DEF before, id, at
<1>6. \A s, t \in samples : id[s] = id[t] => s = t
  BY <1>2, <1>3, Zenon
<1>7. IsOrder(before, samples)
  <2>1. \A s \in samples : at[s] \in Int /\ id[s] \in Int
    BY <1>2, Zenon
  <2>. QED
    BY <1>4, <1>6, <2>1, LexicographicOrder
<1>8. PICK list : list = OrderedSamples
  OBVIOUS
<1>9. list \in Seq(samples)
  BY <1>1, <1>5, <1>7, <1>8, SortedIs
<1>10. PICK N \in Nat : N = Len(list)
  BY <1>9
<1>11. \A i \in 1 .. N : list[i].disk \in Nat
  BY <1>1, <1>9, <1>10, ElementOfSeq
<1>12. DiskDeltas(list) = [n \in 1 .. N - 1 |-> list[n + 1].disk - list[n].disk]
  BY <1>10, Zenon DEF DiskDeltas
<1>13. PICK deltas : deltas = DiskDeltas(list)
  OBVIOUS
<1>14. /\ DOMAIN deltas = 1 .. N - 1
       /\ \A n \in 1 .. N - 1 : deltas[n] = list[n + 1].disk - list[n].disk
  BY <1>12, <1>13
<1>15. \A n \in 1 .. N - 1 : n \in 1 .. N /\ n + 1 \in 1 .. N
  OBVIOUS
<1>16. \A n \in 1 .. N - 1 : deltas[n] \in Int
  <2>1. SUFFICES ASSUME NEW n \in 1 .. N - 1 PROVE deltas[n] \in Int
    OBVIOUS
  <2>2. list[n].disk \in Nat /\ list[n + 1].disk \in Nat
    BY <1>11, <1>15, Zenon
  <2>3. deltas[n] = list[n + 1].disk - list[n].disk
    BY <1>14
  <2>. QED
    BY <2>2, <2>3
<1>17. IsFiniteSet(1 .. N - 1) /\ 1 .. N - 1 \subseteq Nat
  BY FS_Interval
<1>. QED
  BY <1>8, <1>13, <1>14, <1>16, <1>17, Zenon

\* The values before the last of a list of positive numbers that does not fall have
\* a median between one and the last but one.
LEMMA MedianOfOthers ==
  ASSUME NEW rises \in Seq(Nat), NEW N \in Nat, N >= 2, Len(rises) = N,
         \A i \in 1 .. N : rises[i] >= 1,
         \A i, j \in 1 .. N : i < j => rises[i] <= rises[j]
  PROVE  LET median == MedianInt(Front(rises))
         IN  median \in Nat /\ 1 <= median /\ median <= rises[N - 1]
<1>1. \A i \in 1 .. N : rises[i] \in Nat
  BY ElementOfSeq
<1>2. PICK front : front = Front(rises)
  OBVIOUS
<1>3. front = SubSeq(rises, 1, N - 1)
  BY <1>1, <1>2, Zenon DEF Front
<1>4. PICK M \in Nat : M = N - 1 /\ 1 <= M
  OBVIOUS
<1>5. \A i \in 1 .. M : rises[i] \in Nat
  BY <1>1, <1>4
<1>6. front \in Seq(Nat) /\ Len(front) = M /\ \A i \in 1 .. M : front[i] = rises[i]
  <2>1. /\ SubSeq(rises, 1, M) \in Seq(Nat)
        /\ Len(SubSeq(rises, 1, M)) = IF 1 <= M THEN M - 1 + 1 ELSE 0
        /\ \A i \in 1 .. M - 1 + 1 : SubSeq(rises, 1, M)[i] = rises[1 + i - 1]
    BY <1>4, <1>5, SubSeqProperties
  <2>2. M - 1 + 1 = M /\ \A i \in 1 .. M : 1 + i - 1 = i /\ i \in 1 .. N
    BY <1>4
  <2>3. front = SubSeq(rises, 1, M)
    BY <1>3, <1>4, Zenon
  <2>4. /\ front \in Seq(Nat) /\ Len(front) = IF 1 <= M THEN M ELSE 0
        /\ \A i \in 1 .. M : front[i] = rises[i]
    BY <2>1, <2>2, <2>3, Zenon
  <2>. QED
    BY <1>1, <1>4, <2>2, <2>4
<1>7. \A i \in 1 .. M : 1 <= rises[i] /\ rises[i] <= rises[M]
  <2>1. SUFFICES ASSUME NEW i \in 1 .. M PROVE 1 <= rises[i] /\ rises[i] <= rises[M]
    OBVIOUS
  <2>2. i \in 1 .. N /\ M \in 1 .. N /\ (i = M \/ i < M)
    BY <1>4
  <2>3. rises[i] \in Nat /\ rises[M] \in Nat /\ rises[i] >= 1
    BY <2>2
  <2>4. i < M => rises[i] <= rises[M]
    BY <2>2
  <2>. QED
    BY <2>2, <2>3, <2>4
<1>8. PICK top \in Nat : top = rises[M]
  BY <1>4
<1>9. Len(front) >= 1 /\ \A i \in 1 .. Len(front) : 1 <= front[i] /\ front[i] <= top
  BY <1>4, <1>6, <1>7, <1>8
<1>10. MedianInt(front) \in Nat /\ 1 <= MedianInt(front) /\ MedianInt(front) <= top
  BY <1>6, <1>9, MedianBetween
<1>. QED
  BY <1>2, <1>4, <1>8, <1>10, Zenon

\* What is classified as a one-time jump is shown as a burst: the interval that
\* investigate points at holds three quarters of the growth or more, and where
\* there are other rises it is at least three times the median of them.
THEOREM JumpsAreBursts == TrendSpec => []JumpIsBurst
<1>1. ASSUME TrendInv PROVE JumpIsBurst
  <2>1. PICK deltas : deltas = DiskDeltas(OrderedSamples)
    OBVIOUS
  <2>2. SUFFICES ASSUME samples # {}, Metrics.shape = "one_time_jump"
                 PROVE  /\ 4 * deltas[LargestGrowth(deltas)] >= 3 * Metrics.positive
                        /\ Rises >= 2 => /\ BurstRatio.median > 0
                                         /\ BurstRatio.largest >= 3 * BurstRatio.median
    BY <2>1, Zenon DEF JumpIsBurst
  <2>3. /\ IsFiniteSet(DOMAIN deltas) /\ DOMAIN deltas \subseteq Nat
        /\ \A n \in DOMAIN deltas : deltas[n] \in Int
    BY <1>1, <2>1, DeltasTyped, Zenon
  <2>4. Metrics.positive = GrossPositive(deltas)
    BY <2>1 DEF Metrics
  <2>5. IsOneTimeJump(deltas, GrossPositive(deltas))
    <3>1. PICK seq : seq = OrderedSamples
      OBVIOUS
    <3>2. PICK net, end : Metrics.shape = IF Len(seq) < 3 THEN "unknown_insufficient_samples"
                                          ELSE Shape(deltas, net, end)
      BY <2>1, <3>1 DEF Metrics
    <3>3. Shape(deltas, net, end) = "one_time_jump"
      BY <2>2, <3>2
    <3>. QED
      BY <3>3 DEF Shape
  <2>6. PICK order \in Seq(Rising(deltas)) :
          /\ Range(order) = Rising(deltas) /\ Len(order) = Cardinality(Rising(deltas))
          /\ Ascending(deltas) = [k \in DOMAIN order |-> deltas[order[k]]]
          /\ \A i, j \in 1 .. Len(order) : i < j => DeltaBefore(deltas, order[i], order[j])
    BY <2>3, RisesInOrder
  <2>7. PICK N \in Nat : N = Len(order) /\ DOMAIN order = 1 .. N
    BY <2>6, LenProperties
  <2>8. /\ \A i \in 1 .. N : order[i] \in Rising(deltas)
        /\ \A r \in Rising(deltas) : \E i \in 1 .. N : r = order[i]
        /\ \A i, j \in 1 .. N : i < j => DeltaBefore(deltas, order[i], order[j])
    <3>1. \A i \in 1 .. N : order[i] \in Rising(deltas)
      BY <2>6, <2>7, ElementOfSeq
    <3>2. \A r \in Rising(deltas) : \E i \in 1 .. N : r = order[i]
      BY <2>6, <2>7, Zenon DEF Range
    <3>. QED
      BY <2>6, <2>7, <3>1, <3>2, Zenon
  <2>9. N >= 1
    <3>1. SUFFICES ASSUME N = 0 PROVE FALSE
      OBVIOUS
    <3>2. Rising(deltas) = {}
      BY <2>8, <3>1
    <3>3. GrossPositive(deltas) = 0
      BY <3>2, SumEmpty, Zenon DEF GrossPositive
    <3>. QED
      BY <2>5, <3>3 DEF IsOneTimeJump
  <2>10. /\ Max({deltas[n] : n \in Rising(deltas)}) = deltas[order[N]]
         /\ Max({n \in Rising(deltas) : deltas[n] = deltas[order[N]]}) = order[N]
         /\ GrossPositive(deltas) \in Nat
         /\ N >= 2 => deltas[order[N]] + deltas[order[N - 1]] <= GrossPositive(deltas)
    BY <2>3, <2>8, <2>9, LargestRise
  <2>11. PICK gp \in Nat : gp = GrossPositive(deltas)
    BY <2>10
  <2>12. \A i \in 1 .. N : deltas[order[i]] \in Nat /\ deltas[order[i]] >= 1
    BY <2>3, <2>8 DEF Rising
  <2>13. PICK jump \in Nat : jump = deltas[order[N]]
    BY <2>9, <2>12
  <2>14. 4 * jump >= 3 * gp
    BY <2>5, <2>10, <2>11, <2>13, Zenon DEF IsOneTimeJump
  <2>15. deltas[LargestGrowth(deltas)] = jump
    <3>1. LargestGrowth(deltas) =
            Max({n \in Rising(deltas) : deltas[n] = Max({deltas[m] : m \in Rising(deltas)})})
      BY Zenon DEF LargestGrowth
    <3>2. LargestGrowth(deltas) = order[N]
      BY <2>10, <3>1, Zenon
    <3>. QED
      BY <2>13, <3>2, Zenon
  <2>16. 4 * deltas[LargestGrowth(deltas)] >= 3 * Metrics.positive
    BY <2>4, <2>11, <2>14, <2>15, Zenon
  <2>17. ASSUME Rises >= 2
         PROVE  BurstRatio.median > 0 /\ BurstRatio.largest >= 3 * BurstRatio.median
    <3>1. N >= 2
      BY <2>1, <2>6, <2>7, <2>17 DEF Rises
    <3>2. PICK rises : rises = Ascending(deltas)
      OBVIOUS
    <3>3. rises = [k \in 1 .. N |-> deltas[order[k]]]
      BY <2>6, <2>7, <3>2, Zenon
    <3>4. rises \in Seq(Nat) /\ Len(rises) = N /\ \A i \in 1 .. N : rises[i] = deltas[order[i]]
      BY <2>12, <3>3
    <3>5. \A i \in 1 .. N : rises[i] >= 1
      BY <2>12, <3>4
    <3>6. \A i, j \in 1 .. N : i < j => rises[i] <= rises[j]
      <4>1. SUFFICES ASSUME NEW i \in 1 .. N, NEW j \in 1 .. N, i < j
                     PROVE  deltas[order[i]] <= deltas[order[j]]
        BY <3>4
      <4>2. DeltaBefore(deltas, order[i], order[j])
        BY <2>8, <4>1
      <4>3. deltas[order[i]] \in Nat /\ deltas[order[j]] \in Nat
        BY <2>12
      <4>. QED
        BY <4>2, <4>3 DEF DeltaBefore
    <3>7. PICK prior \in Nat : prior = deltas[order[N - 1]] /\ prior = rises[N - 1]
      <4>1. N - 1 \in 1 .. N
        BY <3>1
      <4>. QED
        BY <2>12, <3>4, <4>1
    <3>8. jump + prior <= gp
      BY <2>10, <2>11, <2>13, <3>1, <3>7
    <3>9. jump >= 3 * prior
      BY <2>14, <3>8
    <3>10. Len(rises) = N /\ rises[N] = jump
      BY <2>9, <2>13, <3>4
    <3>11. PICK median \in Nat : median = MedianInt(Front(rises)) /\ 1 <= median /\ median <= prior
      BY <3>1, <3>4, <3>5, <3>6, <3>7, MedianOfOthers
    <3>12. BurstRatio.largest = Last(rises) /\ BurstRatio.median = MedianInt(Front(rises))
      BY <2>1, <3>2 DEF BurstRatio
    <3>13. BurstRatio.largest = jump /\ BurstRatio.median = median
      BY <3>10, <3>11, <3>12, Zenon DEF Last
    <3>. QED
      BY <3>9, <3>11, <3>13
  <2>. QED
    BY <2>16, <2>17
<1>. QED
  BY <1>1, TrendInvariance, PTL
================================================================================
