--------------------------- MODULE SnapshotDiffProofs ---------------------------
(***************************************************************************)
(* What the reports make of a pair of scans, for every tree, every choice  *)
(* of folded directories and every limit.                                  *)
(***************************************************************************)
EXTENDS PathHistory, SharedTheorems

--------------------------------------------------------------------------------
(* Scans *)

\* What a tree is.
LEMMA TreeIs ==
  ASSUME NEW tree, IsTree(tree)
  PROVE  /\ tree \in [DOMAIN tree -> [disk : Nat, apparent : Nat]]
         /\ IsFiniteSet(DOMAIN tree) /\ DOMAIN tree \subseteq Seq(Nat)
         /\ \A p \in DOMAIN tree : Ancestors(p) \subseteq DOMAIN tree
BY DEF IsTree, Sizes

\* What a scan reads of a tree is a tree.
LEMMA ReadIsTree ==
  ASSUME NEW tree \in Trees, NEW miss \in Misses
  PROVE  IsTree(ReadOf(tree, miss))
<1>1. PICK read : read = ReadOf(tree, miss)
  OBVIOUS
<1>2. PICK out : out = miss.absent \union miss.virtual
  OBVIOUS
<1>3. IsTree(tree) /\ miss.cut \in [DOMAIN miss.cut -> Sizes]
  BY TreesAssumption, MissesAssumption DEF IsMiss
<1>4. DOMAIN read = {q \in DOMAIN tree : UpTo(q) \intersect out = {}}
  BY <1>1, <1>2 DEF ReadOf
<1>5. \A p \in DOMAIN read : read[p] = IF p \in DOMAIN miss.cut THEN miss.cut[p] ELSE tree[p]
  BY <1>1 DEF ReadOf
<1>6. read \in [DOMAIN read -> Sizes]
  <2>1. \A p \in DOMAIN read : read[p] \in Sizes
    BY <1>3, <1>4, <1>5 DEF IsTree
  <2>2. read = [p \in DOMAIN read |-> read[p]]
    BY <1>1 DEF ReadOf
  <2>. QED
    BY <2>1, <2>2
<1>7. IsFiniteSet(DOMAIN read) /\ DOMAIN read \subseteq Seq(Nat)
  BY <1>3, <1>4, FS_Subset DEF IsTree
<1>8. ASSUME NEW p \in DOMAIN read, NEW a \in Ancestors(p) PROVE a \in DOMAIN read
  <2>1. a \in DOMAIN tree /\ p \in Seq(Nat)
    BY <1>3, <1>4, <1>8 DEF IsTree
  <2>2. Ancestors(a) \subseteq Ancestors(p)
    BY <2>1, <1>8, AncestorTrans
  <2>3. UpTo(a) \subseteq UpTo(p)
    BY <2>2, <1>8 DEF UpTo
  <2>. QED
    BY <2>1, <2>3, <1>4
<1>9. IsTree(read)
  BY <1>6, <1>7, <1>8 DEF IsTree
<1>. QED
  BY <1>1, <1>9

\* The rows of some scan of a tree.
IsScan(rows, tree) == IsTree(tree) /\ \E fold, cut : rows = ScanOf(tree, fold, cut)

\* What the rows of a scan are.
LEMMA ScanRows ==
  ASSUME NEW rows, NEW tree, IsScan(rows, tree)
  PROVE  /\ DOMAIN rows \subseteq DOMAIN tree /\ DOMAIN tree \subseteq Seq(Nat)
         /\ IsFiniteSet(DOMAIN rows)
         /\ \A p \in DOMAIN rows : /\ rows[p].disk \in Int /\ rows[p].apparent \in Int
                                   /\ rows[p].collapsed \in BOOLEAN
<1>1. PICK fold, cut : rows = ScanOf(tree, fold, cut)
  BY DEF IsScan
<1>2. /\ tree \in [DOMAIN tree -> [disk : Nat, apparent : Nat]]
      /\ IsFiniteSet(DOMAIN tree) /\ DOMAIN tree \subseteq Seq(Nat)
  BY TreeIs DEF IsScan
<1>3. DOMAIN rows \subseteq DOMAIN tree
  BY <1>1 DEF ScanOf
<1>4. IsFiniteSet(DOMAIN rows)
  BY <1>2, <1>3, FS_Subset
<1>5. ASSUME NEW p \in DOMAIN rows
      PROVE  /\ rows[p].disk \in Int /\ rows[p].apparent \in Int
             /\ rows[p].collapsed \in BOOLEAN
  <2>. DEFINE S == Subtree(tree, p)
              f == [q \in S |-> tree[q].disk]
              g == [q \in S |-> tree[q].apparent]
  <2>1. rows[p] = [disk |-> SumFunctionOnSet(f, S), apparent |-> SumFunctionOnSet(g, S),
                   collapsed |-> p \in fold, error |-> p \in cut]
    BY <1>1 DEF ScanOf, Total
  <2>2. S \subseteq DOMAIN tree
    BY DEF Subtree
  <2>3. IsFiniteSet(S)
    BY <2>2, <1>2, FS_Subset
  <2>4. \A q \in S : f[q] \in Int /\ g[q] \in Int
    BY <2>2, <1>2
  <2>5. SumFunctionOnSet(f, S) \in Int /\ SumFunctionOnSet(g, S) \in Int
    <3>. HIDE DEF f, g, S
    <3>. QED
      BY <2>3, <2>4, SumInt
  <2>. HIDE DEF f, g, S
  <2>. QED
    BY <2>1, <2>5
<1>. QED
  BY <1>2, <1>3, <1>4, <1>5

\* A directory has a row, or one of the directories above it was collapsed.
LEMMA RowOrFold ==
  ASSUME NEW rows, NEW tree, IsScan(rows, tree), NEW p \in DOMAIN tree, p \notin DOMAIN rows
  PROVE  \E a \in Ancestors(p) : a \in DOMAIN rows /\ rows[a].collapsed
<1>1. PICK fold, cut : rows = ScanOf(tree, fold, cut)
  BY DEF IsScan
<1>2. p \in Seq(Nat) /\ Ancestors(p) \subseteq DOMAIN tree
  BY TreeIs DEF IsScan
<1>3. DOMAIN rows = {q \in DOMAIN tree : Ancestors(q) \intersect fold = {}}
  BY <1>1 DEF ScanOf
<1>. DEFINE lengths == {Len(a) : a \in Ancestors(p) \intersect fold}
<1>4. Ancestors(p) \intersect fold # {}
  BY <1>3
<1>5. lengths \subseteq Nat /\ lengths # {}
  <2>1. \A a \in Ancestors(p) : Len(a) \in Nat
    BY <1>2, AncestorIs, LenProperties
  <2>. QED
    BY <1>4, <2>1
<1>6. PICK n \in lengths : \A m \in lengths : n <= m
  <2>. HIDE DEF lengths
  <2>. QED
    BY <1>5, LeastNumber
<1>7. PICK a \in Ancestors(p) \intersect fold : Len(a) = n
  BY <1>6
<1>8. a \in Seq(Nat)
  BY <1>2, <1>7, AncestorIs
<1>9. ASSUME NEW b \in Ancestors(a), b \in fold PROVE FALSE
  <2>1. b \in Seq(Nat) /\ Len(b) < Len(a) /\ \A i \in 1 .. Len(b) : b[i] = a[i]
    BY <1>8, <1>9, AncestorIs
  <2>2. Len(a) < Len(p) /\ \A i \in 1 .. Len(a) : a[i] = p[i]
    BY <1>2, <1>7, AncestorIs
  <2>3. Len(a) \in Nat /\ Len(b) \in Nat /\ Len(p) \in Nat
    BY <1>2, <1>8, <2>1, LenProperties
  <2>4. b \in Ancestors(p)
    <3>1. Len(b) < Len(p) /\ \A i \in 1 .. Len(b) : b[i] = p[i]
      BY <2>1, <2>2, <2>3
    <3>. QED
      BY <1>2, <2>1, <3>1, AncestorIs
  <2>5. Len(b) \in lengths
    BY <2>4, <1>9
  <2>. QED
    BY <2>1, <2>3, <2>5, <1>6, <1>7
<1>10. a \in DOMAIN rows
  BY <1>2, <1>3, <1>7, <1>9
<1>11. rows[a].collapsed
  BY <1>1, <1>7, <1>10 DEF ScanOf
<1>. QED
  BY <1>7, <1>10, <1>11

\* Below a collapsed directory there are no rows.
LEMMA NoRowsBelowFold ==
  ASSUME NEW rows, NEW tree, IsScan(rows, tree), NEW p \in DOMAIN rows,
         NEW a \in Ancestors(p), a \in DOMAIN rows
  PROVE  ~ rows[a].collapsed
<1>1. PICK fold, cut : rows = ScanOf(tree, fold, cut)
  BY DEF IsScan
<1>2. a \notin fold
  BY <1>1 DEF ScanOf
<1>3. rows[a].collapsed = (a \in fold)
  BY <1>1 DEF ScanOf
<1>. QED
  BY <1>2, <1>3

--------------------------------------------------------------------------------
(* The pair *)

\* A tree is what a scan reads of the directories there, and the rows of what
\* it does not read to the end carry an error.
IsReading(there, tree, rows) ==
  \E full \in Trees, miss \in Misses :
    /\ there = There(full, miss) /\ tree = ReadOf(full, miss)
    /\ \A p \in DOMAIN rows : rows[p].error = (p \in DOMAIN miss.cut)

\* The rows of a scan of what it reads.
LEMMA ScanIsReading ==
  ASSUME NEW full \in Trees, NEW miss \in Misses, NEW fold,
         NEW there, there = There(full, miss), NEW tree, tree = ReadOf(full, miss),
         NEW rows, rows = ScanOf(tree, fold, DOMAIN miss.cut)
  PROVE  IsScan(rows, tree) /\ IsReading(there, tree, rows)
<1>1. IsTree(tree)
  BY ReadIsTree
<1>2. \A p \in DOMAIN rows : rows[p].error = (p \in DOMAIN miss.cut)
  BY DEF ScanOf
<1>. QED
  BY <1>1, <1>2, Zenon DEF IsScan, IsReading

\* The rows of the baseline are those of a scan, and so are the current ones
\* once there are any.
PairInv ==
  /\ IsScan(baseline, old) /\ IsReading(wasThere, old, baseline)
  /\ new = Nothing \/ IsScan(current, new)
  /\ new = Nothing \/ IsReading(isThere, new, current)

\* The inductive invariant of SnapshotDiff: both sides of a pair come from scans.
THEOREM PairInvariance == Spec => []PairInv
<1>1. Init => PairInv
  BY ScanIsReading DEF Init, PairInv
<1>2. PairInv /\ [Next]_vars => PairInv'
  <2>. SUFFICES ASSUME PairInv, [Next]_vars
                PROVE  PairInv'
    OBVIOUS
  <2>1. CASE Rescan
    <3>1. PICK tree \in Trees, fold \in Folds, miss \in Misses :
            /\ isThere' = There(tree, miss) /\ new' = ReadOf(tree, miss)
            /\ current' = ScanOf(new', fold, DOMAIN miss.cut)
      BY <2>1 DEF Rescan
    <3>2. IsScan(current', new') /\ IsReading(isThere', new', current')
      BY <3>1, ScanIsReading
    <3>3. UNCHANGED <<wasThere, old, baseline>>
      BY <2>1 DEF Rescan
    <3>. QED
      BY <3>2, <3>3 DEF PairInv, IsScan, IsReading
  <2>2. CASE UNCHANGED vars
    BY <2>2 DEF vars, PairInv, IsScan, IsReading
  <2>. QED
    BY <2>1, <2>2 DEF Next
<1>. QED
  BY <1>1, <1>2, PTL DEF Spec

--------------------------------------------------------------------------------
(* Rows of the diff *)

\* The columns of one row of a diff.
DiffRow(p, collapsed) ==
  [path     |-> p,
   class    |-> Classification(p, collapsed),
   previous |-> Size(baseline, p, "disk"),
   disk     |-> Change(p, "disk"),
   apparent |-> Change(p, "apparent")]

\* The rows below target, if unchanged ones are included, are one for each path.
LEMMA DiffRowsAre ==
  ASSUME NEW target, NEW rows, rows = DiffRows(target, TRUE)
  PROVE  /\ \A p \in DOMAIN baseline \union DOMAIN current :
              MatchesPathPrefix(p, target) =>
                DiffRow(p, CurrentCollapsedPaths(target)) \in rows
         /\ \A r \in rows : /\ r.path \in DOMAIN baseline \union DOMAIN current
                            /\ MatchesPathPrefix(r.path, target)
                            /\ r = DiffRow(r.path, CurrentCollapsedPaths(target))
<1>. DEFINE C == CurrentCollapsedPaths(target)
<1>1. rows = {DiffRow(p, C) : p \in {q \in DOMAIN baseline \union DOMAIN current :
                                        MatchesPathPrefix(q, target)}}
  BY DEF DiffRows, DiffRow
<1>2. \A p : DiffRow(p, C).path = p
  BY DEF DiffRow
<1>. HIDE DEF C
<1>3. \A r \in rows : /\ r.path \in DOMAIN baseline \union DOMAIN current
                      /\ MatchesPathPrefix(r.path, target)
                      /\ r = DiffRow(r.path, C)
  <2>. TAKE r \in rows
  <2>1. PICK p \in DOMAIN baseline \union DOMAIN current :
          MatchesPathPrefix(p, target) /\ r = DiffRow(p, C)
    BY <1>1
  <2>. QED
    BY <1>2, <2>1
<1>4. \A p \in DOMAIN baseline \union DOMAIN current :
        MatchesPathPrefix(p, target) => DiffRow(p, C) \in rows
  BY <1>1
<1>. QED
  BY <1>3, <1>4 DEF C

\* The row of the target itself is among them.
LEMMA OwnRow ==
  ASSUME NEW p \in Seq(Nat), p \in DOMAIN baseline \union DOMAIN current,
         NEW rows, rows = DiffRows(p, TRUE)
  PROVE  RowAt(rows, p) \in rows /\ RowAt(rows, p).path = p
<1>1. MatchesPathPrefix(p, p)
  BY PrefixIs, LenProperties
<1>2. DiffRow(p, CurrentCollapsedPaths(p)) \in rows
  BY <1>1, DiffRowsAre
<1>3. DiffRow(p, CurrentCollapsedPaths(p)).path = p
  BY DEF DiffRow
<1>4. \E r \in rows : r.path = p
  BY <1>2, <1>3
<1>. QED
  BY <1>4 DEF RowAt

\* Of some ancestors of a directory there is a deepest one.
LEMMA DeepestIs ==
  ASSUME NEW p \in Seq(Nat), NEW T, T \subseteq Ancestors(p), T # {}
  PROVE  Deepest(T) \in T /\ \A b \in T : Len(b) <= Len(Deepest(T))
<1>. DEFINE gaps == {Len(p) - Len(a) : a \in T}
<1>1. Len(p) \in Nat /\ \A a \in T : Len(a) \in Nat /\ Len(a) < Len(p)
  BY AncestorIs, LenProperties
<1>2. gaps \subseteq Nat /\ gaps # {}
  BY <1>1
<1>3. PICK g \in gaps : \A h \in gaps : g <= h
  <2>. HIDE DEF gaps
  <2>. QED
    BY <1>2, LeastNumber
<1>4. PICK a \in T : g = Len(p) - Len(a)
  BY <1>3
<1>5. \A b \in T : Len(b) <= Len(a)
  <2>. TAKE b \in T
  <2>1. Len(p) - Len(b) \in gaps
    OBVIOUS
  <2>2. g <= Len(p) - Len(b)
    BY <2>1, <1>3
  <2>. QED
    BY <2>2, <1>1, <1>4
<1>. QED
  BY <1>5 DEF Deepest

\* Whatever the scans folded, explain-path has a row for every directory that the
\* current scan found (query_explain_path_rows): its own, or that of a directory
\* above it.
THEOREM AllExplained == Spec => []CurrentExplained
<1>1. PairInv => CurrentExplained
  <2>. SUFFICES ASSUME PairInv, Paired, NEW p \in DOMAIN new
                PROVE  \E r \in ExplainedRow(p) : p = r.path \/ r.path \in Ancestors(p)
    BY DEF CurrentExplained
  <2>1. IsScan(baseline, old) /\ IsScan(current, new)
    BY DEF PairInv, Paired
  <2>2. p \in Seq(Nat) /\ DOMAIN baseline \subseteq Seq(Nat) /\ DOMAIN current \subseteq Seq(Nat)
    BY <2>1, ScanRows
  <2>. DEFINE own == DiffRows(p, TRUE)
  <2>3. CASE \E r \in own : r.path = p
    <3>1. ExplainedRow(p) = {RowAt(own, p)}
      BY <2>3 DEF ExplainedRow
    <3>2. RowAt(own, p).path = p
      <4>. HIDE DEF own
      <4>. QED
        BY <2>3 DEF RowAt
    <3>. QED
      BY <3>1, <3>2
  <2>4. CASE ~ \E r \in own : r.path = p
    <3>1. p \notin DOMAIN baseline \union DOMAIN current
      BY <2>2, <2>4, OwnRow
    <3>2. PICK a \in Ancestors(p) : a \in DOMAIN current /\ current[a].collapsed
      BY <2>1, <3>1, RowOrFold
    <3>3. a \in Folded(p) /\ Folded(p) \subseteq Ancestors(p)
      BY <3>2 DEF Folded
    <3>4. PICK d : d = Deepest(Folded(p))
      OBVIOUS
    <3>5. d \in Folded(p)
      BY <2>2, <3>3, <3>4, DeepestIs
    <3>6. d \in Ancestors(p) /\ d \in DOMAIN baseline \union DOMAIN current
      BY <3>5 DEF Folded
    <3>7. RowAt(DiffRows(d, TRUE), d).path = d
      BY <2>2, <3>6, OwnRow
    <3>8. ExplainedRow(p) = {RowAt(DiffRows(d, TRUE), d)}
      BY <2>4, <3>3, <3>4 DEF ExplainedRow
    <3>. QED
      BY <3>6, <3>7, <3>8
  <2>. QED
    BY <2>3, <2>4
<1>. QED
  BY <1>1, PairInvariance, PTL

--------------------------------------------------------------------------------
(* Sorted lists *)

\* Keys are compared in turn: a strict order, and a total one of keys of the
\* same length.
LEMMA KeyOrder ==
  ASSUME NEW n \in Nat, NEW k \in [1 .. n -> Int], NEW l \in [1 .. n -> Int],
         NEW m \in [1 .. n -> Int], Len(k) = n, Len(l) = n, Len(m) = n
  PROVE  /\ ~ KeyLess(k, k)
         /\ KeyLess(k, l) /\ KeyLess(l, m) => KeyLess(k, m)
         /\ k # l => KeyLess(k, l) \/ KeyLess(l, k)
<1>1. ~ KeyLess(k, k)
  BY DEF KeyLess
<1>2. ASSUME KeyLess(k, l), KeyLess(l, m) PROVE KeyLess(k, m)
  <2>1. PICK i \in 1 .. n : k[i] < l[i] /\ \A j \in 1 .. i - 1 : k[j] = l[j]
    BY <1>2 DEF KeyLess
  <2>2. PICK h \in 1 .. n : l[h] < m[h] /\ \A j \in 1 .. h - 1 : l[j] = m[j]
    BY <1>2 DEF KeyLess
  <2>3. k[i] \in Int /\ l[i] \in Int /\ m[i] \in Int /\ k[h] \in Int /\ l[h] \in Int /\ m[h] \in Int
    OBVIOUS
  <2>4. CASE i <= h
    <3>1. k[i] < m[i]
      BY <2>1, <2>2, <2>3, <2>4
    <3>2. \A j \in 1 .. i - 1 : k[j] = m[j]
      BY <2>1, <2>2, <2>4
    <3>. QED
      BY <3>1, <3>2 DEF KeyLess
  <2>5. CASE h < i
    <3>1. k[h] < m[h]
      BY <2>1, <2>2, <2>3, <2>5
    <3>2. \A j \in 1 .. h - 1 : k[j] = m[j]
      BY <2>1, <2>2, <2>5
    <3>. QED
      BY <3>1, <3>2 DEF KeyLess
  <2>. QED
    BY <2>4, <2>5
<1>3. ASSUME k # l PROVE KeyLess(k, l) \/ KeyLess(l, k)
  <2>. DEFINE T == {i \in 1 .. n : k[i] # l[i]}
  <2>1. T \subseteq Nat /\ T # {}
    <3>1. ~ \A i \in 1 .. n : k[i] = l[i]
      <4>1. k = [i \in 1 .. n |-> k[i]] /\ l = [i \in 1 .. n |-> l[i]]
        OBVIOUS
      <4>. QED
        BY <1>3, <4>1, Zenon
    <3>2. PICK i \in 1 .. n : k[i] # l[i]
      BY <3>1
    <3>3. i \in T
      BY <3>2
    <3>4. T \subseteq Nat
      OBVIOUS
    <3>. QED
      BY <3>3, <3>4, Zenon
  <2>2. PICK i \in T : \A j \in T : i <= j
    <3>. HIDE DEF T
    <3>. QED
      BY <2>1, LeastNumber
  <2>3. i \in 1 .. n /\ k[i] # l[i] /\ \A j \in 1 .. i - 1 : k[j] = l[j]
    BY <2>2
  <2>4. k[i] < l[i] \/ l[i] < k[i]
    BY <2>3
  <2>. QED
    BY <2>3, <2>4 DEF KeyLess
<1>. QED
  BY <1>1, <1>2, <1>3

\* The order of paths, component by component.
LEMMA PathLessIs ==
  ASSUME NEW p \in Seq(Nat), NEW q \in Seq(Nat)
  PROVE  PathLess(p, q) <=>
           \/ Len(p) < Len(q) /\ \A i \in 1 .. Len(p) : p[i] = q[i]
           \/ \E n \in 1 .. Len(p) : /\ n <= Len(q) /\ p[n] < q[n]
                                     /\ \A i \in 1 .. n - 1 : p[i] = q[i]
<1>1. Len(p) \in Nat /\ Len(q) \in Nat
  BY LenProperties
<1>2. IsStrictPrefix(p, q) <=> Len(p) < Len(q) /\ \A i \in 1 .. Len(p) : p[i] = q[i]
  <2>1. IsPrefix(p, q) <=> Len(p) <= Len(q) /\ \A i \in 1 .. Len(p) : p[i] = q[i]
    BY PrefixIs DEF MatchesPathPrefix
  <2>2. Len(p) = Len(q) /\ (\A i \in 1 .. Len(p) : p[i] = q[i]) => p = q
    BY SeqEqual
  <2>. QED
    BY <1>1, <2>1, <2>2 DEF IsStrictPrefix
<1>3. ASSUME NEW n \in 1 .. Len(p), n <= Len(q)
      PROVE  SubSeq(p, 1, n - 1) = SubSeq(q, 1, n - 1) <=> \A i \in 1 .. n - 1 : p[i] = q[i]
  <2>1. /\ SubSeq(p, 1, n - 1) = [i \in 1 .. n - 1 |-> p[i]]
        /\ SubSeq(q, 1, n - 1) = [i \in 1 .. n - 1 |-> q[i]]
    BY <1>1, <1>3
  <2>. QED
    BY <2>1
<1>. QED
  BY <1>1, <1>2, <1>3 DEF PathLess

\* The bytes of paths order them strictly and totally.
LEMMA PathOrder ==
  ASSUME NEW p \in Seq(Nat), NEW q \in Seq(Nat), NEW r \in Seq(Nat)
  PROVE  /\ ~ PathLess(p, p)
         /\ PathLess(p, q) /\ PathLess(q, r) => PathLess(p, r)
         /\ p # q => PathLess(p, q) \/ PathLess(q, p)
<1>1. Len(p) \in Nat /\ Len(q) \in Nat /\ Len(r) \in Nat
  BY LenProperties
<1>2. /\ \A i \in 1 .. Len(p) : p[i] \in Nat
      /\ \A i \in 1 .. Len(q) : q[i] \in Nat
      /\ \A i \in 1 .. Len(r) : r[i] \in Nat
  BY ElementOfSeq
<1>. DEFINE Extends(x, y) == Len(x) < Len(y) /\ \A i \in 1 .. Len(x) : x[i] = y[i]
            At(x, y, n) == /\ n \in 1 .. Len(x) /\ n <= Len(y) /\ x[n] < y[n]
                           /\ \A i \in 1 .. n - 1 : x[i] = y[i]
<1>3. /\ PathLess(p, p) <=> Extends(p, p) \/ \E n : At(p, p, n)
      /\ PathLess(p, q) <=> Extends(p, q) \/ \E n : At(p, q, n)
      /\ PathLess(q, p) <=> Extends(q, p) \/ \E n : At(q, p, n)
      /\ PathLess(q, r) <=> Extends(q, r) \/ \E n : At(q, r, n)
      /\ PathLess(p, r) <=> Extends(p, r) \/ \E n : At(p, r, n)
  BY PathLessIs
<1>4. ~ PathLess(p, p)
  <2>1. ~ Extends(p, p)
    BY <1>1
  <2>2. \A n : ~ At(p, p, n)
    BY <1>1, <1>2
  <2>. QED
    BY <1>3, <2>1, <2>2
<1>5. ASSUME PathLess(p, q), PathLess(q, r) PROVE PathLess(p, r)
  <2>1. CASE Extends(p, q) /\ Extends(q, r)
    <3>1. Len(p) < Len(r)
      BY <2>1, <1>1
    <3>2. ASSUME NEW i \in 1 .. Len(p) PROVE p[i] = r[i]
      <4>1. i \in 1 .. Len(q)
        BY <2>1, <1>1
      <4>. QED
        BY <2>1, <4>1
    <3>3. Extends(p, r)
      BY <3>1, <3>2
    <3>. QED
      BY <3>3, <1>3
  <2>2. ASSUME Extends(p, q), NEW n, At(q, r, n) PROVE PathLess(p, r)
    <3>1. CASE n <= Len(p)
      <4>1. At(p, r, n)
        BY <2>2, <3>1, <1>1
      <4>. QED
        BY <4>1, <1>3
    <3>2. CASE Len(p) < n
      <4>1. Extends(p, r)
        BY <2>2, <3>2, <1>1
      <4>. QED
        BY <4>1, <1>3
    <3>. QED
      BY <3>1, <3>2, <2>2, <1>1
  <2>3. ASSUME NEW n, At(p, q, n), Extends(q, r) PROVE PathLess(p, r)
    <3>1. At(p, r, n)
      BY <2>3, <1>1
    <3>. QED
      BY <3>1, <1>3
  <2>4. ASSUME NEW n, At(p, q, n), NEW m, At(q, r, m) PROVE PathLess(p, r)
    <3>1. n \in Nat /\ m \in Nat
      BY <2>4, <1>1
    <3>2. CASE n <= m
      <4>1. p[n] \in Nat /\ q[n] \in Nat /\ r[n] \in Nat
        BY <2>4, <3>1, <3>2, <1>1, <1>2
      <4>2. p[n] < r[n]
        <5>1. n < m => q[n] = r[n]
          BY <2>4, <3>1
        <5>2. p[n] < q[n] /\ (n = m => q[n] < r[n])
          BY <2>4
        <5>3. n < m \/ n = m
          BY <3>1, <3>2
        <5>4. q[n] <= r[n]
          BY <4>1, <5>1, <5>2, <5>3
        <5>. QED
          BY <4>1, <5>2, <5>4
      <4>3. ASSUME NEW i \in 1 .. n - 1 PROVE p[i] = r[i]
        <5>1. i \in 1 .. m - 1
          BY <3>1, <3>2
        <5>. QED
          BY <2>4, <5>1
      <4>4. n \in 1 .. Len(p) /\ n <= Len(r)
        BY <2>4, <3>1, <3>2, <1>1
      <4>5. At(p, r, n)
        BY <4>2, <4>3, <4>4
      <4>. QED
        BY <4>5, <1>3
    <3>3. CASE m < n
      <4>1. p[m] \in Nat /\ q[m] \in Nat /\ r[m] \in Nat
        BY <2>4, <3>1, <3>3, <1>1, <1>2
      <4>2. p[m] < r[m]
        <5>1. p[m] = q[m]
          BY <2>4, <3>1, <3>3
        <5>. QED
          BY <2>4, <4>1, <5>1
      <4>3. ASSUME NEW i \in 1 .. m - 1 PROVE p[i] = r[i]
        <5>1. i \in 1 .. n - 1
          BY <3>1, <3>3
        <5>. QED
          BY <2>4, <5>1
      <4>4. m \in 1 .. Len(p) /\ m <= Len(r)
        BY <2>4, <3>1, <3>3, <1>1
      <4>5. At(p, r, m)
        BY <4>2, <4>3, <4>4
      <4>. QED
        BY <4>5, <1>3
    <3>. QED
      BY <3>1, <3>2, <3>3
  <2>. HIDE DEF Extends, At
  <2>. QED
    BY <1>3, <1>5, <2>1, <2>2, <2>3, <2>4
<1>6. ASSUME p # q PROVE PathLess(p, q) \/ PathLess(q, p)
  <2>. DEFINE T == {i \in 1 .. Len(p) : i <= Len(q) /\ p[i] # q[i]}
  <2>1. CASE T = {}
    <3>1. \A i \in 1 .. Len(p) : i <= Len(q) => p[i] = q[i]
      BY <2>1
    <3>2. CASE Len(p) = Len(q)
      <4>1. \A i \in 1 .. Len(p) : p[i] = q[i]
        BY <3>1, <3>2, <1>1
      <4>. QED
        BY <3>2, <4>1, <1>6, SeqEqual
    <3>3. CASE Len(p) < Len(q)
      <4>1. Extends(p, q)
        BY <3>1, <3>3, <1>1
      <4>. QED
        BY <4>1, <1>3
    <3>4. CASE Len(q) < Len(p)
      <4>1. Extends(q, p)
        BY <3>1, <3>4, <1>1
      <4>. QED
        BY <4>1, <1>3
    <3>. QED
      BY <3>2, <3>3, <3>4, <1>1
  <2>2. CASE T # {}
    <3>1. T \subseteq Nat
      BY <1>1
    <3>2. PICK n \in T : \A m \in T : n <= m
      <4>. HIDE DEF T
      <4>. QED
        BY <3>1, <2>2, LeastNumber
    <3>3. /\ n \in 1 .. Len(p) /\ n \in 1 .. Len(q) /\ p[n] # q[n]
          /\ \A i \in 1 .. n - 1 : p[i] = q[i]
      <4>1. n \in 1 .. Len(p) /\ n \in 1 .. Len(q) /\ p[n] # q[n]
        BY <1>1
      <4>2. ASSUME NEW i \in 1 .. n - 1 PROVE p[i] = q[i]
        <5>1. i \in 1 .. Len(p) /\ i <= Len(q) /\ ~ (n <= i)
          BY <4>1, <1>1
        <5>2. i \notin T
          BY <5>1, <3>2
        <5>. QED
          BY <5>1, <5>2
      <4>. QED
        BY <4>1, <4>2
    <3>4. p[n] \in Nat /\ q[n] \in Nat
      BY <3>3, <1>2
    <3>5. At(p, q, n) \/ At(q, p, n)
      BY <3>3, <3>4, <1>1
    <3>. QED
      BY <3>5, <1>3
  <2>. QED
    BY <2>1, <2>2
<1>. QED
  BY <1>4, <1>5, <1>6

\* Rows with paths of their own are ordered by any keys of one length.
LEMMA RowOrder ==
  ASSUME NEW rows, NEW n \in Nat, NEW key, \A r \in rows : key[r] \in [1 .. n -> Int],
         \A r \in rows : Len(key[r]) = n /\ r.path \in Seq(Nat),
         \A r, s \in rows : r.path = s.path => r = s,
         NEW before,
         before = {x \in rows \X rows : RowLess(key[x[1]], x[1].path, key[x[2]], x[2].path)}
  PROVE  IsOrder(before, rows)
<1>1. \A r, s \in rows : <<r, s>> \in before <=> RowLess(key[r], r.path, key[s], s.path)
  OBVIOUS
<1>2. ASSUME NEW r \in rows PROVE <<r, r>> \notin before
  <2>1. ~ KeyLess(key[r], key[r]) /\ ~ PathLess(r.path, r.path)
    BY KeyOrder, PathOrder
  <2>. QED
    BY <1>1, <2>1 DEF RowLess
<1>3. ASSUME NEW r \in rows, NEW s \in rows, NEW t \in rows,
             <<r, s>> \in before, <<s, t>> \in before
      PROVE  <<r, t>> \in before
  <2>1. KeyLess(key[r], key[s]) /\ KeyLess(key[s], key[t]) => KeyLess(key[r], key[t])
    BY KeyOrder
  <2>2. PathLess(r.path, s.path) /\ PathLess(s.path, t.path) => PathLess(r.path, t.path)
    BY PathOrder
  <2>3. /\ RowLess(key[r], r.path, key[s], s.path)
        /\ RowLess(key[s], s.path, key[t], t.path)
    BY <1>1, <1>3
  <2>4. RowLess(key[r], r.path, key[t], t.path)
    BY <2>1, <2>2, <2>3 DEF RowLess
  <2>. QED
    BY <1>1, <2>4
<1>4. ASSUME NEW r \in rows, NEW s \in rows, r # s
      PROVE  <<r, s>> \in before \/ <<s, r>> \in before
  <2>1. key[r] # key[s] => KeyLess(key[r], key[s]) \/ KeyLess(key[s], key[r])
    BY KeyOrder
  <2>2. PathLess(r.path, s.path) \/ PathLess(s.path, r.path)
    BY <1>4, PathOrder
  <2>. QED
    BY <1>1, <2>1, <2>2 DEF RowLess
<1>. QED
  BY <1>2, <1>3, <1>4 DEF IsOrder

\* The first rows of a list are rows of it.
LEMMA LimitedRange ==
  ASSUME NEW S, NEW list \in Seq(S), NEW n \in Nat
  PROVE  Range(Limited(list, n)) \subseteq S
<1>. DEFINE m == IF Len(list) < n THEN Len(list) ELSE n
<1>1. Len(list) \in Nat /\ m \in Nat /\ m <= Len(list)
  BY LenProperties
<1>2. \A i \in 1 .. m : list[i] \in S
  BY <1>1, ElementOfSeq
<1>3. SubSeq(list, 1, m) \in Seq(S)
  <2>. HIDE DEF m
  <2>. QED
    BY <1>1, <1>2, SubSeqProperties
<1>4. \A t \in Seq(S) : Range(t) \subseteq S
  BY DEF Range
<1>. QED
  BY <1>3, <1>4 DEF Limited

\* Columns of one row of a diff.
LEMMA DiffRowColumns ==
  ASSUME PairInv, Paired, NEW p, NEW C
  PROVE  /\ DiffRow(p, C).path = p
         /\ DiffRow(p, C).class = Classification(p, C)
         /\ DiffRow(p, C).disk = Change(p, "disk") /\ Change(p, "disk") \in Int
         /\ DiffRow(p, C).apparent = Change(p, "apparent") /\ Change(p, "apparent") \in Int
         /\ DiffRow(p, C).previous \in Int
<1>1. IsScan(baseline, old) /\ IsScan(current, new)
  BY DEF PairInv, Paired
<1>2. /\ \A q \in DOMAIN baseline : baseline[q].disk \in Int /\ baseline[q].apparent \in Int
      /\ \A q \in DOMAIN current : current[q].disk \in Int /\ current[q].apparent \in Int
  BY <1>1, ScanRows
<1>3. /\ Size(baseline, p, "disk") \in Int /\ Size(baseline, p, "apparent") \in Int
      /\ Size(current, p, "disk") \in Int /\ Size(current, p, "apparent") \in Int
  BY <1>2 DEF Size
<1>4. Change(p, "disk") \in Int /\ Change(p, "apparent") \in Int
  BY <1>3 DEF Change
<1>. QED
  BY <1>3, <1>4 DEF DiffRow

\* The rows of a diff are finitely many, with paths of their own.
LEMMA DiffRowsKeyed ==
  ASSUME PairInv, Paired, NEW target, NEW rows, rows = DiffRows(target, TRUE)
  PROVE  /\ IsFiniteSet(rows)
         /\ \A r \in rows : /\ r.path \in Seq(Nat) /\ r.disk \in Int /\ r.apparent \in Int
                            /\ r.previous \in Int
         /\ \A r, s \in rows : r.path = s.path => r = s
<1>1. IsScan(baseline, old) /\ IsScan(current, new)
  BY DEF PairInv, Paired
<1>. DEFINE D == DOMAIN baseline \union DOMAIN current
            C == CurrentCollapsedPaths(target)
            name == [r \in rows |-> r.path]
<1>2. D \subseteq Seq(Nat) /\ IsFiniteSet(D)
  <2>1. /\ IsFiniteSet(DOMAIN baseline) /\ IsFiniteSet(DOMAIN current)
        /\ DOMAIN baseline \subseteq Seq(Nat) /\ DOMAIN current \subseteq Seq(Nat)
    BY <1>1, ScanRows
  <2>. QED
    BY <2>1, FS_Union
<1>3. \A r \in rows : r.path \in D /\ r = DiffRow(r.path, C)
  BY DiffRowsAre
<1>. HIDE DEF C, D
<1>4. \A r, s \in rows : r.path = s.path => r = s
  BY <1>3
<1>5. name \in Injection(rows, D)
  BY <1>3, <1>4 DEF Injection, IsInjective
<1>6. IsFiniteSet(rows)
  <2>. HIDE DEF name
  <2>. QED
    BY <1>2, <1>5, FS_Injection
<1>7. ASSUME NEW r \in rows
      PROVE  r.path \in Seq(Nat) /\ r.disk \in Int /\ r.apparent \in Int /\ r.previous \in Int
  <2>1. PICK p \in D : r = DiffRow(p, C)
    BY <1>3
  <2>. QED
    BY <1>2, <2>1, DiffRowColumns
<1>. QED
  BY <1>4, <1>6, <1>7

\* What DeletedRows lists are rows classified as deleted.
LEMMA DeletedRowsAre ==
  ASSUME PairInv, Paired, NEW rows, rows = AllRows, NEW r \in Range(DeletedRows(rows))
  PROVE  r \in rows /\ r.class = "deleted"
<1>. DEFINE S == {s \in rows : s.class = "deleted"}
            key == [s \in S |-> <<-s.previous>>]
            before == {x \in S \X S : RowLess(key[x[1]], x[1].path, key[x[2]], x[2].path)}
<1>1. /\ IsFiniteSet(rows)
      /\ \A s \in rows : s.path \in Seq(Nat) /\ s.previous \in Int
      /\ \A s, t \in rows : s.path = t.path => s = t
  BY DiffRowsKeyed DEF AllRows
<1>2. \A s \in S : key[s] = <<-s.previous>> /\ key[s] \in [1 .. 1 -> Int] /\ Len(key[s]) = 1
  BY <1>1
<1>3. IsOrder(before, S)
  <2>1. /\ \A s \in S : Len(key[s]) = 1 /\ s.path \in Seq(Nat)
        /\ \A s, t \in S : s.path = t.path => s = t
        /\ \A s \in S : key[s] \in [1 .. 1 -> Int]
    BY <1>1, <1>2
  <2>. HIDE DEF key, S
  <2>. QED
    BY <2>1, RowOrder
<1>4. IsFiniteSet(S)
  BY <1>1, FS_Subset
<1>5. Ordered(S, LAMBDA s : <<-s.previous>>) = SortedBy(S, before)
  <2>1. before = {x \in S \X S : RowLess(<<-x[1].previous>>, x[1].path,
                                         <<-x[2].previous>>, x[2].path)}
    BY <1>2
  <2>. QED
    BY <2>1 DEF Ordered
<1>6. SortedBy(S, before) \in Seq(S)
  <2>1. PICK sorted : sorted = SortedBy(S, before)
    OBVIOUS
  <2>. HIDE DEF before, S
  <2>. QED
    BY <2>1, <1>3, <1>4, SortedIs
<1>7. r \in Range(Limited(SortedBy(S, before), Limit))
  BY <1>5 DEF DeletedRows
<1>8. r \in S
  <2>. HIDE DEF before, S
  <2>. QED
    BY <1>6, <1>7, LimitedRange, LimitAssumption
<1>. QED
  BY <1>8

--------------------------------------------------------------------------------
(* What is reported as deleted *)

\* The rows of one endpoint are those of the scan, by what follows the endpoint.
LEMMA EndpointIs ==
  ASSUME NEW rows, NEW tree, IsScan(rows, tree), NEW path \in Seq(Nat),
         NEW ends, ends = EndpointRows(rows, path)
  PROVE  /\ DOMAIN ends \subseteq Seq(Nat)
         /\ \A s \in Seq(Nat) : s \in DOMAIN ends <=> path \o s \in DOMAIN rows
         /\ \A s \in DOMAIN ends : ends[s] = rows[path \o s]
<1>1. DOMAIN rows \subseteq Seq(Nat)
  BY ScanRows
<1>2. DOMAIN ends = {SubSeq(p, Len(path) + 1, Len(p)) :
                       p \in {q \in DOMAIN rows : MatchesPathPrefix(q, path)}}
  BY DEF EndpointRows
<1>3. \A s \in DOMAIN ends : ends[s] = rows[path \o s]
  BY <1>2 DEF EndpointRows
<1>4. ASSUME NEW s \in DOMAIN ends PROVE s \in Seq(Nat) /\ path \o s \in DOMAIN rows
  <2>1. PICK p \in DOMAIN rows : /\ MatchesPathPrefix(p, path)
                                 /\ s = SubSeq(p, Len(path) + 1, Len(p))
    BY <1>2
  <2>2. p \in Seq(Nat)
    BY <1>1
  <2>3. s \in Seq(Nat) /\ path \o s = p
    BY <2>1, <2>2, SuffixIs
  <2>. QED
    BY <2>3
<1>5. ASSUME NEW s \in Seq(Nat), path \o s \in DOMAIN rows PROVE s \in DOMAIN ends
  <2>1. PICK p : p = path \o s
    OBVIOUS
  <2>2. MatchesPathPrefix(p, path) /\ SubSeq(p, Len(path) + 1, Len(p)) = s
    BY <2>1, PrefixOfConcat
  <2>. QED
    BY <1>2, <1>5, <2>1, <2>2
<1>. QED
  BY <1>3, <1>4, <1>5

\* Where a directory that was there has no row and nothing above it is folded,
\* the nearest row above it carries an error, unless it is in a virtual filesystem.
LEMMA UnreadHasError ==
  ASSUME NEW rows, NEW tree, IsScan(rows, tree), tree # Nothing,
         NEW there, IsReading(there, tree, rows), NEW p, p \notin DOMAIN rows,
         \A a \in Ancestors(p) : ~ (a \in DOMAIN rows /\ rows[a].collapsed)
  PROVE  GoneOrUnread(there, rows, p)
<1>. SUFFICES ASSUME p \in there.dirs, p \notin there.virtual
              PROVE  rows[Deepest(Ancestors(p) \intersect DOMAIN rows)].error
  BY DEF GoneOrUnread
<1>1. PICK full \in Trees, miss \in Misses :
        /\ there = There(full, miss) /\ tree = ReadOf(full, miss)
        /\ \A q \in DOMAIN rows : rows[q].error = (q \in DOMAIN miss.cut)
  BY DEF IsReading
<1>2. IsTree(full) /\ IsTree(tree) /\ IsMiss(miss)
  BY TreesAssumption, MissesAssumption DEF IsScan
<1>3. /\ DOMAIN full \subseteq Seq(Nat) /\ DOMAIN tree \subseteq Seq(Nat)
      /\ \A q \in DOMAIN full : Ancestors(q) \subseteq DOMAIN full
      /\ \A q \in DOMAIN tree : Ancestors(q) \subseteq DOMAIN tree
  BY <1>2, TreeIs
<1>4. p \in DOMAIN full /\ p \in Seq(Nat) /\ UpTo(p) \intersect miss.virtual = {}
  BY <1>1, <1>3 DEF There
<1>5. DOMAIN tree = {q \in DOMAIN full : UpTo(q) \intersect (miss.absent \union miss.virtual) = {}}
  BY <1>1 DEF ReadOf
<1>6. \A q \in UpTo(p) : q \in DOMAIN tree => q \in DOMAIN rows
  <2>. SUFFICES ASSUME NEW q \in UpTo(p), q \in DOMAIN tree, q \notin DOMAIN rows
                PROVE  FALSE
    OBVIOUS
  <2>1. PICK a \in Ancestors(q) : a \in DOMAIN rows /\ rows[a].collapsed
    BY RowOrFold
  <2>2. a \in Ancestors(p)
    BY <2>1, <1>4, AncestorTrans DEF UpTo
  <2>. QED
    BY <2>1, <2>2
<1>7. <<>> \in Ancestors(p) \intersect DOMAIN rows
  <2>1. PICK e : e = <<>>
    OBVIOUS
  <2>2. e \in Seq(Nat) /\ Len(e) = 0
    BY <2>1, EmptySeq
  <2>3. ASSUME NEW q \in Seq(Nat) PROVE q = e \/ e \in Ancestors(q)
    <3>1. MatchesPathPrefix(q, e)
      BY <2>1, RootMatches
    <3>. QED
      BY <2>2, <3>1, BelowIs
  <2>4. PICK q : q \in DOMAIN tree
    <3>1. DOMAIN tree # {}
      <4>. SUFFICES ASSUME DOMAIN tree = {} PROVE FALSE
        OBVIOUS
      <4>1. tree = [x \in DOMAIN tree |-> tree[x]]
        BY <1>1 DEF ReadOf
      <4>. QED
        BY <4>1 DEF Nothing
    <3>. QED
      BY <3>1
  <2>5. e \in DOMAIN tree
    BY <2>3, <2>4, <1>3
  <2>6. e \in UpTo(p)
    BY <2>3, <1>4 DEF UpTo
  <2>7. e \in DOMAIN rows
    BY <2>5, <2>6, <1>6
  <2>. QED
    BY <2>1, <2>3, <2>7, <1>4
<1>8. PICK d : d = Deepest(Ancestors(p) \intersect DOMAIN rows)
  OBVIOUS
<1>9. d \in Ancestors(p) /\ d \in DOMAIN rows /\ \A b \in Ancestors(p) \intersect DOMAIN rows : Len(b) <= Len(d)
  BY <1>4, <1>7, <1>8, DeepestIs
<1>10. d \in DOMAIN tree /\ d \in Seq(Nat) /\ Len(d) \in Nat
  BY <1>3, <1>9, ScanRows, LenProperties
<1>11. PICK c \in Seq(Nat) : /\ d \in Ancestors(c) /\ Parent(c) = d
                             /\ c = p \/ c \in Ancestors(p)
  BY <1>4, <1>9, <1>10, ChildTowards
<1>12. Ancestors(c) = {d} \union Ancestors(d) /\ Len(c) = Len(d) + 1
  BY <1>10, <1>11, ChildAncestors
<1>13. c \notin DOMAIN rows
  <2>1. c \in Ancestors(p) /\ c \in DOMAIN rows => Len(c) <= Len(d)
    BY <1>9
  <2>. QED
    BY <2>1, <1>10, <1>11, <1>12
<1>14. c \notin DOMAIN tree /\ c \in DOMAIN full
  BY <1>3, <1>4, <1>6, <1>11, <1>13 DEF UpTo
<1>15. UpTo(c) \subseteq UpTo(p)
  BY <1>4, <1>11, AncestorTrans DEF UpTo
<1>16. UpTo(d) \intersect miss.absent = {}
  BY <1>5, <1>10
<1>17. c \in miss.absent
  BY <1>4, <1>5, <1>12, <1>14, <1>15, <1>16 DEF UpTo
<1>18. d \in DOMAIN miss.cut
  BY <1>2, <1>11, <1>17 DEF IsMiss
<1>. QED
  BY <1>1, <1>8, <1>9, <1>18

\* What is missing below an endpoint that has a row, and not hidden by a collapsed
\* directory, is below no collapsed directory of the scan.
LEMMA MissingUnfolded ==
  ASSUME NEW rows, NEW tree, IsScan(rows, tree), NEW path \in DOMAIN rows,
         NEW ends, ends = EndpointRows(rows, path),
         NEW s \in Seq(Nat), s \notin DOMAIN ends, ~ HiddenBelow(s, ends)
  PROVE  /\ path \o s \notin DOMAIN rows
         /\ \A a \in Ancestors(path \o s) : ~ (a \in DOMAIN rows /\ rows[a].collapsed)
<1>1. path \in Seq(Nat) /\ DOMAIN rows \subseteq Seq(Nat)
  BY ScanRows
<1>2. path \o s \notin DOMAIN rows
  BY <1>1, EndpointIs
<1>. SUFFICES ASSUME NEW a \in Ancestors(path \o s), a \in DOMAIN rows, rows[a].collapsed
              PROVE  FALSE
  BY <1>2
<1>3. PICK p : p = path \o s
  OBVIOUS
<1>4. /\ p \in Seq(Nat) /\ Len(p) = Len(path) + Len(s)
      /\ \A i \in 1 .. Len(path) + Len(s) :
           p[i] = IF i <= Len(path) THEN path[i] ELSE s[i - Len(path)]
  BY <1>1, <1>3, ConcatProperties
<1>5. a \in Ancestors(p) /\ a \in DOMAIN rows /\ rows[a].collapsed
  BY <1>3
<1>6. /\ a \in Seq(Nat) /\ Len(a) < Len(p) /\ \A i \in 1 .. Len(a) : a[i] = p[i]
  BY <1>4, <1>5, AncestorIs
<1>7. Len(path) \in Nat /\ Len(s) \in Nat /\ Len(a) \in Nat /\ Len(p) \in Nat
  BY <1>1, <1>4, <1>6, LenProperties
<1>8. CASE Len(a) < Len(path)
  <2>1. \A i \in 1 .. Len(a) : a[i] = path[i]
    <3>. TAKE i \in 1 .. Len(a)
    <3>1. i \in 1 .. Len(path) + Len(s) /\ i <= Len(path)
      BY <1>7, <1>8
    <3>. QED
      BY <1>4, <1>6, <3>1
  <2>2. a \in Ancestors(path)
    BY <1>1, <1>6, <1>8, <2>1, AncestorIs
  <2>. QED
    BY <1>5, <2>2, NoRowsBelowFold
<1>9. CASE Len(path) <= Len(a)
  <2>1. MatchesPathPrefix(a, path)
    <3>1. \A i \in 1 .. Len(path) : path[i] = a[i]
      <4>. TAKE i \in 1 .. Len(path)
      <4>1. i \in 1 .. Len(a) /\ i \in 1 .. Len(path) + Len(s) /\ i <= Len(path)
        BY <1>7, <1>9
      <4>. QED
        BY <1>4, <1>6, <4>1
    <3>. QED
      BY <1>1, <1>6, <1>9, <3>1, PrefixIs
  <2>2. PICK t : t = SubSeq(a, Len(path) + 1, Len(a))
    OBVIOUS
  <2>3. t \in Seq(Nat) /\ path \o t = a
    BY <1>1, <1>6, <2>1, <2>2, SuffixIs
  <2>4. t \in DOMAIN ends /\ ends[t] = rows[a]
    <3>1. path \o t \in DOMAIN rows
      BY <1>5, <2>3
    <3>2. t \in DOMAIN ends
      BY <1>1, <2>3, <3>1, EndpointIs
    <3>3. ends[t] = rows[path \o t]
      BY <1>1, <3>2, EndpointIs
    <3>. QED
      BY <2>3, <3>2, <3>3
  <2>5. t \in Ancestors(s)
    <3>1. /\ Len(a) = Len(path) + Len(t) /\ Len(t) \in Nat
          /\ \A i \in 1 .. Len(path) + Len(t) :
               a[i] = IF i <= Len(path) THEN path[i] ELSE t[i - Len(path)]
      BY <1>1, <2>3, ConcatProperties, LenProperties
    <3>2. Len(t) < Len(s)
      BY <1>4, <1>6, <1>7, <3>1
    <3>3. ASSUME NEW i \in 1 .. Len(t) PROVE t[i] = s[i]
      <4>1. PICK j \in Nat : j = Len(path) + i
        BY <1>7
      <4>2. /\ j \in 1 .. Len(path) + Len(t) /\ j \in 1 .. Len(path) + Len(s)
            /\ j \in 1 .. Len(a) /\ ~ (j <= Len(path)) /\ j - Len(path) = i
        BY <1>7, <3>1, <3>2, <4>1
      <4>3. a[j] = t[i]
        BY <3>1, <4>2
      <4>4. p[j] = s[i]
        BY <1>4, <4>2
      <4>. QED
        BY <1>6, <4>2, <4>3, <4>4
    <3>. QED
      BY <2>3, <3>2, <3>3, AncestorIs
  <2>6. ends[t].collapsed
    BY <1>5, <2>4
  <2>7. HiddenBelow(s, ends)
    BY <2>4, <2>5, <2>6 DEF HiddenBelow
  <2>. QED
    BY <2>7
<1>. QED
  BY <1>7, <1>8, <1>9

\* A scan stores nothing below a directory it collapses, and yet what a report
\* or a history lists as deleted does not exist any more, and what a history
\* lists as created did not exist before (_query_diff_rows,
\* _history_classification), whichever directories the two scans folded; unless
\* the scan left it out, and then the nearest row above it carries an error, or
\* a virtual filesystem is mounted there.
THEOREM DeletedIsGone == Spec => []DeletedAreGone
<1>1. PairInv => DeletedAreGone
  <2>. SUFFICES ASSUME PairInv, Paired
                PROVE  /\ \A r \in Range(DeletedRows(AllRows)) : GoneOrUnread(isThere, current, r.path)
                       /\ \A from \in Usable(baseline), to \in Usable(current) :
                            \A r \in HistoryRows(from, to) :
                              /\ r.class = "deleted" => GoneOrUnread(isThere, current, to \o r.suffix)
                              /\ r.class = "created" => GoneOrUnread(wasThere, baseline, from \o r.suffix)
    BY DEF DeletedAreGone
  <2>1. /\ IsScan(baseline, old) /\ IsScan(current, new) /\ new # Nothing
        /\ IsReading(wasThere, old, baseline) /\ IsReading(isThere, new, current)
    BY DEF PairInv, Paired
  <2>2. DOMAIN baseline \subseteq Seq(Nat) /\ DOMAIN current \subseteq Seq(Nat)
    BY <2>1, ScanRows
  <2>3. ASSUME NEW r \in Range(DeletedRows(AllRows))
        PROVE  GoneOrUnread(isThere, current, r.path)
    <3>1. r \in AllRows /\ r.class = "deleted"
      BY <2>3, DeletedRowsAre
    <3>2. PICK C : C = CurrentCollapsedPaths(Root)
      OBVIOUS
    <3>3. PICK p : p = r.path /\ r = DiffRow(p, C)
      BY <3>1, <3>2, DiffRowsAre DEF AllRows
    <3>4. Classification(p, C) = "deleted"
      BY <3>1, <3>3 DEF DiffRow
    <3>5. SqlClassification(p) = "deleted" /\ Ancestors(p) \intersect C = {}
      BY <3>4 DEF Classification
    <3>6. p \notin DOMAIN current
      BY <3>5 DEF SqlClassification, Direction
    <3>7. ASSUME NEW a \in Ancestors(p), a \in DOMAIN current, current[a].collapsed
          PROVE  FALSE
      <4>1. a \in Seq(Nat)
        BY <2>2, <3>7
      <4>2. MatchesPathPrefix(a, Root)
        BY <4>1, RootMatches DEF Root
      <4>3. a \in C
        BY <3>2, <3>7, <4>2 DEF CurrentCollapsedPaths
      <4>. QED
        BY <3>5, <3>7, <4>3
    <3>8. GoneOrUnread(isThere, current, p)
      BY <2>1, <3>6, <3>7, UnreadHasError
    <3>. QED
      BY <3>3, <3>8
  <2>4. ASSUME NEW from \in Usable(baseline), NEW to \in Usable(current),
               NEW r \in HistoryRows(from, to)
        PROVE  /\ r.class = "deleted" => GoneOrUnread(isThere, current, to \o r.suffix)
               /\ r.class = "created" => GoneOrUnread(wasThere, baseline, from \o r.suffix)
    <3>0. from \in DOMAIN baseline /\ to \in DOMAIN current
      BY DEF Usable
    <3>1. PICK previous, latest : /\ previous = EndpointRows(baseline, from)
                                  /\ latest = EndpointRows(current, to)
      OBVIOUS
    <3>2. PICK s \in DOMAIN previous \union DOMAIN latest :
            r.suffix = s /\ r.class = HistoryClassification(s, previous, latest)
      BY <3>1 DEF HistoryRows
    <3>3. s \in Seq(Nat)
      BY <2>1, <2>2, <3>0, <3>1, <3>2, EndpointIs
    <3>4. ASSUME r.class = "deleted" PROVE GoneOrUnread(isThere, current, to \o s)
      <4>1. s \notin DOMAIN latest /\ ~ HiddenBelow(s, latest)
        BY <3>2, <3>4 DEF HistoryClassification, Direction
      <4>2. /\ to \o s \notin DOMAIN current
            /\ \A a \in Ancestors(to \o s) : ~ (a \in DOMAIN current /\ current[a].collapsed)
        BY <2>1, <3>0, <3>1, <3>3, <4>1, MissingUnfolded
      <4>. QED
        BY <2>1, <4>2, UnreadHasError
    <3>5. ASSUME r.class = "created" PROVE GoneOrUnread(wasThere, baseline, from \o s)
      <4>1. s \notin DOMAIN previous /\ ~ HiddenBelow(s, previous)
        BY <3>2, <3>5 DEF HistoryClassification, Direction
      <4>2. /\ from \o s \notin DOMAIN baseline
            /\ \A a \in Ancestors(from \o s) : ~ (a \in DOMAIN baseline /\ baseline[a].collapsed)
        BY <2>1, <3>0, <3>1, <3>3, <4>1, MissingUnfolded
      <4>3. old # Nothing
        <5>1. from \in DOMAIN old
          BY <2>1, <3>0, ScanRows
        <5>. QED
          BY <5>1 DEF Nothing
      <4>. QED
        BY <2>1, <4>2, <4>3, UnreadHasError
    <3>. QED
      BY <3>2, <3>4, <3>5
  <2>. QED
    BY <2>3, <2>4
<1>. QED
  BY <1>1, PairInvariance, PTL

--------------------------------------------------------------------------------
(* The growth frontier *)

\* Some rows of a diff, as the frontier orders them: largest growth first.
LEMMA CandidatesOrdered ==
  ASSUME PairInv, Paired, NEW S, S \subseteq AllRows,
         NEW list, list = Ordered(S, CandidateKey)
  PROVE  /\ IsFiniteSet(S) /\ list \in Seq(S) /\ Range(list) = S
         /\ \A i, j \in 1 .. Len(list) : i < j => list[j].disk <= list[i].disk
<1>. DEFINE key == [s \in S |-> CandidateKey(s)]
            before == {x \in S \X S : RowLess(key[x[1]], x[1].path, key[x[2]], x[2].path)}
<1>1. /\ IsFiniteSet(AllRows)
      /\ \A s \in AllRows : s.path \in Seq(Nat) /\ s.disk \in Int
      /\ \A s, t \in AllRows : s.path = t.path => s = t
  BY DiffRowsKeyed DEF AllRows
<1>2. IsFiniteSet(S)
  BY <1>1, FS_Subset
<1>3. ASSUME NEW s \in S
      PROVE  /\ key[s] = <<-s.disk, -Len(s.path)>>
             /\ key[s] \in [1 .. 2 -> Int] /\ Len(key[s]) = 2
  <2>1. s.path \in Seq(Nat) /\ s.disk \in Int
    BY <1>1
  <2>2. Len(s.path) \in Nat
    BY <2>1, LenProperties
  <2>3. key[s] = <<-s.disk, -Len(s.path)>>
    BY DEF CandidateKey, Depth
  <2>4. PICK a, b \in Int : a = -s.disk /\ b = -Len(s.path)
    BY <2>1, <2>2
  <2>5. <<a, b>> \in [1 .. 2 -> Int] /\ Len(<<a, b>>) = 2
    OBVIOUS
  <2>. QED
    BY <2>3, <2>4, <2>5
<1>4. IsOrder(before, S)
  <2>1. /\ \A s \in S : Len(key[s]) = 2 /\ s.path \in Seq(Nat)
        /\ \A s, t \in S : s.path = t.path => s = t
        /\ \A s \in S : key[s] \in [1 .. 2 -> Int]
    BY <1>1, <1>3
  <2>. HIDE DEF key
  <2>. QED
    BY <2>1, RowOrder
<1>5. list = SortedBy(S, before)
  <2>1. before = {x \in S \X S : RowLess(CandidateKey(x[1]), x[1].path,
                                         CandidateKey(x[2]), x[2].path)}
    OBVIOUS
  <2>. QED
    BY <2>1 DEF Ordered
<1>6. /\ list \in Seq(S) /\ Range(list) = S
      /\ \A i, j \in 1 .. Len(list) : i < j => <<list[i], list[j]>> \in before
  <2>. HIDE DEF before
  <2>. QED
    BY <1>2, <1>4, <1>5, SortedIs
<1>7. ASSUME NEW s \in S, NEW t \in S, <<s, t>> \in before PROVE t.disk <= s.disk
  <2>1. s.disk \in Int /\ t.disk \in Int
    BY <1>1
  <2>2. key[s][1] = -s.disk /\ key[t][1] = -t.disk /\ Len(key[s]) = 2
    BY <1>3
  <2>3. RowLess(key[s], s.path, key[t], t.path)
    BY <1>7
  <2>. HIDE DEF key
  <2>4. CASE key[s] = key[t]
    BY <2>1, <2>2, <2>4
  <2>5. CASE KeyLess(key[s], key[t])
    <3>1. PICK n \in 1 .. 2 : key[s][n] < key[t][n] /\ \A m \in 1 .. n - 1 : key[s][m] = key[t][m]
      BY <2>2, <2>5 DEF KeyLess
    <3>2. n = 1 \/ key[s][1] = key[t][1]
      BY <3>1
    <3>. QED
      BY <2>1, <2>2, <3>1, <3>2
  <2>. QED
    BY <2>3, <2>4, <2>5 DEF RowLess
<1>. QED
  <2>1. \A i \in 1 .. Len(list) : list[i] \in S
    BY <1>6, ElementOfSeq
  <2>. HIDE DEF before
  <2>. QED
    BY <1>2, <1>6, <1>7, <2>1

\* One turn of the pass over the surviving candidates.
Visit(list, cands, kept, n) ==
  IF list[n] \in Suppressed(kept, cands) THEN kept ELSE kept \union {list[n]}

\* f holds what the pass has kept after each of its first n turns.
HoldsKept(f, list, cands, n) ==
  f = [k \in 0 .. n |-> IF k = 0 THEN {} ELSE Visit(list, cands, f[k - 1], k)]

\* The definition of the pass, with its recursive function named.
LEMMA RetainedDefinition ==
  ASSUME NEW surviving, NEW cands, NEW list, list = Ordered(surviving, CandidateKey)
  PROVE  RetainedOf(surviving, cands) =
           (CHOOSE f : HoldsKept(f, list, cands, Len(list)))[Len(list)]
BY DEF RetainedOf, HoldsKept, Visit

\* The recursion of the pass defines what it keeps.
LEMMA KeptExists ==
  ASSUME NEW list, NEW cands, NEW N \in Nat
  PROVE  \E f : HoldsKept(f, list, cands, N)
<1>. DEFINE Bad == {n \in Nat : ~ \E f : HoldsKept(f, list, cands, n)}
<1>1. SUFFICES ASSUME Bad # {} PROVE FALSE
  OBVIOUS
<1>2. PICK n \in Bad : \A m \in Bad : n <= m
  <2>1. Bad \subseteq Nat
    OBVIOUS
  <2>. HIDE DEF Bad
  <2>. QED
    BY <1>1, <2>1, LeastNumber
<1>3. CASE n = 0
  <2>1. HoldsKept([k \in 0 .. 0 |-> {}], list, cands, 0)
    BY DEF HoldsKept
  <2>. QED
    BY <2>1, <1>2, <1>3
<1>4. CASE n # 0
  <2>1. n - 1 \in Nat /\ n - 1 < n
    BY <1>4
  <2>2. n - 1 \notin Bad
    BY <2>1, <1>2
  <2>3. PICK g : HoldsKept(g, list, cands, n - 1)
    BY <2>1, <2>2
  <2>. DEFINE h == [k \in 0 .. n |-> IF k = n THEN Visit(list, cands, g[n - 1], n) ELSE g[k]]
  <2>4. \A k \in 0 .. n - 1 : h[k] = g[k]
    BY <2>1
  <2>5. ASSUME NEW k \in 0 .. n
        PROVE  h[k] = IF k = 0 THEN {} ELSE Visit(list, cands, h[k - 1], k)
    <3>1. CASE k = n
      <4>1. h[k - 1] = g[n - 1] /\ k # 0
        BY <3>1, <2>1, <1>4
      <4>. QED
        BY <4>1, <3>1
    <3>2. CASE k # n
      <4>1. k \in 0 .. n - 1 /\ h[k] = g[k] /\ (k # 0 => k - 1 \in 0 .. n - 1)
        BY <3>2, <2>1
      <4>2. k # 0 => h[k - 1] = g[k - 1]
        BY <4>1, <2>4
      <4>3. g[k] = IF k = 0 THEN {} ELSE Visit(list, cands, g[k - 1], k)
        BY <4>1, <2>3 DEF HoldsKept
      <4>. QED
        BY <4>1, <4>2, <4>3
    <3>. QED
      BY <3>1, <3>2
  <2>6. HoldsKept(h, list, cands, n)
    <3>1. h = [k \in 0 .. n |-> h[k]]
      OBVIOUS
    <3>. HIDE DEF h
    <3>. QED
      BY <3>1, <2>5 DEF HoldsKept
  <2>. QED
    BY <2>6, <1>2
<1>. QED
  BY <1>2, <1>3, <1>4

\* What has been kept of the first n candidates: each of them is kept or has a
\* kept one above it, and no two of the kept ones are one above the other.
KeptOf(kept, list, n) ==
  /\ kept \subseteq {list[i] : i \in 1 .. n}
  /\ \A i \in 1 .. n : \/ list[i] \in kept
                       \/ \E a \in kept : a.path \in Ancestors(list[i].path)
  /\ \A a, d \in kept : a.path \notin Ancestors(d.path)

\* The pass keeps an antichain of candidates that covers all of them.  No
\* candidate has a stand-in among them, so one that is above another has grown by
\* more and is visited earlier.
LEMMA PassKeeps ==
  ASSUME NEW S, NEW cands, S \subseteq cands, NEW list \in Seq(S),
         \A s \in S : s.disk \in Int /\ s.disk > 0 /\ s.path \in Seq(Nat),
         \A s, t \in S : s.path \in Ancestors(t.path) => ~ Dominates(t, s),
         \A i, j \in 1 .. Len(list) : i < j => list[j].disk <= list[i].disk,
         NEW f, HoldsKept(f, list, cands, Len(list))
  PROVE  KeptOf(f[Len(list)], list, Len(list))
<1>. DEFINE N == Len(list)
            Bad == {n \in 0 .. N : ~ KeptOf(f[n], list, n)}
<1>1. N \in Nat /\ \A i \in 1 .. N : list[i] \in S
  BY LenProperties, ElementOfSeq
<1>2. SUFFICES ASSUME Bad # {} PROVE FALSE
  BY <1>1
<1>3. PICK n \in Bad : \A m \in Bad : n <= m
  <2>1. Bad \subseteq Nat
    BY <1>1
  <2>. HIDE DEF Bad
  <2>. QED
    BY <1>2, <2>1, LeastNumber
<1>4. n \in 0 .. N /\ n \in Nat /\ ~ KeptOf(f[n], list, n)
  BY <1>1, <1>3
<1>5. f[n] = IF n = 0 THEN {} ELSE Visit(list, cands, f[n - 1], n)
  BY <1>4 DEF HoldsKept
<1>6. n # 0
  <2>. SUFFICES ASSUME n = 0 PROVE FALSE
    OBVIOUS
  <2>1. KeptOf({}, list, 0)
    BY DEF KeptOf
  <2>. QED
    BY <2>1, <1>4, <1>5
<1>7. n - 1 \in Nat /\ n - 1 \in 0 .. N /\ n \in 1 .. N
  BY <1>1, <1>4, <1>6
<1>8. PICK kept : kept = f[n - 1]
  OBVIOUS
<1>9. KeptOf(kept, list, n - 1)
  BY <1>3, <1>7, <1>8
<1>10. PICK c : c = list[n]
  OBVIOUS
<1>11. c \in S /\ c \in cands /\ \A a \in kept : \E i \in 1 .. n - 1 : a = list[i] /\ a \in S
  <2>1. c \in S
    BY <1>1, <1>7, <1>10
  <2>2. ASSUME NEW a \in kept PROVE \E i \in 1 .. n - 1 : a = list[i] /\ a \in S
    <3>1. PICK i \in 1 .. n - 1 : a = list[i]
      BY <1>9 DEF KeptOf
    <3>2. i \in 1 .. N
      BY <1>1, <1>7
    <3>. QED
      BY <1>1, <3>1, <3>2
  <2>. QED
    BY <2>1, <2>2
<1>12. \A i \in 1 .. n : i = n \/ i \in 1 .. n - 1
  BY <1>7
<1>13. CASE c \in Suppressed(kept, cands)
  <2>1. f[n] = kept
    BY <1>5, <1>6, <1>8, <1>10, <1>13 DEF Visit
  <2>2. \E a \in kept : a.path \in Ancestors(c.path)
    BY <1>13 DEF Suppressed
  <2>3. KeptOf(kept, list, n)
    BY <1>7, <1>9, <1>10, <1>12, <2>2 DEF KeptOf
  <2>. QED
    BY <1>4, <2>1, <2>3
<1>14. CASE c \notin Suppressed(kept, cands)
  <2>1. f[n] = kept \union {c}
    BY <1>5, <1>6, <1>8, <1>10, <1>14 DEF Visit
  <2>2. \A a \in kept : a.path \notin Ancestors(c.path)
    BY <1>11, <1>14 DEF Suppressed
  <2>3. ASSUME NEW d \in kept, c.path \in Ancestors(d.path) PROVE FALSE
    <3>1. PICK i \in 1 .. n - 1 : d = list[i] /\ d \in S
      BY <1>11, <2>3
    <3>2. i \in 1 .. N /\ i < n
      BY <1>1, <1>7
    <3>3. c.disk <= d.disk
      BY <1>7, <1>10, <3>1, <3>2
    <3>4. ~ (100 * d.disk >= 95 * c.disk)
      BY <1>11, <2>3, <3>1 DEF Dominates
    <3>5. c.disk \in Int /\ d.disk \in Int /\ c.disk > 0
      BY <1>11, <3>1
    <3>. QED
      BY <3>3, <3>4, <3>5
  <2>4. c.path \notin Ancestors(c.path)
    BY <1>11, AncestorIs, LenProperties
  <2>5. KeptOf(kept \union {c}, list, n)
    <3>1. kept \union {c} \subseteq {list[i] : i \in 1 .. n}
      BY <1>7, <1>9, <1>10 DEF KeptOf
    <3>2. ASSUME NEW i \in 1 .. n
          PROVE  \/ list[i] \in kept \union {c}
                 \/ \E a \in kept \union {c} : a.path \in Ancestors(list[i].path)
      BY <1>9, <1>10, <1>12 DEF KeptOf
    <3>3. \A a, d \in kept \union {c} : a.path \notin Ancestors(d.path)
      BY <1>9, <2>2, <2>3, <2>4 DEF KeptOf
    <3>. QED
      BY <3>1, <3>2, <3>3 DEF KeptOf
  <2>. QED
    BY <1>4, <2>1, <2>5
<1>. QED
  BY <1>13, <1>14

\* The frontier of a report: candidates without a stand-in, none above another,
\* and together above or at all such candidates.
LEMMA FrontierIs ==
  ASSUME PairInv, Paired, NEW cands, cands = Candidates(AllRows),
         NEW kept, kept = Range(PruneGrowthFrontier(AllRows))
  PROVE  /\ cands \subseteq AllRows /\ IsFiniteSet(cands)
         /\ kept \subseteq Surviving(cands) /\ IsFiniteSet(kept)
         /\ \A s \in Surviving(cands) : \/ s \in kept
                                        \/ \E a \in kept : a.path \in Ancestors(s.path)
         /\ \A a, d \in kept : a.path \notin Ancestors(d.path)
<1>1. cands \subseteq AllRows /\ \A c \in cands : c.disk > 0
  BY DEF Candidates
<1>2. /\ IsFiniteSet(AllRows)
      /\ \A s \in AllRows : s.path \in Seq(Nat) /\ s.disk \in Int
  BY DiffRowsKeyed DEF AllRows
<1>3. PICK S : S = Surviving(cands)
  OBVIOUS
<1>4. S \subseteq cands /\ S \subseteq AllRows
  BY <1>1, <1>3 DEF Surviving
<1>5. PICK list : list = Ordered(S, CandidateKey)
  OBVIOUS
<1>6. /\ list \in Seq(S) /\ Range(list) = S
      /\ \A i, j \in 1 .. Len(list) : i < j => list[j].disk <= list[i].disk
  BY <1>4, <1>5, CandidatesOrdered
<1>7. PICK f : f = CHOOSE g : HoldsKept(g, list, cands, Len(list))
  OBVIOUS
<1>8. HoldsKept(f, list, cands, Len(list))
  <2>1. Len(list) \in Nat
    BY <1>6, LenProperties
  <2>. QED
    BY <1>7, <2>1, KeptExists
<1>9. PICK K : K = f[Len(list)]
  OBVIOUS
<1>10. RetainedOf(S, cands) = K
  BY <1>5, <1>7, <1>9, RetainedDefinition
<1>11. KeptOf(K, list, Len(list))
  <2>1. \A s \in S : s.disk \in Int /\ s.disk > 0 /\ s.path \in Seq(Nat)
    BY <1>1, <1>2, <1>4
  <2>2. ASSUME NEW s \in S, NEW t \in S, s.path \in Ancestors(t.path)
        PROVE  ~ Dominates(t, s)
    BY <1>3, <1>4, <2>2 DEF Surviving, StandIns
  <2>. QED
    BY <1>4, <1>6, <1>8, <1>9, <2>1, <2>2, PassKeeps
<1>12. K \subseteq S
  <2>1. \A i \in 1 .. Len(list) : list[i] \in S
    BY <1>6, ElementOfSeq
  <2>. QED
    BY <1>11, <2>1 DEF KeptOf
<1>13. kept = K
  <2>1. PruneGrowthFrontier(AllRows) = Ordered(K, CandidateKey)
    BY <1>3, <1>10 DEF PruneGrowthFrontier
  <2>2. K \subseteq AllRows
    BY <1>4, <1>12
  <2>. QED
    BY <2>1, <2>2, CandidatesOrdered
<1>14. \A s \in S : \E i \in 1 .. Len(list) : s = list[i]
  BY <1>6, LenProperties DEF Range
<1>15. IsFiniteSet(cands) /\ IsFiniteSet(kept)
  <2>1. kept \subseteq AllRows
    BY <1>4, <1>12, <1>13
  <2>. QED
    BY <1>1, <1>2, <2>1, FS_Subset
<1>16. \A s \in S : s \in kept \/ \E a \in kept : a.path \in Ancestors(s.path)
  BY <1>11, <1>13, <1>14 DEF KeptOf
<1>17. \A a, d \in kept : a.path \notin Ancestors(d.path)
  BY <1>11, <1>13 DEF KeptOf
<1>. QED
  BY <1>1, <1>3, <1>12, <1>13, <1>15, <1>16, <1>17

\* No growth falls through the frontier, on any pair of trees (prune_growth_frontier):
\* below each growing directory there is a last one, which has no stand-in and is
\* listed unless a directory above it is.
THEOREM AllGrowthCovered == Spec => []FrontierCovers
<1>1. PairInv => FrontierCovers
  <2>. SUFFICES ASSUME PairInv, Paired,
                       NEW cands, cands = Candidates(AllRows),
                       NEW kept, kept = Range(PruneGrowthFrontier(AllRows)),
                       NEW c \in cands
                PROVE  \E k \in kept : \/ MatchesPathPrefix(c.path, k.path)
                                       \/ MatchesPathPrefix(k.path, c.path)
    BY DEF FrontierCovers
  <2>1. /\ cands \subseteq AllRows /\ IsFiniteSet(cands)
        /\ \A s \in Surviving(cands) : \/ s \in kept
                                       \/ \E a \in kept : a.path \in Ancestors(s.path)
    BY FrontierIs
  <2>2. \A d \in cands : d.path \in Seq(Nat)
    BY <2>1, DiffRowsKeyed DEF AllRows
  <2>. DEFINE T == {d \in cands : d = c \/ c.path \in Ancestors(d.path)}
              below(d) == {e \in cands : d.path \in Ancestors(e.path)}
              B == {below(d) : d \in T}
  <2>3. PICK A \in B : \A U \in B : U \subseteq A => U = A
    <3>1. B \subseteq SUBSET cands
      OBVIOUS
    <3>2. B # {}
      <4>1. below(c) \in B
        OBVIOUS
      <4>. QED
        BY <4>1
    <3>. HIDE DEF B
    <3>. QED
      BY <2>1, <3>1, <3>2, SmallestSubset
  <2>4. PICK d \in T : A = below(d)
    BY <2>3
  <2>5. ASSUME NEW e \in below(d) PROVE FALSE
    <3>1. e \in cands /\ d.path \in Ancestors(e.path) /\ e.path \in Seq(Nat)
      BY <2>2, <2>5
    <3>2. e \in T
      <4>1. c.path \in Ancestors(e.path)
        BY <2>4, <3>1, AncestorTrans
      <4>. QED
        BY <3>1, <4>1
    <3>3. below(e) \subseteq below(d)
      <4>. SUFFICES ASSUME NEW x \in below(e) PROVE x \in below(d)
        OBVIOUS
      <4>1. x \in cands /\ e.path \in Ancestors(x.path) /\ x.path \in Seq(Nat)
        BY <2>2
      <4>2. d.path \in Ancestors(x.path)
        BY <3>1, <4>1, AncestorTrans
      <4>. QED
        BY <4>1, <4>2
    <3>4. e \notin below(e)
      BY <3>1, AncestorIs, LenProperties
    <3>5. below(e) \in B
      BY <3>2
    <3>6. below(e) = below(d)
      <4>. HIDE DEF below, B
      <4>. QED
        BY <2>3, <2>4, <3>3, <3>5
    <3>. QED
      BY <2>5, <3>4, <3>6
  <2>6. d \in Surviving(cands)
    <3>1. StandIns(d, cands) \subseteq below(d)
      BY DEF StandIns
    <3>. QED
      BY <2>4, <2>5, <3>1 DEF Surviving
  <2>7. /\ d.path \in Seq(Nat) /\ c.path \in Seq(Nat)
        /\ c.path = d.path \/ c.path \in Ancestors(d.path)
    BY <2>2, <2>4
  <2>8. CASE d \in kept
    BY <2>7, <2>8, BelowIs
  <2>9. ASSUME NEW a \in kept, a.path \in Ancestors(d.path)
        PROVE  MatchesPathPrefix(c.path, a.path) \/ MatchesPathPrefix(a.path, c.path)
    BY <2>7, <2>9, AncestorsCompare
  <2>. QED
    BY <2>1, <2>6, <2>8, <2>9
<1>. QED
  BY <1>1, PairInvariance, PTL

--------------------------------------------------------------------------------
(* Growth is counted once *)

\* The bytes in the row of a directory are those of its subtree.
LEMMA ScanDisk ==
  ASSUME NEW rows, NEW tree, IsScan(rows, tree), NEW p \in DOMAIN rows,
         NEW S, S = Subtree(tree, p), NEW f, f = [q \in S |-> tree[q].disk]
  PROVE  rows[p].disk = SumFunctionOnSet(f, S)
<1>1. PICK fold, cut : rows = ScanOf(tree, fold, cut)
  BY DEF IsScan
<1>. QED
  BY <1>1 DEF ScanOf, Total

\* A subtree is finite and holds natural numbers.
LEMMA SubtreeFacts ==
  ASSUME NEW tree, IsTree(tree), NEW p, NEW S, S = Subtree(tree, p)
  PROVE  /\ S \subseteq DOMAIN tree /\ S \subseteq Seq(Nat) /\ IsFiniteSet(S)
         /\ \A q \in S : tree[q].disk \in Nat /\ MatchesPathPrefix(q, p)
<1>1. /\ tree \in [DOMAIN tree -> [disk : Nat, apparent : Nat]]
      /\ IsFiniteSet(DOMAIN tree) /\ DOMAIN tree \subseteq Seq(Nat)
  BY TreeIs
<1>2. S \subseteq DOMAIN tree /\ \A q \in S : MatchesPathPrefix(q, p)
  BY DEF Subtree
<1>3. IsFiniteSet(S)
  BY <1>1, <1>2, FS_Subset
<1>. QED
  BY <1>1, <1>2, <1>3

\* No directory was folded away by the baseline that the current scan shows.
FoldsKept ==
  {p \in DOMAIN baseline : baseline[p].collapsed}
    \subseteq {p \in DOMAIN current : current[p].collapsed}

\* What the baseline had, as a diff takes it, is the bytes of the old subtree.
LEMMA PreviousDisk ==
  ASSUME PairInv, Paired, FoldsKept, NEW p \in DOMAIN current,
         NEW S, S = Subtree(old, p), NEW f, f = [q \in S |-> old[q].disk]
  PROVE  Size(baseline, p, "disk") = SumFunctionOnSet(f, S)
<1>1. IsScan(baseline, old) /\ IsScan(current, new)
  BY DEF PairInv, Paired
<1>2. CASE p \in DOMAIN baseline
  BY <1>1, <1>2, ScanDisk DEF Size
<1>3. CASE p \notin DOMAIN baseline
  <2>1. p \notin DOMAIN old
    <3>. SUFFICES ASSUME p \in DOMAIN old PROVE FALSE
      OBVIOUS
    <3>1. PICK a \in Ancestors(p) : a \in DOMAIN baseline /\ baseline[a].collapsed
      BY <1>1, <1>3, RowOrFold
    <3>2. a \in DOMAIN current /\ current[a].collapsed
      BY <3>1 DEF FoldsKept
    <3>. QED
      BY <1>1, <3>1, <3>2, NoRowsBelowFold
  <2>2. p \in Seq(Nat) /\ IsTree(old)
    BY <1>1, ScanRows DEF IsScan
  <2>3. S = {}
    <3>. SUFFICES ASSUME NEW q \in S PROVE FALSE
      OBVIOUS
    <3>1. q \in DOMAIN old /\ q \in Seq(Nat) /\ MatchesPathPrefix(q, p)
      BY <2>2, SubtreeFacts
    <3>2. q = p \/ p \in Ancestors(q)
      BY <2>2, <3>1, BelowIs
    <3>3. Ancestors(q) \subseteq DOMAIN old
      BY <2>2, <3>1, TreeIs
    <3>. QED
      BY <2>1, <3>1, <3>2, <3>3
  <2>4. Size(baseline, p, "disk") = 0
    BY <1>3 DEF Size
  <2>. QED
    BY <2>3, <2>4, SumEmpty
<1>. QED
  BY <1>2, <1>3

\* How much the files directly in a directory have grown.
DirectGrowth ==
  [p \in DOMAIN new |-> Larger(0, new[p].disk - IF p \in DOMAIN old THEN old[p].disk ELSE 0)]

\* A candidate grew by no more than the directories of its subtree did.
LEMMA GrowthWithin ==
  ASSUME PairInv, Paired, FoldsKept, NEW r \in Candidates(AllRows),
         NEW p, p = r.path, NEW S, S = Subtree(new, p), NEW grown, grown = DirectGrowth
  PROVE  r.disk <= SumFunctionOnSet(grown, S)
<1>1. IsScan(baseline, old) /\ IsScan(current, new) /\ IsTree(old) /\ IsTree(new)
  BY DEF PairInv, Paired, IsScan
<1>2. PICK C : C = CurrentCollapsedPaths(Root)
  OBVIOUS
<1>3. /\ r \in AllRows /\ r.class \in {"created", "grown"}
      /\ p \in DOMAIN baseline \union DOMAIN current /\ r = DiffRow(p, C)
  BY <1>2, DiffRowsAre DEF Candidates, AllRows
<1>4. r.class = Classification(p, C) /\ r.disk = Change(p, "disk")
  BY <1>3, DiffRowColumns
<1>5. p \in DOMAIN current
  <2>1. SqlClassification(p) \in {"created", "grown"}
    BY <1>3, <1>4 DEF Classification
  <2>. QED
    BY <1>3, <2>1 DEF SqlClassification
<1>. DEFINE R == Subtree(old, p)
            U == S \union R
            now == [q \in S |-> new[q].disk]
            then == [q \in R |-> old[q].disk]
            a == [q \in U |-> IF q \in S THEN new[q].disk ELSE 0]
            b == [q \in U |-> IF q \in R THEN old[q].disk ELSE 0]
            g == [q \in U |-> IF q \in S THEN grown[q] ELSE 0]
<1>6. /\ S \subseteq DOMAIN new /\ IsFiniteSet(S)
      /\ \A q \in S : new[q].disk \in Nat /\ MatchesPathPrefix(q, p)
      /\ R \subseteq DOMAIN old /\ IsFiniteSet(R) /\ \A q \in R : old[q].disk \in Nat
  BY <1>1, SubtreeFacts
<1>7. r.disk = SumFunctionOnSet(now, S) - SumFunctionOnSet(then, R)
  <2>1. current[p].disk = SumFunctionOnSet(now, S)
    BY <1>1, <1>5, ScanDisk
  <2>2. Size(baseline, p, "disk") = SumFunctionOnSet(then, R)
    BY <1>5, PreviousDisk
  <2>3. Change(p, "disk") = current[p].disk - Size(baseline, p, "disk")
    BY <1>5 DEF Change, Size
  <2>. QED
    BY <1>4, <2>1, <2>2, <2>3
<1>8. IsFiniteSet(U) /\ S \in SUBSET U /\ R \in SUBSET U
  BY <1>6, FS_Union
<1>9. ASSUME NEW q \in U
      PROVE  /\ a[q] \in Int /\ b[q] \in Int /\ g[q] \in Int /\ a[q] <= g[q] + b[q]
             /\ q \in S => a[q] = now[q] /\ g[q] = grown[q]
             /\ q \notin S => a[q] = 0 /\ g[q] = 0
             /\ IF q \in R THEN b[q] = then[q] ELSE b[q] = 0
  <2>1. q \in S => q \in DOMAIN new /\ (q \in DOMAIN old => q \in R)
    BY <1>6 DEF Subtree
  <2>2. b[q] \in Nat /\ IF q \in R THEN b[q] = then[q] ELSE b[q] = 0
    BY <1>6
  <2>3. CASE q \in S
    <3>1. grown[q] = Larger(0, new[q].disk - IF q \in DOMAIN old THEN old[q].disk ELSE 0)
      BY <2>1, <2>3 DEF DirectGrowth
    <3>2. PICK n \in Nat : n = new[q].disk
      BY <1>6, <2>3
    <3>3. PICK o \in Nat : o = IF q \in DOMAIN old THEN old[q].disk ELSE 0
      BY <1>6, <2>1, <2>3
    <3>4. o = b[q]
      BY <1>6, <2>1, <2>3, <3>3
    <3>5. grown[q] = IF 0 > n - o THEN 0 ELSE n - o
      BY <3>1, <3>2, <3>3 DEF Larger
    <3>6. a[q] = n /\ a[q] = now[q] /\ g[q] = grown[q]
      BY <2>3, <3>2
    <3>. HIDE DEF a, b, g, now, then
    <3>7. g[q] = IF 0 > n - o THEN 0 ELSE n - o
      BY <3>5, <3>6
    <3>8. a[q] \in Int /\ b[q] \in Int
      BY <3>2, <3>3, <3>4, <3>6
    <3>9. g[q] \in Int /\ n <= g[q] + o
      BY <3>2, <3>3, <3>7
    <3>. QED
      BY <2>2, <2>3, <3>4, <3>6, <3>8, <3>9
  <2>4. CASE q \notin S
    <3>1. a[q] = 0 /\ g[q] = 0
      BY <2>4
    <3>. HIDE DEF a, b, g, now, then
    <3>. QED
      BY <2>2, <2>4, <3>1
  <2>. QED
    BY <2>3, <2>4
<1>. HIDE DEF a, b, g, now, then, U, R
<1>10. SumFunctionOnSet(a, U) <= SumFunctionOnSet(g, U) + SumFunctionOnSet(b, U)
  BY <1>8, <1>9, SumBound
<1>11. /\ SumFunctionOnSet(a, U) = SumFunctionOnSet(a, S)
       /\ SumFunctionOnSet(g, U) = SumFunctionOnSet(g, S)
       /\ SumFunctionOnSet(b, U) = SumFunctionOnSet(b, R)
  BY <1>8, <1>9, SumWithout
<1>12. /\ SumFunctionOnSet(a, S) = SumFunctionOnSet(now, S)
       /\ SumFunctionOnSet(g, S) = SumFunctionOnSet(grown, S)
       /\ SumFunctionOnSet(b, R) = SumFunctionOnSet(then, R)
  BY <1>6, <1>8, <1>9, SumSame
<1>13. /\ SumFunctionOnSet(a, S) \in Int /\ SumFunctionOnSet(g, S) \in Int
       /\ SumFunctionOnSet(b, R) \in Int
  BY <1>6, <1>8, <1>9, SumInt
<1>. QED
  BY <1>7, <1>10, <1>11, <1>12, <1>13

\* On any pair of trees the rows of the frontier add up to no more than what the
\* directories really grew (summarize_diff_rows), unless the baseline had folded
\* away a directory that the current scan shows: the frontier is an antichain, so
\* the subtrees of its rows share no directory.
THEOREM GrowthCountedOnce == Spec => []GrowthNotDoubled
<1>1. PairInv => GrowthNotDoubled
  <2>. SUFFICES ASSUME PairInv, Paired, FoldsKept
                PROVE  ReportSummary(AllRows, PruneGrowthFrontier(AllRows)).growth <=
                         SumFunctionOnSet(DirectGrowth, DOMAIN new)
    BY DEF GrowthNotDoubled, FoldsKept, Total, DirectGrowth
  <2>1. PICK cands, kept, grown : /\ cands = Candidates(AllRows) /\ grown = DirectGrowth
                                  /\ kept = Range(PruneGrowthFrontier(AllRows))
    OBVIOUS
  <2>. DEFINE f == [r \in kept |-> r.disk]
              part == [r \in kept |-> Subtree(new, r.path)]
              D == DOMAIN new
  <2>2. /\ cands \subseteq AllRows /\ kept \subseteq cands /\ IsFiniteSet(kept)
        /\ \A r, s \in kept : r.path \notin Ancestors(s.path)
    <3>1. kept \subseteq Surviving(cands)
      BY <2>1, FrontierIs
    <3>. QED
      BY <2>1, <3>1, FrontierIs DEF Surviving
  <2>3. /\ \A r \in AllRows : r.path \in Seq(Nat) /\ r.disk \in Int
        /\ \A r, s \in AllRows : r.path = s.path => r = s
    BY DiffRowsKeyed DEF AllRows
  <2>4. IsTree(old) /\ IsTree(new)
    BY DEF PairInv, Paired, IsScan
  <2>5. IsFiniteSet(D) /\ \A p \in D : grown[p] \in Nat
    <3>1. IsFiniteSet(DOMAIN new) /\ \A p \in DOMAIN new : new[p].disk \in Nat
      BY <2>4, TreeIs
    <3>2. \A p \in DOMAIN old : old[p].disk \in Nat
      BY <2>4, TreeIs
    <3>3. ASSUME NEW p \in DOMAIN new PROVE grown[p] \in Nat
      <4>1. PICK n \in Nat : n = new[p].disk
        BY <3>1
      <4>2. PICK o \in Nat : o = IF p \in DOMAIN old THEN old[p].disk ELSE 0
        BY <3>2
      <4>3. grown[p] = IF 0 > n - o THEN 0 ELSE n - o
        BY <2>1, <4>1, <4>2 DEF DirectGrowth, Larger
      <4>. QED
        BY <4>3
    <3>. QED
      BY <3>1, <3>3
  <2>6. HasParts(part, f, kept, grown, D)
    <3>1. ASSUME NEW r \in kept
          PROVE  part[r] \subseteq D /\ f[r] <= SumFunctionOnSet(grown, part[r])
      <4>1. PICK S : S = Subtree(new, r.path)
        OBVIOUS
      <4>2. S \subseteq D
        BY <2>4, <4>1, SubtreeFacts
      <4>3. r.disk <= SumFunctionOnSet(grown, S)
        BY <2>1, <2>2, <4>1, GrowthWithin
      <4>. QED
        BY <4>1, <4>2, <4>3
    <3>2. ASSUME NEW r \in kept, NEW s \in kept, r # s, NEW q \in part[r], q \in part[s]
          PROVE  FALSE
      <4>1. /\ q \in Seq(Nat) /\ MatchesPathPrefix(q, r.path) /\ MatchesPathPrefix(q, s.path)
        BY <2>4, <3>2, SubtreeFacts
      <4>2. r.path \in Seq(Nat) /\ s.path \in Seq(Nat) /\ r.path # s.path
        BY <2>2, <2>3, <3>2
      <4>3. (r.path = q \/ r.path \in Ancestors(q)) /\ (s.path = q \/ s.path \in Ancestors(q))
        BY <4>1, <4>2, BelowIs
      <4>4. MatchesPathPrefix(r.path, s.path) \/ MatchesPathPrefix(s.path, r.path)
        BY <4>1, <4>2, <4>3, AncestorsCompare
      <4>5. s.path \in Ancestors(r.path) \/ r.path \in Ancestors(s.path)
        BY <4>2, <4>4, BelowIs
      <4>. QED
        BY <2>2, <4>5
    <3>. HIDE DEF part, f, D
    <3>. QED
      BY <3>1, <3>2 DEF HasParts
  <2>7. \A r \in kept : f[r] \in Int
    BY <2>2, <2>3
  <2>8. SumFunctionOnSet(f, kept) <= SumFunctionOnSet(grown, D)
    <3>. HIDE DEF part, f, D
    <3>. QED
      BY <2>2, <2>5, <2>6, <2>7, SumOfParts
  <2>9. ReportSummary(AllRows, PruneGrowthFrontier(AllRows)).growth = SumFunctionOnSet(f, kept)
    BY <2>1 DEF ReportSummary, Total
  <2>. QED
    BY <2>1, <2>8, <2>9
<1>. QED
  BY <1>1, PairInvariance, PTL

--------------------------------------------------------------------------------
(* What explain-path leaves unexplained *)

\* One turn of explain_path_breakdown over the children in list.
ListChild(list, descendants, limit, depth, maxDepth, earlier, n) ==
  IF Len(earlier.children) >= limit THEN earlier
  ELSE [shown |-> earlier.shown \union {list[n]},
        children |->
          Limited(Append(earlier.children, list[n])
                    \o (IF depth <= 1 THEN <<>> ELSE Below(list[n], descendants, maxDepth)),
                  limit)]

\* f holds what has been listed after each of the first n turns.
HoldsListed(f, list, descendants, limit, depth, maxDepth, n) ==
  f = [k \in 0 .. n |-> IF k = 0 THEN [shown |-> {}, children |-> <<>>]
                        ELSE ListChild(list, descendants, limit, depth, maxDepth, f[k - 1], k)]

\* The changed rows below target, and those of its children in their order.
Descendants(rows, target) ==
  {r \in rows : target.path \in Ancestors(r.path) /\ r.class # "unchanged"}

ChildList(rows, target) ==
  Ordered({r \in Descendants(rows, target) : Parent(r.path) = target.path}, ChildKey)

\* What the breakdown has listed after each turn, and the change of some rows.
Listing(list, descendants, limit, depth, maxDepth) ==
  CHOOSE f : HoldsListed(f, list, descendants, limit, depth, maxDepth, Len(list))

DiskChange(rows) == SumFunctionOnSet([r \in rows |-> r.disk], rows)

\* What it has listed in the end.
LastListed(rows, target, limit, depth) ==
  Listing(ChildList(rows, target), Descendants(rows, target), limit, depth,
          Depth(target) + depth)[Len(ChildList(rows, target))]

\* The breakdown is made of what was listed in the end.
EndsWith(rows, target, limit, depth, last) ==
  /\ ExplainPathBreakdown(rows, target, limit, depth).children = last.children
  /\ ExplainPathBreakdown(rows, target, limit, depth).unshown =
       target.disk - DiskChange(last.shown)

\* The definition of the breakdown, with its recursive function named.
LEMMA BreakdownDefinition ==
  ASSUME NEW rows, NEW target, NEW limit, NEW depth, depth # 0
  PROVE  EndsWith(rows, target, limit, depth, LastListed(rows, target, limit, depth))
BY DEF ExplainPathBreakdown, LastListed, Listing, HoldsListed, ListChild, Descendants, ChildList,
       DiskChange, Total, EndsWith

\* Keys of two numbers.
LEMMA PairKey == \A a, b \in Int : <<a, b>> \in [1 .. 2 -> Int] /\ Len(<<a, b>>) = 2
OBVIOUS

\* The recursion of the breakdown defines what it lists.
LEMMA ListedExists ==
  ASSUME NEW list, NEW D, NEW limit, NEW depth, NEW maxDepth, NEW N \in Nat
  PROVE  \E f : HoldsListed(f, list, D, limit, depth, maxDepth, N)
<1>. DEFINE Turn(e, n) == ListChild(list, D, limit, depth, maxDepth, e, n)
            Holds(f, n) == HoldsListed(f, list, D, limit, depth, maxDepth, n)
            Bad == {n \in Nat : ~ \E f : Holds(f, n)}
            none == [shown |-> {}, children |-> <<>>]
<1>0. \A f, n : Holds(f, n) <=> f = [k \in 0 .. n |-> IF k = 0 THEN none ELSE Turn(f[k - 1], k)]
  BY DEF HoldsListed
<1>. HIDE DEF Turn, Holds, none
<1>1. SUFFICES ASSUME Bad # {} PROVE FALSE
  BY DEF Holds
<1>2. PICK n \in Bad : \A m \in Bad : n <= m
  <2>1. Bad \subseteq Nat
    OBVIOUS
  <2>. HIDE DEF Bad
  <2>. QED
    BY <1>1, <2>1, LeastNumber
<1>3. CASE n = 0
  <2>1. PICK z : z = [k \in 0 .. 0 |-> none]
    OBVIOUS
  <2>2. z = [k \in 0 .. 0 |-> IF k = 0 THEN none ELSE Turn(z[k - 1], k)]
    BY <2>1
  <2>3. Holds(z, 0)
    BY <1>0, <2>2, Zenon
  <2>. QED
    BY <2>3, <1>2, <1>3
<1>4. CASE n # 0
  <2>1. n - 1 \in Nat /\ n - 1 < n
    BY <1>4
  <2>2. n - 1 \notin Bad
    BY <2>1, <1>2
  <2>3. PICK g : Holds(g, n - 1)
    BY <2>1, <2>2
  <2>. DEFINE h == [k \in 0 .. n |-> IF k = n THEN Turn(g[n - 1], n) ELSE g[k]]
  <2>4. \A k \in 0 .. n - 1 : h[k] = g[k]
    BY <2>1
  <2>5. ASSUME NEW k \in 0 .. n
        PROVE  h[k] = IF k = 0 THEN none ELSE Turn(h[k - 1], k)
    <3>1. CASE k = n
      <4>1. h[k - 1] = g[n - 1] /\ k # 0
        BY <3>1, <2>1, <1>4
      <4>. QED
        BY <4>1, <3>1
    <3>2. CASE k # n
      <4>1. k \in 0 .. n - 1 /\ h[k] = g[k] /\ (k # 0 => k - 1 \in 0 .. n - 1)
        BY <3>2, <2>1
      <4>2. k # 0 => h[k - 1] = g[k - 1]
        BY <4>1, <2>4
      <4>3. g[k] = IF k = 0 THEN none ELSE Turn(g[k - 1], k)
        BY <4>1, <2>3, <1>0
      <4>. QED
        BY <4>1, <4>2, <4>3
    <3>. QED
      BY <3>1, <3>2
  <2>6. Holds(h, n)
    <3>1. h = [k \in 0 .. n |-> h[k]]
      OBVIOUS
    <3>. HIDE DEF h
    <3>. QED
      BY <3>1, <2>5, <1>0
  <2>. QED
    BY <2>6, <1>2
<1>. QED
  BY <1>2, <1>3, <1>4

\* Each row of a finite set has a path of its own and a key of n numbers.
IsKeyed(S, key, n) ==
  /\ IsFiniteSet(S)
  /\ \A r \in S : key[r] \in [1 .. n -> Int] /\ Len(key[r]) = n /\ r.path \in Seq(Nat)
  /\ \A r, s \in S : r.path = s.path => r = s

\* The order of the keys.
KeyBefore(S, key) ==
  {x \in S \X S : RowLess(key[x[1]], x[1].path, key[x[2]], x[2].path)}

\* The rows of a set sorted by their keys: its elements, in their order.
LEMMA KeyedListIs ==
  ASSUME NEW S, NEW n \in Nat, NEW key, IsKeyed(S, key, n),
         NEW list, list = SortedBy(S, KeyBefore(S, key))
  PROVE  /\ list \in Seq(S) /\ Range(list) = S
         /\ \A i, j \in 1 .. Len(list) : i < j =>
              RowLess(key[list[i]], list[i].path, key[list[j]], list[j].path)
<1>1. PICK before : /\ before = {x \in S \X S : RowLess(key[x[1]], x[1].path, key[x[2]], x[2].path)}
                    /\ before = KeyBefore(S, key)
  BY DEF KeyBefore
<1>2. IsOrder(before, S) /\ IsFiniteSet(S)
  <2>1. /\ IsFiniteSet(S) /\ \A r \in S : key[r] \in [1 .. n -> Int]
        /\ \A r \in S : Len(key[r]) = n /\ r.path \in Seq(Nat)
        /\ \A r, s \in S : r.path = s.path => r = s
    BY DEF IsKeyed
  <2>. QED
    BY <1>1, <2>1, RowOrder
<1>3. /\ list \in Seq(S) /\ Range(list) = S
      /\ \A i, j \in 1 .. Len(list) : i < j => <<list[i], list[j]>> \in before
  BY <1>1, <1>2, SortedIs
<1>. QED
  BY <1>1, <1>3

\* The first rows of a list are rows of it.
LEMMA LimitedList ==
  ASSUME NEW S, NEW list \in Seq(S), NEW n \in Nat
  PROVE  Limited(list, n) \in Seq(S)
<1>1. Len(list) \in Nat /\ \A i \in 1 .. Len(list) : list[i] \in S
  BY LenProperties, ElementOfSeq
<1>2. PICK m \in Nat : m = (IF Len(list) < n THEN Len(list) ELSE n) /\ m <= Len(list)
  BY <1>1
<1>3. \A i \in 1 .. m : list[i] \in S
  BY <1>1, <1>2
<1>4. SubSeq(list, 1, m) \in Seq(S)
  BY <1>1, <1>2, <1>3, SubSeqProperties
<1>. QED
  BY <1>2, <1>4 DEF Limited

\* What is listed below a child are rows.
LEMMA BelowRows ==
  ASSUME NEW D, IsFiniteSet(D), \A r \in D : r.path \in Seq(Nat),
         \A r, s \in D : r.path = s.path => r = s, NEW child, NEW maxDepth
  PROVE  Below(child, D, maxDepth) \in Seq(D)
<1>. DEFINE S == {r \in D : child.path \in Ancestors(r.path) /\ Depth(r) <= maxDepth}
            key == [r \in S |-> <<Depth(r)>>]
<1>1. S \subseteq D /\ IsFiniteSet(S)
  BY FS_Subset
<1>2. \A r \in S : /\ key[r] = <<Depth(r)>> /\ key[r] \in [1 .. 1 -> Int] /\ Len(key[r]) = 1
                   /\ r.path \in Seq(Nat)
  <2>1. ASSUME NEW r \in S PROVE Depth(r) \in Int
    BY <1>1, LenProperties DEF Depth
  <2>. QED
    BY <1>1, <2>1
<1>3. PICK list : list = SortedBy(S, KeyBefore(S, key))
  OBVIOUS
<1>4. Below(child, D, maxDepth) = list
  BY <1>2, <1>3 DEF Below, Ordered, KeyBefore
<1>5. list \in Seq(S)
  <2>1. IsKeyed(S, key, 1)
    BY <1>1, <1>2 DEF IsKeyed
  <2>. HIDE DEF S, key
  <2>. QED
    BY <1>3, <2>1, KeyedListIs
<1>. HIDE DEF S
<1>6. list \in Seq(D)
  BY <1>1, <1>5, SeqMonotonic
<1>. QED
  BY <1>4, <1>6

\* If the list ends short of the limit, every child has been shown.
LEMMA AllListed ==
  ASSUME NEW D, IsFiniteSet(D), \A r \in D : r.path \in Seq(Nat),
         \A r, s \in D : r.path = s.path => r = s,
         NEW list \in Seq(D), NEW limit \in Nat, NEW depth, NEW maxDepth,
         NEW f, HoldsListed(f, list, D, limit, depth, maxDepth, Len(list)),
         Len(f[Len(list)].children) < limit
  PROVE  f[Len(list)].shown = Range(list)
<1>. DEFINE N == Len(list)
            Upto(n) == {list[i] : i \in 1 .. n}
            Good(e, n) == /\ e.children \in Seq(D)
                          /\ Len(e.children) < limit => e.shown = Upto(n)
            Bad == {n \in 0 .. N : ~ Good(f[n], n)}
<1>1. N \in Nat /\ \A i \in 1 .. N : list[i] \in D
  BY LenProperties, ElementOfSeq
<1>2. Range(list) = Upto(N)
  BY LenProperties DEF Range
<1>3. Bad = {}
  <2>1. SUFFICES ASSUME Bad # {} PROVE FALSE
    OBVIOUS
  <2>2. PICK n \in Bad : \A m \in Bad : n <= m
    <3>1. Bad \subseteq Nat
      BY <1>1
    <3>. HIDE DEF Bad
    <3>. QED
      BY <2>1, <3>1, LeastNumber
  <2>3. n \in 0 .. N /\ n \in Nat /\ ~ Good(f[n], n)
    BY <1>1, <2>2
  <2>4. f[n] = IF n = 0 THEN [shown |-> {}, children |-> <<>>]
               ELSE ListChild(list, D, limit, depth, maxDepth, f[n - 1], n)
    BY <2>3 DEF HoldsListed
  <2>5. n # 0
    <3>. SUFFICES ASSUME n = 0 PROVE FALSE
      OBVIOUS
    <3>1. f[n].shown = {} /\ f[n].children = <<>> /\ Upto(n) = {}
      BY <2>4
    <3>2. f[n].children \in Seq(D)
      BY <3>1, EmptySeq
    <3>. HIDE DEF Upto
    <3>. QED
      BY <2>3, <3>1, <3>2
  <2>6. n - 1 \in 0 .. N /\ n \in 1 .. N /\ ~ (n <= n - 1)
    BY <1>1, <2>3, <2>5
  <2>7. PICK e : e = f[n - 1]
    OBVIOUS
  <2>8. e.children \in Seq(D) /\ (Len(e.children) < limit => e.shown = Upto(n - 1))
    <3>1. n - 1 \notin Bad
      BY <2>2, <2>6
    <3>. HIDE DEF Upto
    <3>. QED
      BY <2>6, <2>7, <3>1
  <2>9. Len(e.children) \in Nat
    BY <2>8, LenProperties
  <2>10. CASE Len(e.children) >= limit
    <3>1. f[n] = e
      BY <2>4, <2>5, <2>7, <2>10 DEF ListChild
    <3>2. ~ (Len(e.children) < limit)
      BY <2>9, <2>10
    <3>. HIDE DEF Upto
    <3>. QED
      BY <2>3, <2>8, <3>1, <3>2
  <2>11. CASE ~ (Len(e.children) >= limit)
    <3>. DEFINE more == IF depth <= 1 THEN <<>> ELSE Below(list[n], D, maxDepth)
                longer == Append(e.children, list[n]) \o more
    <3>1. f[n].shown = e.shown \union {list[n]} /\ f[n].children = Limited(longer, limit)
      BY <2>4, <2>5, <2>7, <2>11 DEF ListChild
    <3>2. e.shown = Upto(n - 1)
      BY <2>8, <2>9, <2>11
    <3>3. f[n].shown = Upto(n)
      <4>1. Upto(n) = Upto(n - 1) \union {list[n]}
        <5>1. 1 .. n = (1 .. n - 1) \union {n}
          BY <2>3, <2>6
        <5>. QED
          BY <5>1, Zenon
      <4>. QED
        BY <3>1, <3>2, <4>1, Zenon
    <3>4. more \in Seq(D)
      BY BelowRows, EmptySeq
    <3>5. list[n] \in D
      BY <1>1, <2>6
    <3>6. longer \in Seq(D)
      <4>1. Append(e.children, list[n]) \in Seq(D)
        BY <2>8, <3>5, AppendProperties
      <4>. HIDE DEF more
      <4>. QED
        BY <3>4, <4>1, ConcatProperties
    <3>. HIDE DEF longer, Upto
    <3>7. f[n].children \in Seq(D)
      BY <3>1, <3>6, LimitedList
    <3>. QED
      BY <2>3, <3>3, <3>7
  <2>. QED
    BY <2>10, <2>11
<1>4. Good(f[N], N)
  BY <1>1, <1>3
<1>. HIDE DEF Upto
<1>. QED
  BY <1>2, <1>4, Zenon

\* A scan folded none of the directories in ps.
Unfolded(scan, ps) == \A a \in ps : ~ (a \in DOMAIN scan /\ scan[a].collapsed)

\* Where nothing above a directory is folded, a scan gives the bytes of its
\* subtree, or 0 if there is none.
LEMMA SizeIs ==
  ASSUME NEW scan, NEW tree, IsScan(scan, tree), NEW c \in Seq(Nat),
         Unfolded(scan, Ancestors(c)),
         NEW S, S = Subtree(tree, c), NEW f, f = [q \in S |-> tree[q].disk]
  PROVE  Size(scan, c, "disk") = SumFunctionOnSet(f, S)
<1>1. CASE c \in DOMAIN scan
  BY <1>1, ScanDisk DEF Size
<1>2. CASE c \notin DOMAIN scan
  <2>1. c \notin DOMAIN tree
    BY <1>2, RowOrFold DEF Unfolded
  <2>2. IsTree(tree)
    BY DEF IsScan
  <2>3. S = {}
    <3>. SUFFICES ASSUME NEW q \in S PROVE FALSE
      OBVIOUS
    <3>1. q \in DOMAIN tree /\ q \in Seq(Nat) /\ MatchesPathPrefix(q, c)
      BY <2>2, SubtreeFacts
    <3>2. q = c \/ c \in Ancestors(q)
      BY <3>1, BelowIs
    <3>3. Ancestors(q) \subseteq DOMAIN tree
      BY <2>2, <3>1, TreeIs
    <3>. QED
      BY <2>1, <3>1, <3>2, <3>3
  <2>4. Size(scan, c, "disk") = 0
    BY <1>2 DEF Size
  <2>. QED
    BY <2>3, <2>4, SumEmpty
<1>. QED
  BY <1>1, <1>2

\* K holds one row for each child that p can have in tree, and for no others.
AreChildren(K, p, tree) ==
  /\ IsFiniteSet(K)
  /\ \A k \in K : k.path \in Seq(Nat) /\ p \in Ancestors(k.path) /\ Parent(k.path) = p
  /\ \A k, l \in K : k.path = l.path => k = l
  /\ \A c \in DOMAIN tree : p \in Ancestors(c) /\ Parent(c) = p => \E k \in K : k.path = c

\* Where nothing is folded, the row of a directory has the bytes directly in it
\* and those of its children's rows.
LEMMA ChildrenHold ==
  ASSUME NEW scan, NEW tree, IsScan(scan, tree), NEW p \in DOMAIN tree,
         Unfolded(scan, {p} \union Ancestors(p)), NEW K, AreChildren(K, p, tree),
         NEW f, f = [k \in K |-> Size(scan, k.path, "disk")]
  PROVE  /\ Size(scan, p, "disk") = tree[p].disk + SumFunctionOnSet(f, K)
         /\ tree[p].disk \in Int /\ SumFunctionOnSet(f, K) \in Int
         /\ \A k \in K : f[k] \in Int
<1>1. /\ IsTree(tree) /\ p \in Seq(Nat) /\ DOMAIN tree \subseteq Seq(Nat)
      /\ \A q \in DOMAIN tree : Ancestors(q) \subseteq DOMAIN tree /\ tree[q].disk \in Nat
  BY TreeIs DEF IsScan
<1>. DEFINE S == Subtree(tree, p)
            D == S \ {p}
            g == [q \in S |-> tree[q].disk]
            part == [k \in K |-> Subtree(tree, k.path)]
<1>2. S \subseteq DOMAIN tree /\ IsFiniteSet(S) /\ IsFiniteSet(D) /\ \A q \in S : g[q] \in Int
  <2>1. S \subseteq DOMAIN tree /\ IsFiniteSet(S)
    BY <1>1, SubtreeFacts
  <2>. QED
    BY <1>1, <2>1, FS_Subset
<1>3. p \in S /\ \A q \in DOMAIN tree : q \in S <=> q = p \/ p \in Ancestors(q)
  BY <1>1, BelowIs DEF Subtree
<1>4. ASSUME NEW k \in K
      PROVE  part[k] \subseteq D /\ f[k] = SumFunctionOnSet(g, part[k])
  <2>1. k.path \in Seq(Nat) /\ p \in Ancestors(k.path) /\ Parent(k.path) = p
    BY DEF AreChildren
  <2>2. PICK T : T = Subtree(tree, k.path)
    OBVIOUS
  <2>3. T \subseteq DOMAIN tree /\ IsFiniteSet(T) /\ \A q \in T : q = k.path \/ k.path \in Ancestors(q)
    <3>1. T \subseteq DOMAIN tree /\ IsFiniteSet(T) /\ \A q \in T : MatchesPathPrefix(q, k.path)
      BY <1>1, <2>2, SubtreeFacts
    <3>. QED
      BY <1>1, <2>1, <3>1, BelowIs
  <2>4. ASSUME NEW q \in T PROVE q \in D
    <3>1. p \in Ancestors(q) /\ q \in Seq(Nat)
      BY <1>1, <2>1, <2>3, AncestorTrans
    <3>2. q # p
      BY <1>1, <3>1, AncestorIs, LenProperties
    <3>. QED
      BY <1>3, <2>3, <3>1, <3>2
  <2>5. Unfolded(scan, Ancestors(k.path))
    BY <1>1, <2>1, ChildAncestors DEF Unfolded
  <2>6. PICK h : h = [q \in T |-> tree[q].disk]
    OBVIOUS
  <2>7. Size(scan, k.path, "disk") = SumFunctionOnSet(h, T)
    BY <2>1, <2>2, <2>5, <2>6, SizeIs
  <2>8. SumFunctionOnSet(h, T) = SumFunctionOnSet(g, T)
    <3>1. \A q \in T : h[q] = g[q]
      BY <2>4, <2>6
    <3>. HIDE DEF g
    <3>. QED
      BY <2>3, <3>1, SumSame
  <2>9. f[k] = Size(scan, k.path, "disk") /\ part[k] = T
    BY <2>2
  <2>10. f[k] = SumFunctionOnSet(g, T)
    BY <2>7, <2>8, <2>9
  <2>. HIDE DEF part, g, D
  <2>. QED
    BY <2>4, <2>9, <2>10
<1>5. ASSUME NEW k \in K, NEW l \in K, k # l, NEW q \in part[k], q \in part[l]
      PROVE  FALSE
  <2>1. /\ k.path \in Seq(Nat) /\ p \in Ancestors(k.path) /\ Parent(k.path) = p
        /\ l.path \in Seq(Nat) /\ p \in Ancestors(l.path) /\ Parent(l.path) = p
        /\ k.path # l.path
    BY <1>5 DEF AreChildren
  <2>2. q \in Seq(Nat) /\ MatchesPathPrefix(q, k.path) /\ MatchesPathPrefix(q, l.path)
    BY <1>1, <1>5, SubtreeFacts
  <2>3. (k.path = q \/ k.path \in Ancestors(q)) /\ (l.path = q \/ l.path \in Ancestors(q))
    BY <2>1, <2>2, BelowIs
  <2>4. MatchesPathPrefix(k.path, l.path) \/ MatchesPathPrefix(l.path, k.path)
    BY <2>1, <2>2, <2>3, AncestorsCompare
  <2>5. l.path \in Ancestors(k.path) \/ k.path \in Ancestors(l.path)
    BY <2>1, <2>4, BelowIs
  <2>6. Len(k.path) = Len(p) + 1 /\ Len(l.path) = Len(p) + 1 /\ Len(p) \in Nat
    BY <1>1, <2>1, ChildAncestors, LenProperties
  <2>. QED
    BY <2>1, <2>5, <2>6, AncestorIs
<1>6. ASSUME NEW q \in D PROVE \E k \in K : q \in part[k]
  <2>1. q \in DOMAIN tree /\ q \in Seq(Nat) /\ p \in Ancestors(q)
    BY <1>1, <1>2, <1>3
  <2>2. PICK c \in Seq(Nat) : /\ p \in Ancestors(c) /\ Parent(c) = p
                              /\ c = q \/ c \in Ancestors(q)
    BY <1>1, <2>1, ChildTowards
  <2>3. c \in DOMAIN tree
    BY <1>1, <2>1, <2>2
  <2>4. PICK k \in K : k.path = c
    BY <2>2, <2>3 DEF AreChildren
  <2>5. q \in Subtree(tree, c)
    BY <2>1, <2>2, BelowIs DEF Subtree
  <2>. QED
    BY <2>4, <2>5
<1>7. IsFiniteSet(K)
  BY DEF AreChildren
<1>8. SumFunctionOnSet(f, K) = SumFunctionOnSet(g, D)
  <2>1. \A q \in D : g[q] \in Int
    BY <1>2
  <2>. HIDE DEF part, g, D
  <2>2. IsSplit(part, f, K, g, D)
    BY <1>4, <1>5, <1>6 DEF IsSplit
  <2>. QED
    BY <1>2, <1>7, <2>1, <2>2, SumOfSplit
<1>9. SumFunctionOnSet(g, S) = g[p] + SumFunctionOnSet(g, D)
  <2>. HIDE DEF S, g
  <2>. QED
    BY <1>2, <1>3, SumRemove
<1>10. Size(scan, p, "disk") = SumFunctionOnSet(g, S)
  <2>1. Unfolded(scan, Ancestors(p))
    BY DEF Unfolded
  <2>. QED
    BY <1>1, <2>1, SizeIs
<1>11. SumFunctionOnSet(g, D) \in Int /\ g[p] = tree[p].disk /\ g[p] \in Int
  <2>1. \A q \in D : g[q] \in Int
    BY <1>2
  <2>2. g[p] = tree[p].disk /\ g[p] \in Int
    BY <1>2, <1>3
  <2>. HIDE DEF D, g
  <2>. QED
    BY <1>2, <2>1, <2>2, SumInt
<1>12. \A k \in K : f[k] \in Int
  <2>. SUFFICES ASSUME NEW k \in K PROVE SumFunctionOnSet(g, part[k]) \in Int
    BY <1>4
  <2>1. IsFiniteSet(part[k]) /\ \A q \in part[k] : g[q] \in Int
    BY <1>2, <1>4, FS_Subset
  <2>. HIDE DEF part, g
  <2>. QED
    BY <2>1, SumInt
<1>. QED
  BY <1>8, <1>9, <1>10, <1>11, <1>12

\* The rows of the children of p, changed or not, are those of the two trees.
LEMMA ChildRows ==
  ASSUME PairInv, Paired, NEW p \in DOMAIN old, p \in DOMAIN new, Fold(p) = {},
         NEW rows, rows = DiffRows(p, TRUE),
         NEW K, K = {r \in rows : p \in Ancestors(r.path) /\ Parent(r.path) = p}
  PROVE  /\ AreChildren(K, p, old) /\ AreChildren(K, p, new)
         /\ Unfolded(baseline, {p} \union Ancestors(p))
         /\ Unfolded(current, {p} \union Ancestors(p))
<1>1. /\ IsScan(baseline, old) /\ IsScan(current, new)
      /\ DOMAIN old \subseteq Seq(Nat) /\ DOMAIN new \subseteq Seq(Nat)
  BY ScanRows DEF PairInv, Paired
<1>2. Unfolded(baseline, {p} \union Ancestors(p)) /\ Unfolded(current, {p} \union Ancestors(p))
  BY DEF Fold, Unfolded
<1>3. /\ IsFiniteSet(K)
      /\ \A k \in K : k.path \in Seq(Nat) /\ p \in Ancestors(k.path) /\ Parent(k.path) = p
      /\ \A k, l \in K : k.path = l.path => k = l
  <2>1. /\ IsFiniteSet(rows) /\ \A r \in rows : r.path \in Seq(Nat)
        /\ \A r, s \in rows : r.path = s.path => r = s
    BY DiffRowsKeyed
  <2>. QED
    BY <2>1, FS_Subset
<1>4. ASSUME NEW c, c \in DOMAIN old \/ c \in DOMAIN new, p \in Ancestors(c), Parent(c) = p
      PROVE  \E k \in K : k.path = c
  <2>1. c \in Seq(Nat) /\ p \in Seq(Nat)
    BY <1>1, <1>4
  <2>2. c \in DOMAIN baseline \union DOMAIN current
    <3>1. Unfolded(baseline, Ancestors(c)) /\ Unfolded(current, Ancestors(c))
      BY <1>2, <1>4, <2>1, ChildAncestors DEF Unfolded
    <3>. QED
      BY <1>1, <1>4, <3>1, RowOrFold DEF Unfolded
  <2>3. PICK C : C = CurrentCollapsedPaths(p)
    OBVIOUS
  <2>4. MatchesPathPrefix(c, p)
    BY <1>4, <2>1, BelowIs
  <2>5. DiffRow(c, C) \in rows
    BY <2>2, <2>3, <2>4, DiffRowsAre
  <2>6. DiffRow(c, C).path = c
    BY DEF DiffRow
  <2>. QED
    BY <1>4, <2>5, <2>6
<1>. QED
  BY <1>2, <1>3, <1>4 DEF AreChildren

\* Wherever the limit does not cut off the list of explain_path_breakdown, the
\* bytes it leaves unexplained are those of the files directly in the directory,
\* for trees of any depth and width: the rows of a directory's children and the
\* bytes directly in it make up its own row.
THEOREM UnexplainedIsDirect == Spec => []RemainderIsDirect
<1>1. PairInv => RemainderIsDirect
  <2>. SUFFICES ASSUME PairInv, Paired, NEW p \in DOMAIN old, p \in DOMAIN new,
                       NEW depth \in 1 .. 2, Fold(p) = {},
                       NEW rows, rows = DiffRows(p, TRUE),
                       NEW target, target = RowAt(rows, p),
                       Len(ExplainPathBreakdown(rows, target, Limit, depth).children) < Limit
                PROVE  ExplainPathBreakdown(rows, target, Limit, depth).unshown =
                         new[p].disk - old[p].disk
    BY DEF RemainderIsDirect
  <2>. DEFINE K == {r \in rows : p \in Ancestors(r.path) /\ Parent(r.path) = p}
              D == Descendants(rows, target)
              T == {r \in D : Parent(r.path) = target.path}
              key == [r \in T |-> <<-r.disk, -r.apparent>>]
              now == [k \in K |-> Size(current, k.path, "disk")]
              then == [k \in K |-> Size(baseline, k.path, "disk")]
              change == [k \in K |-> k.disk]
  <2>1. IsScan(baseline, old) /\ IsScan(current, new)
    BY DEF PairInv, Paired
  <2>2. /\ IsFiniteSet(rows)
        /\ \A r \in rows : r.path \in Seq(Nat) /\ r.disk \in Int /\ r.apparent \in Int
        /\ \A r, s \in rows : r.path = s.path => r = s
    BY DiffRowsKeyed
  <2>3. /\ AreChildren(K, p, old) /\ AreChildren(K, p, new)
        /\ Unfolded(baseline, {p} \union Ancestors(p))
        /\ Unfolded(current, {p} \union Ancestors(p))
    BY ChildRows
  <2>4. p \in Seq(Nat) /\ p \in DOMAIN baseline \union DOMAIN current
    BY <2>1, <2>3, ScanRows, RowOrFold DEF Unfolded
  <2>5. target \in rows /\ target.path = p
    BY <2>4, OwnRow
  <2>6. PICK C : C = CurrentCollapsedPaths(p)
    OBVIOUS
  <2>7. ASSUME NEW r \in rows
        PROVE  /\ r.disk = Size(current, r.path, "disk") - Size(baseline, r.path, "disk")
               /\ r.class = "unchanged" => r.disk = 0
    <3>1. r = DiffRow(r.path, C) /\ r.path \in DOMAIN baseline \union DOMAIN current
      BY <2>6, DiffRowsAre
    <3>2. r.disk = Change(r.path, "disk") /\ r.class = Classification(r.path, C)
      BY <3>1, DiffRowColumns
    <3>3. r.class = "unchanged" => Change(r.path, "disk") = 0
      <4>1. r.class = "unchanged" => SqlClassification(r.path) = "unchanged"
        BY <3>2 DEF Classification
      <4>. QED
        BY <4>1 DEF SqlClassification, Direction
    <3>. QED
      BY <3>2, <3>3 DEF Change
  <2>8. T \in SUBSET K /\ \A k \in K : k \in T \/ k.class = "unchanged"
    BY <2>5 DEF Descendants
  <2>9. D \subseteq rows /\ T \subseteq D /\ IsFiniteSet(D) /\ IsFiniteSet(T) /\ IsFiniteSet(K)
    BY <2>2, FS_Subset DEF Descendants
  <2>10. PICK list : list = SortedBy(T, KeyBefore(T, key))
    OBVIOUS
  <2>11. ChildList(rows, target) = list
    BY <2>10 DEF Ordered, ChildKey, KeyBefore, ChildList
  <2>12. list \in Seq(T) /\ Range(list) = T
    <3>1. \A r \in T : r.disk \in Int /\ r.apparent \in Int /\ r.path \in Seq(Nat)
      BY <2>2, <2>9
    <3>2. ASSUME NEW r \in T
          PROVE  key[r] \in [1 .. 2 -> Int] /\ Len(key[r]) = 2 /\ r.path \in Seq(Nat)
      <4>0. r.disk \in Int /\ r.apparent \in Int
        BY <3>1, Zenon
      <4>1. PICK a, b \in Int : a = -r.disk /\ b = -r.apparent
        BY <4>0
      <4>2. key[r] = <<a, b>>
        BY <4>1
      <4>. HIDE DEF key, T
      <4>. QED
        BY <3>1, <4>2, PairKey
    <3>3. \A r, s \in T : r.path = s.path => r = s
      BY <2>2, <2>9
    <3>. HIDE DEF T, key
    <3>4. IsKeyed(T, key, 2)
      BY <2>9, <3>2, <3>3 DEF IsKeyed
    <3>. QED
      BY <2>10, <3>4, KeyedListIs
  <2>13. list \in Seq(D) /\ Len(list) \in Nat
    <3>. HIDE DEF T, D
    <3>. QED
      BY <2>9, <2>12, SeqMonotonic, LenProperties
  <2>14. PICK f, m : f = Listing(list, D, Limit, depth, m) /\ m = Depth(target) + depth
    OBVIOUS
  <2>15. HoldsListed(f, list, D, Limit, depth, m, Len(list))
    <3>. HIDE DEF D
    <3>. QED
      BY <2>13, <2>14, ListedExists DEF Listing
  <2>16. PICK last : last = f[Len(list)]
    OBVIOUS
  <2>17. /\ Len(last.children) < Limit
         /\ ExplainPathBreakdown(rows, target, Limit, depth).unshown =
              target.disk - DiskChange(last.shown)
    <3>1. depth # 0
      OBVIOUS
    <3>2. last = LastListed(rows, target, Limit, depth)
      BY <2>11, <2>14, <2>16, Zenon DEF LastListed
    <3>. HIDE DEF K, D, T, key, now, then, change
    <3>3. EndsWith(rows, target, Limit, depth, LastListed(rows, target, Limit, depth))
      BY <3>1, BreakdownDefinition
    <3>4. EndsWith(rows, target, Limit, depth, last)
      BY <3>2, <3>3, Zenon
    <3>. QED
      BY <3>4, Zenon DEF EndsWith
  <2>18. last.shown = T
    <3>1. /\ \A r \in D : r.path \in Seq(Nat)
          /\ \A r, s \in D : r.path = s.path => r = s
      BY <2>2, <2>9
    <3>. HIDE DEF D, T
    <3>2. last.shown = Range(list)
      BY <2>9, <2>13, <2>15, <2>16, <2>17, <3>1, AllListed, LimitAssumption
    <3>. QED
      BY <2>12, <3>2, Zenon
  <2>19. /\ Size(current, p, "disk") = new[p].disk + SumFunctionOnSet(now, K)
         /\ new[p].disk \in Int /\ SumFunctionOnSet(now, K) \in Int
         /\ \A k \in K : now[k] \in Int
    <3>. HIDE DEF K
    <3>. QED
      BY <2>1, <2>3, ChildrenHold
  <2>20. /\ Size(baseline, p, "disk") = old[p].disk + SumFunctionOnSet(then, K)
         /\ old[p].disk \in Int /\ SumFunctionOnSet(then, K) \in Int
         /\ \A k \in K : then[k] \in Int
    <3>. HIDE DEF K
    <3>. QED
      BY <2>1, <2>3, ChildrenHold
  <2>21. SumFunctionOnSet(change, K) = SumFunctionOnSet(now, K) - SumFunctionOnSet(then, K)
    <3>1. \A k \in K : change[k] \in Int /\ change[k] = now[k] - then[k]
      BY <2>2, <2>7
    <3>. HIDE DEF K, change, now, then
    <3>. QED
      BY <2>9, <2>19, <2>20, <3>1, SumMinus
  <2>22. SumFunctionOnSet(change, K) = SumFunctionOnSet(change, T)
    <3>1. \A k \in K : change[k] \in Int /\ (k \notin T => change[k] = 0)
      BY <2>2, <2>7, <2>8
    <3>. HIDE DEF K, T, change
    <3>. QED
      BY <2>8, <2>9, <3>1, SumWithout
  <2>23. DiskChange(last.shown) = SumFunctionOnSet(change, T)
    <3>. DEFINE listed == [r \in T |-> r.disk]
    <3>1. DiskChange(T) = SumFunctionOnSet(listed, T)
      BY DEF DiskChange
    <3>2. \A r \in T : listed[r] = change[r]
      BY <2>8
    <3>. HIDE DEF T, change, listed
    <3>3. DiskChange(T) = SumFunctionOnSet(change, T)
      BY <2>9, <3>1, <3>2, SumSame
    <3>. QED
      BY <2>18, <3>3
  <2>24. target.disk = Size(current, p, "disk") - Size(baseline, p, "disk")
    BY <2>5, <2>7
  <2>. HIDE DEF K, T, change, now, then
  <2>25. PICK a, b \in Int : a = SumFunctionOnSet(now, K) /\ b = SumFunctionOnSet(then, K)
    BY <2>19, <2>20
  <2>26. PICK n, o \in Int : n = new[p].disk /\ o = old[p].disk
    BY <2>19, <2>20
  <2>27. DiskChange(last.shown) = a - b
    BY <2>21, <2>22, <2>23, <2>25
  <2>28. target.disk = (n + a) - (o + b)
    BY <2>19, <2>20, <2>24, <2>25, <2>26
  <2>29. ExplainPathBreakdown(rows, target, Limit, depth).unshown = ((n + a) - (o + b)) - (a - b)
    BY <2>17, <2>27, <2>28, Zenon
  <2>30. ((n + a) - (o + b)) - (a - b) = n - o
    OBVIOUS
  <2>. QED
    BY <2>26, <2>29, <2>30, Zenon
<1>. QED
  BY <1>1, PairInvariance, PTL

--------------------------------------------------------------------------------
(* A renamed directory is no culprit *)

\* The rows _query_fast_delta_rows can return, and the order of one direction.
FastRow(q) ==
  [path     |-> q,
   class    |-> SqlClassification(q),
   disk     |-> Change(q, "disk"),
   apparent |-> Change(q, "apparent")]

FastRowsOf(sign) ==
  {FastRow(q) : q \in {p \in DOMAIN baseline \union DOMAIN current :
                         /\ Len(p) \in 1 .. MaxDepth
                         /\ \E m \in Metrics : sign * Change(p, m) > 0}}

FastKey(sign, r) ==
  <<IF sign > 0 THEN -r.disk ELSE -Abs(r.disk),
    IF sign > 0 THEN -r.apparent ELSE -Abs(r.apparent), Depth(r)>>

\* The definition of FastRows, with its parts named.
LEMMA FastRowsDefinition ==
  ASSUME NEW sign, NEW n
  PROVE  FastRows(sign, n) =
           Limited(Ordered(FastRowsOf(sign), LAMBDA r : FastKey(sign, r)), n)
BY DEF FastRows, FastRowsOf, FastRow, FastKey

\* Rows of a set that is finite, with numbers and a path of their own.
AreRows(S) ==
  /\ IsFiniteSet(S)
  /\ \A r \in S : /\ r.path \in Seq(Nat) /\ Len(r.path) \in Nat
                  /\ r.disk \in Int /\ r.apparent \in Int
  /\ \A r, s \in S : r.path = s.path => r = s

\* Keys of three numbers.
LEMMA TripleKey ==
  \A a, b, c \in Int : <<a, b, c>> \in [1 .. 3 -> Int] /\ Len(<<a, b, c>>) = 3
OBVIOUS

\* What can be returned are such rows.
LEMMA FastRowsAre ==
  ASSUME PairInv, Paired, NEW sign
  PROVE  /\ AreRows(FastRowsOf(sign))
         /\ \A r \in FastRowsOf(sign) :
              /\ r.path \in DOMAIN baseline \union DOMAIN current /\ Len(r.path) \in 1 .. MaxDepth
              /\ r = FastRow(r.path) /\ r.disk = Change(r.path, "disk")
<1>. DEFINE Q == {p \in DOMAIN baseline \union DOMAIN current :
                    /\ Len(p) \in 1 .. MaxDepth
                    /\ \E m \in Metrics : sign * Change(p, m) > 0}
            named == [q \in Q |-> FastRow(q)]
<1>1. IsScan(baseline, old) /\ IsScan(current, new)
  BY DEF PairInv, Paired
<1>2. IsFiniteSet(Q)
  <2>1. IsFiniteSet(DOMAIN baseline \union DOMAIN current)
    BY <1>1, ScanRows, FS_Union
  <2>. QED
    BY <2>1, FS_Subset
<1>3. FastRowsOf(sign) = {FastRow(q) : q \in Q}
  BY DEF FastRowsOf
<1>4. IsFiniteSet(FastRowsOf(sign))
  <2>1. FastRowsOf(sign) = {named[q] : q \in Q}
    BY <1>3
  <2>2. named \in Surjection(Q, FastRowsOf(sign))
    <3>1. named \in [Q -> FastRowsOf(sign)]
      BY <2>1
    <3>. HIDE DEF named, Q
    <3>. QED
      BY <2>1, <3>1 DEF Surjection
  <2>. HIDE DEF named, Q
  <2>. QED
    BY <1>2, <2>2, FS_Surjection
<1>5. ASSUME NEW r \in FastRowsOf(sign)
      PROVE  /\ r.path \in DOMAIN baseline \union DOMAIN current /\ Len(r.path) \in 1 .. MaxDepth
             /\ r = FastRow(r.path) /\ r.disk = Change(r.path, "disk")
             /\ r.path \in Seq(Nat) /\ Len(r.path) \in Nat
             /\ r.disk \in Int /\ r.apparent \in Int
  <2>1. PICK q \in Q : r = FastRow(q)
    BY <1>3
  <2>2. r.path = q /\ r.disk = Change(q, "disk") /\ r.apparent = Change(q, "apparent")
    BY <2>1 DEF FastRow
  <2>3. Change(q, "disk") \in Int /\ Change(q, "apparent") \in Int
    BY DiffRowColumns
  <2>4. q \in Seq(Nat)
    BY <1>1, ScanRows
  <2>5. Len(q) \in Nat
    BY <2>4, LenProperties
  <2>. QED
    BY <2>1, <2>2, <2>3, <2>4, <2>5
<1>6. \A r, s \in FastRowsOf(sign) : r.path = s.path => r = s
  BY <1>5
<1>. QED
  BY <1>4, <1>5, <1>6 DEF AreRows

\* FastRows lists such rows.
LEMMA FastListed ==
  ASSUME PairInv, Paired, NEW sign, NEW n \in Nat
  PROVE  Range(FastRows(sign, n)) \subseteq FastRowsOf(sign)
<1>. DEFINE S == FastRowsOf(sign)
            key == [r \in S |-> FastKey(sign, r)]
<1>1. AreRows(S)
  BY FastRowsAre
<1>2. ASSUME NEW r \in S
      PROVE  key[r] \in [1 .. 3 -> Int] /\ Len(key[r]) = 3 /\ r.path \in Seq(Nat)
  <2>1. r.disk \in Int /\ r.apparent \in Int /\ Len(r.path) \in Nat /\ r.path \in Seq(Nat)
    BY <1>1 DEF AreRows
  <2>2. PICK d \in Int : d = IF sign > 0 THEN -r.disk ELSE -Abs(r.disk)
    BY <2>1 DEF Abs
  <2>3. PICK e \in Int : e = IF sign > 0 THEN -r.apparent ELSE -Abs(r.apparent)
    BY <2>1 DEF Abs
  <2>4. PICK l \in Int : l = Depth(r)
    BY <2>1 DEF Depth
  <2>5. key[r] = <<d, e, l>>
    BY <2>2, <2>3, <2>4 DEF FastKey
  <2>. HIDE DEF key, S
  <2>. QED
    BY <2>1, <2>5, TripleKey
<1>3. IsKeyed(S, key, 3)
  <2>1. IsFiniteSet(S) /\ \A r, s \in S : r.path = s.path => r = s
    BY <1>1 DEF AreRows
  <2>. HIDE DEF key, S
  <2>. QED
    BY <1>2, <2>1 DEF IsKeyed
<1>4. PICK list : list = SortedBy(S, KeyBefore(S, key))
  OBVIOUS
<1>5. FastRows(sign, n) = Limited(list, n)
  <2>1. list = Ordered(S, LAMBDA r : FastKey(sign, r))
    BY <1>4 DEF Ordered, KeyBefore
  <2>. QED
    BY <2>1, FastRowsDefinition
<1>6. list \in Seq(S)
  <2>. HIDE DEF key, S
  <2>. QED
    BY <1>3, <1>4, KeyedListIs
<1>. HIDE DEF S
<1>7. Range(FastRows(sign, n)) \subseteq S
  BY <1>5, <1>6, LimitedRange
<1>. QED
  BY <1>7 DEF S

\* Rows in the order of their growth.
LEMMA GrowthOrdered ==
  ASSUME NEW S, AreRows(S), NEW list, list = Ordered(S, GrowthKey)
  PROVE  list \in Seq(S) /\ Range(list) = S
<1>. DEFINE key == [r \in S |-> <<-r.disk, -r.apparent, Depth(r)>>]
<1>1. ASSUME NEW r \in S
      PROVE  key[r] \in [1 .. 3 -> Int] /\ Len(key[r]) = 3 /\ r.path \in Seq(Nat)
  <2>1. r.disk \in Int /\ r.apparent \in Int /\ Len(r.path) \in Nat /\ r.path \in Seq(Nat)
    BY DEF AreRows
  <2>2. PICK d, e, l \in Int : d = -r.disk /\ e = -r.apparent /\ l = Depth(r)
    BY <2>1 DEF Depth
  <2>3. key[r] = <<d, e, l>>
    BY <2>2
  <2>. HIDE DEF key
  <2>. QED
    BY <2>1, <2>3, TripleKey
<1>2. IsKeyed(S, key, 3)
  <2>. HIDE DEF key
  <2>. QED
    BY <1>1 DEF IsKeyed, AreRows
<1>3. list = SortedBy(S, KeyBefore(S, key))
  BY DEF Ordered, KeyBefore, GrowthKey
<1>. HIDE DEF key
<1>. QED
  BY <1>2, <1>3, KeyedListIs

\* Shrunk rows, the largest first.
LEMMA ShrunkOrdered ==
  ASSUME NEW S, AreRows(S), NEW list, list = Ordered(S, ShrinkKey)
  PROVE  list \in Seq(S) /\ Range(list) = S
<1>. DEFINE key == [r \in S |-> <<-Abs(r.disk), Depth(r)>>]
<1>1. ASSUME NEW r \in S
      PROVE  key[r] \in [1 .. 2 -> Int] /\ Len(key[r]) = 2 /\ r.path \in Seq(Nat)
  <2>1. r.disk \in Int /\ Len(r.path) \in Nat /\ r.path \in Seq(Nat)
    BY DEF AreRows
  <2>2. PICK d \in Int : d = -Abs(r.disk)
    BY <2>1 DEF Abs
  <2>3. PICK l \in Int : l = Depth(r)
    BY <2>1 DEF Depth
  <2>4. key[r] = <<d, l>>
    BY <2>2, <2>3
  <2>. HIDE DEF key
  <2>. QED
    BY <2>1, <2>4, PairKey
<1>2. IsKeyed(S, key, 2)
  <2>. HIDE DEF key
  <2>. QED
    BY <1>1 DEF IsKeyed, AreRows
<1>3. list = SortedBy(S, KeyBefore(S, key))
  BY DEF Ordered, KeyBefore, ShrinkKey
<1>. HIDE DEF key
<1>. QED
  BY <1>2, <1>3, KeyedListIs

\* Where the rename of a to b takes the directory p.
NewName(a, b, p) ==
  IF MatchesPathPrefix(p, a) THEN b \o SubSeq(p, Len(a) + 1, Len(p)) ELSE p

\* The parts of Renamed.
LEMMA RenamedIs ==
  ASSUME NEW a, NEW b, Renamed(a, b)
  PROVE  /\ a \in DOMAIN old /\ b \notin DOMAIN old /\ Parent(a) = Parent(b)
         /\ DOMAIN new = {NewName(a, b, p) : p \in DOMAIN old}
         /\ \A p \in DOMAIN old : new[NewName(a, b, p)] = old[p]
BY DEF Renamed, NewName

\* A directory at or below a keeps its place below the new name.
LEMMA NewNameBelow ==
  ASSUME NEW a \in Seq(Nat), NEW b \in Seq(Nat), NEW p \in Seq(Nat), MatchesPathPrefix(p, a)
  PROVE  /\ NewName(a, b, p) \in Seq(Nat) /\ MatchesPathPrefix(NewName(a, b, p), b)
         /\ \A q \in Seq(Nat) : MatchesPathPrefix(q, a) /\ NewName(a, b, q) = NewName(a, b, p) => q = p
<1>1. PICK s : s = SubSeq(p, Len(a) + 1, Len(p))
  OBVIOUS
<1>2. s \in Seq(Nat) /\ a \o s = p
  BY <1>1, SuffixIs
<1>3. NewName(a, b, p) = b \o s
  BY <1>1 DEF NewName
<1>4. /\ b \o s \in Seq(Nat) /\ MatchesPathPrefix(b \o s, b)
      /\ SubSeq(b \o s, Len(b) + 1, Len(b \o s)) = s
  BY <1>2, PrefixOfConcat
<1>5. ASSUME NEW q \in Seq(Nat), MatchesPathPrefix(q, a), NewName(a, b, q) = NewName(a, b, p)
      PROVE  q = p
  <2>1. PICK t : t = SubSeq(q, Len(a) + 1, Len(q))
    OBVIOUS
  <2>2. t \in Seq(Nat) /\ a \o t = q
    BY <1>5, <2>1, SuffixIs
  <2>3. NewName(a, b, q) = b \o t
    BY <1>5, <2>1 DEF NewName
  <2>4. SubSeq(b \o t, Len(b) + 1, Len(b \o t)) = t
    BY <2>2, PrefixOfConcat
  <2>5. b \o t = b \o s
    BY <1>3, <1>5, <2>3
  <2>6. s = t
    BY <1>4, <2>4, <2>5
  <2>. QED
    BY <1>2, <2>2, <2>6
<1>. QED
  BY <1>3, <1>4, <1>5

\* The bytes a tree holds at and below p.
Held(tree, p) == SumFunctionOnSet([q \in Subtree(tree, p) |-> tree[q].disk], Subtree(tree, p))

\* They are what a scan gives for p if nothing above it is folded.
LEMMA HeldIs ==
  ASSUME NEW scan, NEW tree, IsScan(scan, tree), NEW c \in Seq(Nat),
         Unfolded(scan, Ancestors(c))
  PROVE  Size(scan, c, "disk") = Held(tree, c)
<1>1. PICK S : S = Subtree(tree, c)
  OBVIOUS
<1>2. PICK f : f = [q \in S |-> tree[q].disk]
  OBVIOUS
<1>3. Size(scan, c, "disk") = SumFunctionOnSet(f, S)
  BY <1>1, <1>2, SizeIs
<1>. QED
  BY <1>1, <1>2, <1>3 DEF Held

\* What was below a is below b, and holds what it held.
LEMMA RenamedSubtree ==
  ASSUME IsTree(old), IsTree(new), NEW a \in Seq(Nat), NEW b \in Seq(Nat), Renamed(a, b)
  PROVE  Held(old, a) = Held(new, b)
<1>. DEFINE S == Subtree(old, a)
            T == Subtree(new, b)
            f == [p \in S |-> old[p].disk]
            g == [q \in T |-> new[q].disk]
<1>1. /\ b \notin DOMAIN old /\ DOMAIN new = {NewName(a, b, p) : p \in DOMAIN old}
      /\ \A p \in DOMAIN old : new[NewName(a, b, p)] = old[p]
  BY RenamedIs
<1>2. /\ S \subseteq DOMAIN old /\ S \subseteq Seq(Nat) /\ IsFiniteSet(S)
      /\ \A p \in S : old[p].disk \in Nat /\ MatchesPathPrefix(p, a)
  BY SubtreeFacts
<1>3. /\ T \subseteq DOMAIN new /\ T \subseteq Seq(Nat) /\ IsFiniteSet(T)
      /\ \A q \in T : new[q].disk \in Nat /\ MatchesPathPrefix(q, b)
  BY SubtreeFacts
<1>. DEFINE part == [p \in S |-> {NewName(a, b, p)}]
<1>4. ASSUME NEW p \in S
      PROVE  part[p] \subseteq T /\ f[p] = SumFunctionOnSet(g, part[p])
  <2>1. PICK q : q = NewName(a, b, p)
    OBVIOUS
  <2>2. q \in DOMAIN new /\ MatchesPathPrefix(q, b) /\ new[q] = old[p]
    BY <1>1, <1>2, <2>1, NewNameBelow
  <2>3. q \in T
    BY <2>2 DEF Subtree
  <2>4. part[p] = {q} /\ f[p] = old[p].disk /\ g[q] = new[q].disk
    BY <2>1, <2>3
  <2>5. SumFunctionOnSet(g, {q}) = g[q]
    <3>1. IsFiniteSet({}) /\ {} \union {q} = {q} /\ g[q] \in Int /\ g[q] \in Nat
      BY <1>3, <2>3, <2>4, FS_EmptySet
    <3>2. SumFunctionOnSet(g, {} \union {q}) = SumFunctionOnSet(g, {}) + g[q]
      BY <3>1, SumAdd
    <3>3. SumFunctionOnSet(g, {}) = 0
      BY SumEmpty
    <3>. QED
      BY <3>1, <3>2, <3>3
  <2>. HIDE DEF part
  <2>. QED
    BY <2>2, <2>3, <2>4, <2>5
<1>5. ASSUME NEW p \in S, NEW q \in S, p # q PROVE part[p] \intersect part[q] = {}
  <2>1. NewName(a, b, p) # NewName(a, b, q)
    BY <1>2, <1>5, NewNameBelow
  <2>. QED
    BY <2>1
<1>6. ASSUME NEW q \in T PROVE \E p \in S : q \in part[p]
  <2>1. PICK p \in DOMAIN old : q = NewName(a, b, p)
    BY <1>1, <1>3
  <2>2. p \in Seq(Nat) /\ q \in Seq(Nat) /\ MatchesPathPrefix(q, b)
    BY <1>3, TreeIs
  <2>3. MatchesPathPrefix(p, a)
    <3>. SUFFICES ASSUME ~ MatchesPathPrefix(p, a) PROVE FALSE
      OBVIOUS
    <3>1. q = p
      BY <2>1 DEF NewName
    <3>2. p = b \/ b \in Ancestors(p)
      BY <2>2, <3>1, BelowIs
    <3>. QED
      BY <1>1, <3>2, TreeIs
  <2>4. p \in S
    BY <2>3 DEF Subtree
  <2>. QED
    BY <2>1, <2>4
<1>7. \A q \in T : g[q] \in Int
  BY <1>3
<1>8. SumFunctionOnSet(f, S) = SumFunctionOnSet(g, T)
  <2>. HIDE DEF part, f, g, S, T
  <2>1. IsSplit(part, f, S, g, T)
    BY <1>4, <1>5, <1>6 DEF IsSplit
  <2>. QED
    BY <1>2, <1>3, <1>7, <2>1, SumOfSplit
<1>. QED
  BY <1>8 DEF Held

\* Beside the renamed directory nothing has changed.
LEMMA SiblingSubtree ==
  ASSUME IsTree(old), IsTree(new), NEW a \in Seq(Nat), NEW b \in Seq(Nat), Renamed(a, b),
         NEW c \in Seq(Nat), Len(a) = Len(c), Len(b) = Len(c), a # c, b # c
  PROVE  Held(old, c) = Held(new, c)
<1>. DEFINE S == Subtree(old, c)
            T == Subtree(new, c)
            f == [p \in S |-> old[p].disk]
            g == [q \in T |-> new[q].disk]
<1>1. /\ DOMAIN new = {NewName(a, b, p) : p \in DOMAIN old}
      /\ \A p \in DOMAIN old : new[NewName(a, b, p)] = old[p]
  BY RenamedIs
<1>2. /\ S \subseteq DOMAIN old /\ S \subseteq Seq(Nat) /\ IsFiniteSet(S)
      /\ \A p \in S : MatchesPathPrefix(p, c)
  BY SubtreeFacts
<1>3. /\ T \subseteq DOMAIN new /\ T \subseteq Seq(Nat)
      /\ \A q \in T : MatchesPathPrefix(q, c)
  BY SubtreeFacts
<1>4. ASSUME NEW p \in S PROVE p \in T /\ new[p] = old[p]
  <2>1. ~ MatchesPathPrefix(p, a)
    BY <1>2, SiblingsApart
  <2>2. NewName(a, b, p) = p
    BY <2>1 DEF NewName
  <2>3. p \in DOMAIN new /\ new[p] = old[p]
    BY <1>1, <1>2, <2>2
  <2>. QED
    BY <1>2, <2>3 DEF Subtree
<1>5. ASSUME NEW q \in T PROVE q \in S
  <2>1. PICK p \in DOMAIN old : q = NewName(a, b, p)
    BY <1>1, <1>3
  <2>2. p \in Seq(Nat) /\ q \in Seq(Nat) /\ MatchesPathPrefix(q, c)
    BY <1>3, TreeIs
  <2>3. ~ MatchesPathPrefix(p, a)
    <3>. SUFFICES ASSUME MatchesPathPrefix(p, a) PROVE FALSE
      OBVIOUS
    <3>1. MatchesPathPrefix(q, b)
      BY <2>1, <2>2, NewNameBelow
    <3>. QED
      BY <2>2, <3>1, SiblingsApart
  <2>4. q = p
    BY <2>1, <2>3 DEF NewName
  <2>. QED
    BY <2>2, <2>4 DEF Subtree
<1>6. S = T
  BY <1>4, <1>5
<1>7. \A p \in S : f[p] = g[p]
  BY <1>4, <1>6
<1>8. SumFunctionOnSet(f, S) = SumFunctionOnSet(g, S)
  <2>. HIDE DEF f, g, S, T
  <2>. QED
    BY <1>2, <1>7, SumSame
<1>9. SumFunctionOnSet(f, S) = SumFunctionOnSet(g, T)
  BY <1>6, <1>8, Zenon
<1>. QED
  BY <1>9 DEF Held

\* f holds the suspicions after each of the first n growing rows of list.
HoldsFound(f, list, shrunk, n) ==
  f = [k \in 0 .. n |-> IF k = 0 THEN {} ELSE Suspect(f[k - 1], list[k], shrunk)]

GrownList(grown) == Ordered({r \in grown : r.disk >= MinBytes}, GrowthKey)

ShrunkList(rows) == Ordered({r \in rows : Abs(r.disk) >= MinBytes}, ShrinkKey)

\* The suspicions after each growing row.
Suspicions(list, shrunk) == CHOOSE f : HoldsFound(f, list, shrunk, Len(list))

\* The definition of the pass, with its recursive function named.
LEMMA SuspicionsDefinition ==
  ASSUME NEW grown, NEW rows
  PROVE  RelocationSuspicions(grown, rows) =
           Suspicions(GrownList(grown), ShrunkList(rows))[Len(GrownList(grown))]
BY DEF RelocationSuspicions, Suspicions, HoldsFound, GrownList, ShrunkList

\* The recursion of the pass defines what it finds.
LEMMA FoundExists ==
  ASSUME NEW list, NEW shrunk, NEW N \in Nat
  PROVE  \E f : HoldsFound(f, list, shrunk, N)
<1>. DEFINE Bad == {n \in Nat : ~ \E f : HoldsFound(f, list, shrunk, n)}
<1>1. SUFFICES ASSUME Bad # {} PROVE FALSE
  OBVIOUS
<1>2. PICK n \in Bad : \A m \in Bad : n <= m
  <2>1. Bad \subseteq Nat
    OBVIOUS
  <2>. HIDE DEF Bad
  <2>. QED
    BY <1>1, <2>1, LeastNumber
<1>3. CASE n = 0
  <2>1. HoldsFound([k \in 0 .. 0 |-> {}], list, shrunk, 0)
    BY DEF HoldsFound
  <2>. QED
    BY <2>1, <1>2, <1>3
<1>4. CASE n # 0
  <2>1. n - 1 \in Nat /\ n - 1 < n
    BY <1>4
  <2>2. n - 1 \notin Bad
    BY <2>1, <1>2
  <2>3. PICK g : HoldsFound(g, list, shrunk, n - 1)
    BY <2>1, <2>2
  <2>. DEFINE h == [k \in 0 .. n |-> IF k = n THEN Suspect(g[n - 1], list[n], shrunk) ELSE g[k]]
  <2>4. \A k \in 0 .. n - 1 : h[k] = g[k]
    BY <2>1
  <2>5. ASSUME NEW k \in 0 .. n
        PROVE  h[k] = IF k = 0 THEN {} ELSE Suspect(h[k - 1], list[k], shrunk)
    <3>1. CASE k = n
      <4>1. h[k - 1] = g[n - 1] /\ k # 0
        BY <3>1, <2>1, <1>4
      <4>. QED
        BY <4>1, <3>1
    <3>2. CASE k # n
      <4>1. k \in 0 .. n - 1 /\ h[k] = g[k] /\ (k # 0 => k - 1 \in 0 .. n - 1)
        BY <3>2, <2>1
      <4>2. k # 0 => h[k - 1] = g[k - 1]
        BY <4>1, <2>4
      <4>3. g[k] = IF k = 0 THEN {} ELSE Suspect(g[k - 1], list[k], shrunk)
        BY <4>1, <2>3 DEF HoldsFound
      <4>. QED
        BY <4>1, <4>2, <4>3
    <3>. QED
      BY <3>1, <3>2
  <2>6. HoldsFound(h, list, shrunk, n)
    <3>1. h = [k \in 0 .. n |-> h[k]]
      OBVIOUS
    <3>. HIDE DEF h
    <3>. QED
      BY <3>1, <2>5 DEF HoldsFound
  <2>. QED
    BY <2>6, <1>2
<1>. QED
  BY <1>2, <1>3, <1>4

\* What one turn of the pass adds: only matches of the growing row, and one if a
\* shrunk row that fits is not yet taken.
TurnAdds(found, pos, shrunk, after) ==
  /\ found \subseteq after
  /\ \A s \in after : s \in found \/ (s.positive = pos /\ MaybeRelocated(pos, s.negative))
  /\ \A n \in 1 .. Len(shrunk) :
       /\ \A s \in found : s.negative # shrunk[n]
       /\ MaybeRelocated(pos, shrunk[n])
       => \E s \in after : s.positive = pos

\* That is what Suspect does.
LEMMA SuspectAdds ==
  ASSUME NEW found, NEW pos, pos.disk \in Int,
         NEW S, NEW shrunk \in Seq(S), \A r \in S : r.disk \in Int,
         NEW after, after = Suspect(found, pos, shrunk)
  PROVE  TurnAdds(found, pos, shrunk, after)
<1>. DEFINE fits == {n \in 1 .. Len(shrunk) : /\ shrunk[n] \notin {s.negative : s \in found}
                                              /\ MaybeRelocated(pos, shrunk[n])}
            Gap(n) == SizeGap(pos, shrunk[n])
            best == {n \in fits : \A m \in fits : Gap(n) < Gap(m) \/ (Gap(n) = Gap(m) /\ n <= m)}
            Match(n) == [positive |-> pos, negative |-> shrunk[n]]
<1>1. after = found \union {Match(n) : n \in best}
  BY DEF Suspect
<1>2. \A n : Match(n).positive = pos /\ Match(n).negative = shrunk[n]
  OBVIOUS
<1>3. Len(shrunk) \in Nat /\ \A n \in 1 .. Len(shrunk) : Gap(n) \in Nat
  <2>1. Len(shrunk) \in Nat
    BY LenProperties
  <2>2. ASSUME NEW n \in 1 .. Len(shrunk) PROVE Gap(n) \in Nat
    <3>1. shrunk[n] \in S
      BY ElementOfSeq
    <3>2. PICK x, y \in Int : x = pos.disk /\ y = shrunk[n].disk
      BY <3>1
    <3>3. Gap(n) = Abs(x - Abs(y))
      BY <3>2 DEF SizeGap
    <3>4. Abs(x - Abs(y)) \in Nat
      BY DEF Abs
    <3>. QED
      BY <3>3, <3>4
  <2>. QED
    BY <2>1, <2>2
<1>4. \A s \in after : s \in found \/ (s.positive = pos /\ MaybeRelocated(pos, s.negative))
  <2>. SUFFICES ASSUME NEW s \in after, s \notin found
                PROVE  s.positive = pos /\ MaybeRelocated(pos, s.negative)
    OBVIOUS
  <2>1. PICK n \in best : s = Match(n)
    BY <1>1
  <2>2. MaybeRelocated(pos, shrunk[n])
    OBVIOUS
  <2>. HIDE DEF Match
  <2>. QED
    BY <1>2, <2>1, <2>2
<1>5. ASSUME NEW n \in 1 .. Len(shrunk), \A s \in found : s.negative # shrunk[n],
             MaybeRelocated(pos, shrunk[n])
      PROVE  \E s \in after : s.positive = pos
  <2>1. n \in fits
    BY <1>5
  <2>2. fits \subseteq 1 .. Len(shrunk)
    OBVIOUS
  <2>. HIDE DEF fits
  <2>3. PICK i \in fits : \A m \in fits : Gap(i) <= Gap(m)
    <3>. DEFINE gaps == {Gap(m) : m \in fits}
    <3>1. gaps \subseteq Nat /\ gaps # {}
      BY <1>3, <2>1, <2>2
    <3>2. PICK x \in gaps : \A y \in gaps : x <= y
      <4>. HIDE DEF gaps
      <4>. QED
        BY <3>1, LeastNumber
    <3>. QED
      BY <3>2
  <2>. HIDE DEF Gap
  <2>4. PICK j \in {m \in fits : Gap(m) = Gap(i)} : \A k \in {m \in fits : Gap(m) = Gap(i)} : j <= k
    <3>. DEFINE ties == {m \in fits : Gap(m) = Gap(i)}
    <3>0. \A m \in 1 .. Len(shrunk) : m \in Nat
      BY <1>3
    <3>1. ties \subseteq Nat /\ i \in ties
      BY <2>2, <2>3, <3>0
    <3>. HIDE DEF ties
    <3>2. \E j \in ties : \A k \in ties : j <= k
      BY <3>1, LeastNumber
    <3>. QED
      BY <3>2 DEF ties
  <2>5. j \in best
    <3>1. j \in fits /\ Gap(j) = Gap(i)
      BY <2>4
    <3>2. ASSUME NEW m \in fits PROVE Gap(j) < Gap(m) \/ (Gap(j) = Gap(m) /\ j <= m)
      <4>1. Gap(i) \in Nat /\ Gap(m) \in Nat /\ Gap(i) <= Gap(m)
        BY <1>3, <2>2, <2>3
      <4>2. Gap(i) = Gap(m) => j <= m
        BY <2>4
      <4>. QED
        BY <3>1, <4>1, <4>2
    <3>. QED
      BY <3>1, <3>2
  <2>6. Match(j) \in after
    BY <1>1, <2>5
  <2>. HIDE DEF Match
  <2>. QED
    BY <1>2, <2>6
<1>6. found \subseteq after
  BY <1>1
<1>. HIDE DEF fits, best, Gap, Match
<1>. QED
  BY <1>4, <1>5, <1>6 DEF TurnAdds

\* If of all growing rows only grown fits the shrunk row gone, the pass matches it
\* with something: until its turn nothing else takes gone.
LEMMA PassFinds ==
  ASSUME NEW G, \A r \in G : r.disk \in Int, NEW list \in Seq(G),
         NEW S, \A r \in S : r.disk \in Int, NEW shrunk \in Seq(S),
         NEW gone \in Range(shrunk), NEW grown \in Range(list), MaybeRelocated(grown, gone),
         \A r \in G : MaybeRelocated(r, gone) => r = grown,
         NEW f, HoldsFound(f, list, shrunk, Len(list))
  PROVE  \E s \in f[Len(list)] : s.positive = grown
<1>. DEFINE N == Len(list)
            Turns == {j \in 1 .. N : list[j] = grown}
<1>1. /\ N \in Nat /\ \A j \in 1 .. N : list[j] \in G
      /\ \E j \in 1 .. N : list[j] = grown
      /\ \E k \in 1 .. Len(shrunk) : shrunk[k] = gone
  <2>1. DOMAIN list = 1 .. N /\ DOMAIN shrunk = 1 .. Len(shrunk) /\ N \in Nat
    BY LenProperties
  <2>2. \A j \in 1 .. N : list[j] \in G
    BY ElementOfSeq
  <2>3. \E j \in 1 .. N : list[j] = grown
    BY <2>1, Zenon DEF Range
  <2>4. \E k \in 1 .. Len(shrunk) : shrunk[k] = gone
    BY <2>1, Zenon DEF Range
  <2>. QED
    BY <2>1, <2>2, <2>3, <2>4
<1>2. PICK i \in Turns : \A j \in Turns : i <= j
  <2>1. Turns \subseteq Nat /\ Turns # {}
    <3>1. PICK j \in 1 .. N : list[j] = grown
      BY <1>1, Zenon
    <3>2. j \in Turns
      BY <3>1, Zenon
    <3>3. Turns \subseteq Nat
      BY <1>1
    <3>. QED
      BY <3>2, <3>3, Zenon
  <2>. HIDE DEF Turns
  <2>. QED
    BY <2>1, LeastNumber
<1>3. i \in 1 .. N /\ list[i] = grown /\ i \in Nat
  BY <1>1, <1>2
<1>. DEFINE Good(n) == /\ n < i => \A s \in f[n] : s.negative # gone
                       /\ n >= i => \E s \in f[n] : s.positive = grown
            Bad == {n \in 0 .. N : ~ Good(n)}
<1>4. Bad = {}
  <2>1. SUFFICES ASSUME Bad # {} PROVE FALSE
    OBVIOUS
  <2>2. PICK n \in Bad : \A m \in Bad : n <= m
    <3>1. Bad \subseteq Nat
      BY <1>1
    <3>. HIDE DEF Bad
    <3>. QED
      BY <2>1, <3>1, LeastNumber
  <2>3. n \in 0 .. N /\ n \in Nat /\ ~ Good(n)
    BY <1>1, <2>2
  <2>4. f[n] = IF n = 0 THEN {} ELSE Suspect(f[n - 1], list[n], shrunk)
    BY <2>3 DEF HoldsFound
  <2>5. n # 0
    <3>. SUFFICES ASSUME n = 0 PROVE FALSE
      OBVIOUS
    <3>1. f[n] = {}
      BY <2>4
    <3>. QED
      BY <1>3, <2>3, <3>1
  <2>6. n - 1 \in 0 .. N /\ n \in 1 .. N /\ ~ (n <= n - 1)
    BY <1>1, <2>3, <2>5
  <2>7. Good(n - 1)
    <3>. HIDE DEF Good
    <3>. QED
      BY <2>2, <2>6
  <2>8. PICK before, after, pos : before = f[n - 1] /\ after = f[n] /\ pos = list[n]
    OBVIOUS
  <2>9. pos \in G /\ pos.disk \in Int
    BY <1>1, <2>6, <2>8
  <2>10. after = Suspect(before, pos, shrunk)
    BY <2>4, <2>5, <2>8
  <2>11. TurnAdds(before, pos, shrunk, after)
    BY <2>9, <2>10, SuspectAdds
  <2>12. CASE n < i
    <3>1. \A s \in before : s.negative # gone
      BY <1>3, <2>3, <2>7, <2>8, <2>12
    <3>2. pos # grown
      BY <1>2, <1>3, <2>3, <2>6, <2>8, <2>12
    <3>3. \A s \in after : s.negative # gone
      BY <2>9, <2>11, <3>1, <3>2 DEF TurnAdds
    <3>. QED
      BY <1>3, <2>3, <2>8, <2>12, <3>3
  <2>13. CASE n = i
    <3>1. \A s \in before : s.negative # gone
      BY <1>3, <2>3, <2>7, <2>8, <2>13
    <3>2. pos = grown
      BY <1>3, <2>8, <2>13
    <3>3. \E s \in after : s.positive = grown
      BY <1>1, <2>11, <3>1, <3>2 DEF TurnAdds
    <3>. QED
      BY <1>3, <2>3, <2>8, <2>13, <3>3
  <2>14. CASE n > i
    <3>1. \E s \in before : s.positive = grown
      BY <1>3, <2>3, <2>7, <2>8, <2>14
    <3>2. \E s \in after : s.positive = grown
      BY <2>11, <3>1 DEF TurnAdds
    <3>. QED
      BY <1>3, <2>3, <2>8, <2>14, <3>2
  <2>. QED
    BY <1>3, <2>3, <2>12, <2>13, <2>14
<1>. QED
  BY <1>1, <1>3, <1>4

\* Once both its names are among the candidates, a directory renamed in place is
\* matched with what shrank (_relocation_suspicions), whatever else has changed
\* place in the two trees through folds: its sibling rows have not changed, so no
\* other growing row can take its old name.  Nothing at or below its new name is
\* then among the contributors (_compact_investigate_payload).
THEOREM RenamesRecognised == Spec => []RenameIsNoCulprit
<1>1. PairInv => RenameIsNoCulprit
  <2>. SUFFICES ASSUME PairInv, Paired,
                       NEW a \in DOMAIN old \union DOMAIN new, NEW b \in DOMAIN old \union DOMAIN new,
                       a # Root, b # Root, Renamed(a, b),
                       b \in DOMAIN current, a \in DOMAIN baseline, baseline[a].disk >= MinBytes,
                       b \in {r.path : r \in Undominated(Range(FastRows(1, 3 * Limit)))},
                       a \in {r.path : r \in Range(FastRows(-1, 3 * Limit))},
                       NEW r \in Range(Investigate.contributors),
                       MatchesPathPrefix(r.path, b)
                PROVE  FALSE
    BY DEF RenameIsNoCulprit
  <2>1. PICK n \in Nat : n = 3 * Limit
    BY LimitAssumption
  <2>2. PICK grown : grown = Undominated(Range(FastRows(1, n)))
    OBVIOUS
  <2>3. PICK below : below = Range(FastRows(-1, n))
    OBVIOUS
  <2>4. PICK up \in grown : up.path = b
    BY <2>1, <2>2
  <2>5. PICK down \in below : down.path = a
    BY <2>1, <2>3
  <2>6. /\ IsScan(baseline, old) /\ IsScan(current, new) /\ IsTree(old) /\ IsTree(new)
        /\ DOMAIN baseline \subseteq DOMAIN old /\ DOMAIN baseline \subseteq Seq(Nat)
        /\ DOMAIN current \subseteq Seq(Nat)
    BY ScanRows DEF PairInv, Paired, IsScan
  <2>7. /\ a \in Seq(Nat) /\ b \in Seq(Nat) /\ a # <<>> /\ b # <<>>
    BY <2>6 DEF Root
  <2>8. /\ grown \subseteq FastRowsOf(1) /\ below \subseteq FastRowsOf(-1)
    <3>1. Range(FastRows(1, n)) \subseteq FastRowsOf(1)
      BY FastListed
    <3>2. Range(FastRows(-1, n)) \subseteq FastRowsOf(-1)
      BY FastListed
    <3>. QED
      BY <2>2, <2>3, <3>1, <3>2 DEF Undominated
  <2>9. /\ AreRows(grown) /\ AreRows(below)
        /\ \A s \in grown \union below : /\ s.path \in Seq(Nat) /\ s.path # <<>>
                                         /\ s.disk = Change(s.path, "disk") /\ s.disk \in Int
    <3>1. /\ AreRows(FastRowsOf(1)) /\ AreRows(FastRowsOf(-1))
          /\ \A s \in FastRowsOf(1) : Len(s.path) \in 1 .. MaxDepth /\ s.disk = Change(s.path, "disk")
          /\ \A s \in FastRowsOf(-1) : Len(s.path) \in 1 .. MaxDepth /\ s.disk = Change(s.path, "disk")
      BY FastRowsAre
    <3>2. AreRows(grown) /\ AreRows(below)
      BY <2>8, <3>1, FS_Subset DEF AreRows
    <3>3. \A s \in grown \union below : Len(s.path) \in 1 .. MaxDepth /\ s.disk = Change(s.path, "disk")
      BY <2>8, <3>1
    <3>4. \A s \in grown \union below : s.path # <<>>
      <4>1. Len(<<>>) = 0
        BY EmptySeq
      <4>. QED
        BY <3>3, <4>1
    <3>. QED
      BY <3>2, <3>3, <3>4 DEF AreRows
  <2>10. /\ b \notin DOMAIN old /\ Parent(a) = Parent(b)
    BY RenamedIs
  <2>11. PICK P : P = Parent(a)
    OBVIOUS
  <2>12. /\ P \in Seq(Nat) /\ P \in Ancestors(a) /\ P \in Ancestors(b)
         /\ Len(a) = Len(P) + 1 /\ Len(b) = Len(P) + 1
    BY <2>7, <2>10, <2>11, ParentAbove
  <2>13. ASSUME NEW c \in Seq(Nat), c # <<>>, Parent(c) = P
         PROVE  /\ Unfolded(baseline, Ancestors(c)) /\ Unfolded(current, Ancestors(c))
                /\ Len(c) = Len(P) + 1
    <3>1. P \in Ancestors(c) /\ Len(c) = Len(P) + 1
      BY <2>13, ParentAbove
    <3>2. /\ Ancestors(c) = {P} \union Ancestors(P)
          /\ Ancestors(a) = {P} \union Ancestors(P)
          /\ Ancestors(b) = {P} \union Ancestors(P)
      BY <2>7, <2>10, <2>11, <2>12, <2>13, <3>1, ChildAncestors
    <3>3. Unfolded(baseline, Ancestors(a)) /\ Unfolded(current, Ancestors(b))
      BY <2>6, NoRowsBelowFold DEF Unfolded
    <3>. QED
      BY <3>1, <3>2, <3>3
  <2>14. ASSUME NEW c \in Seq(Nat), c # <<>>, Parent(c) = P
         PROVE  Size(baseline, c, "disk") = Held(old, c) /\ Size(current, c, "disk") = Held(new, c)
    BY <2>6, <2>13, <2>14, HeldIs
  <2>15. PICK size : size = baseline[a].disk /\ size = Held(old, a) /\ size = Held(new, b)
    <3>1. Size(baseline, a, "disk") = baseline[a].disk
      BY DEF Size
    <3>2. Size(baseline, a, "disk") = Held(old, a)
      BY <2>7, <2>11, <2>14
    <3>3. Held(old, a) = Held(new, b)
      BY <2>6, <2>7, RenamedSubtree
    <3>. QED
      BY <3>1, <3>2, <3>3
  <2>16. size \in Int /\ size >= 2
    BY <2>6, <2>15, ScanRows DEF MinBytes
  <2>17. up.disk = size
    <3>1. Size(current, b, "disk") = size /\ Size(baseline, b, "disk") = 0
      <4>1. b \notin DOMAIN baseline
        BY <2>6, <2>10
      <4>. QED
        BY <2>7, <2>10, <2>11, <2>14, <2>15, <4>1 DEF Size
    <3>. QED
      BY <2>4, <2>9, <2>16, <3>1 DEF Change
  <2>18. a \notin DOMAIN new /\ a # b
    <3>1. a # b
      BY <2>10, RenamedIs
    <3>. SUFFICES ASSUME a \in DOMAIN new PROVE FALSE
      BY <3>1
    <3>2. PICK p \in DOMAIN old : a = NewName(a, b, p)
      <4>1. DOMAIN new = {NewName(a, b, p) : p \in DOMAIN old}
        BY RenamedIs
      <4>2. a \in {NewName(a, b, p) : p \in DOMAIN old}
        BY <4>1, Zenon
      <4>. QED
        BY <4>2
    <3>3. p \in Seq(Nat) /\ MatchesPathPrefix(a, a)
      BY <2>6, <2>7, BelowIs, TreeIs
    <3>4. MatchesPathPrefix(p, a)
      BY <3>2, <3>3 DEF NewName
    <3>5. MatchesPathPrefix(a, b)
      BY <2>7, <3>2, <3>3, <3>4, NewNameBelow
    <3>. QED
      BY <2>7, <2>12, <3>1, <3>3, <3>5, SiblingsApart
  <2>19. down.disk = -size
    <3>1. Size(current, a, "disk") = 0 /\ Size(baseline, a, "disk") = size
      <4>1. a \notin DOMAIN current
        BY <2>6, <2>18, ScanRows
      <4>. QED
        BY <2>15, <4>1 DEF Size
    <3>. QED
      BY <2>5, <2>9, <2>16, <3>1 DEF Change
  <2>20. MaybeRelocated(up, down)
    <3>1. SizeGap(up, down) = 0
      BY <2>16, <2>17, <2>19 DEF SizeGap, Abs
    <3>2. ASSUME NEW x \in Int PROVE 0 <= Larger(SlopBytes, RoundTenth(x))
      <4>1. RoundTenth(x) \in Int
        BY DEF RoundTenth
      <4>. QED
        BY <4>1 DEF Larger, SlopBytes
    <3>3. Larger(up.disk, Abs(down.disk)) \in Int
      BY <2>16, <2>17, <2>19 DEF Larger, Abs
    <3>4. 0 <= Larger(SlopBytes, RoundTenth(Larger(up.disk, Abs(down.disk))))
      BY <3>2, <3>3
    <3>. QED
      BY <2>4, <2>5, <2>10, <3>1, <3>4 DEF MaybeRelocated
  <2>21. ASSUME NEW s \in grown, s.disk >= MinBytes, MaybeRelocated(s, down)
         PROVE  s = up
    <3>1. Parent(s.path) = P /\ s.path \in Seq(Nat) /\ s.path # <<>>
      BY <2>5, <2>9, <2>11, <2>21 DEF MaybeRelocated
    <3>2. s.disk = Held(new, s.path) - Held(old, s.path)
      BY <2>9, <2>14, <3>1 DEF Change
    <3>3. s.path # a
      <4>. SUFFICES ASSUME s.path = a PROVE FALSE
        OBVIOUS
      <4>1. Size(current, a, "disk") = 0 /\ Size(baseline, a, "disk") = size
        <5>1. a \notin DOMAIN current
          BY <2>6, <2>18, ScanRows
        <5>. QED
          BY <2>15, <5>1 DEF Size
      <4>2. s.disk = 0 - size
        BY <2>9, <4>1 DEF Change
      <4>. QED
        BY <2>16, <2>21, <4>2 DEF MinBytes
    <3>4. s.path = b
      <4>. SUFFICES ASSUME s.path # b PROVE FALSE
        OBVIOUS
      <4>1. Held(old, s.path) = Held(new, s.path)
        BY <2>6, <2>7, <2>12, <2>13, <3>1, <3>3, SiblingSubtree
      <4>2. s.disk = Size(current, s.path, "disk") - Size(baseline, s.path, "disk")
        BY <2>9 DEF Change
      <4>3. Size(current, s.path, "disk") \in Int
        BY <2>6, ScanRows DEF Size
      <4>4. Size(current, s.path, "disk") = Size(baseline, s.path, "disk")
        BY <2>14, <3>1, <4>1
      <4>5. s.disk = 0
        BY <4>2, <4>3, <4>4
      <4>. QED
        BY <2>21, <4>5 DEF MinBytes
    <3>. QED
      BY <2>4, <2>9, <3>4 DEF AreRows
  <2>. DEFINE G == {s \in grown : s.disk >= MinBytes}
              S == {s \in below : Abs(s.disk) >= MinBytes}
  <2>22. AreRows(G) /\ AreRows(S) /\ up \in G /\ down \in S
    <3>1. AreRows(G) /\ AreRows(S)
      BY <2>9, FS_Subset DEF AreRows
    <3>2. up.disk >= MinBytes /\ Abs(down.disk) >= MinBytes
      BY <2>16, <2>17, <2>19 DEF MinBytes, Abs
    <3>. QED
      BY <3>1, <3>2
  <2>23. PICK list, shrunk : list = GrownList(grown) /\ shrunk = ShrunkList(below)
    OBVIOUS
  <2>24. list \in Seq(G) /\ Range(list) = G /\ shrunk \in Seq(S) /\ Range(shrunk) = S
    <3>1. list = Ordered(G, GrowthKey) /\ shrunk = Ordered(S, ShrinkKey)
      BY <2>23 DEF GrownList, ShrunkList
    <3>. HIDE DEF G, S
    <3>. QED
      BY <2>22, <3>1, GrowthOrdered, ShrunkOrdered
  <2>25. PICK f : f = Suspicions(list, shrunk)
    OBVIOUS
  <2>26. HoldsFound(f, list, shrunk, Len(list))
    <3>1. Len(list) \in Nat
      <4>. HIDE DEF G
      <4>. QED
        BY <2>24, LenProperties
    <3>. QED
      BY <2>25, <3>1, FoundExists DEF Suspicions
  <2>27. \E s \in f[Len(list)] : s.positive = up
    <3>1. \A s \in G : MaybeRelocated(s, down) => s = up
      BY <2>21
    <3>. HIDE DEF G, S
    <3>2. up \in Range(list) /\ down \in Range(shrunk)
      BY <2>22, <2>24, Zenon
    <3>3. (\A s \in G : s.disk \in Int) /\ (\A s \in S : s.disk \in Int)
      BY <2>22 DEF AreRows
    <3>. QED
      BY <2>20, <2>24, <2>26, <3>1, <3>2, <3>3, PassFinds
  <2>28. RelocationSuspicions(grown, below) = f[Len(list)]
    BY <2>23, <2>25, SuspicionsDefinition
  <2>29. PICK suspects : suspects = RelocationSuspicions(grown, below)
    OBVIOUS
  <2>. DEFINE primary == {s \in grown : \A t \in suspects : ~ MatchesPathPrefix(s.path, t.positive.path)}
  <2>30. Investigate.contributors = Limited(Ordered(primary, GrowthKey), Limit)
    BY <2>1, <2>2, <2>3, <2>29 DEF Investigate
  <2>31. r \in primary
    <3>1. AreRows(primary)
      BY <2>9, FS_Subset DEF AreRows
    <3>2. PICK listed : listed = Ordered(primary, GrowthKey)
      OBVIOUS
    <3>3. r \in Range(Limited(listed, Limit))
      BY <2>30, <3>2
    <3>. HIDE DEF primary
    <3>4. listed \in Seq(primary)
      BY <3>1, <3>2, GrowthOrdered
    <3>. QED
      BY <3>3, <3>4, LimitedRange, LimitAssumption
  <2>32. PICK t \in suspects : t.positive = up
    BY <2>27, <2>28, <2>29
  <2>. QED
    BY <2>4, <2>31, <2>32
<1>. QED
  BY <1>1, PairInvariance, PTL
================================================================================
