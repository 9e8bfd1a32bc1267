-------------------------- MODULE SnapshotPairsProofs --------------------------
(***************************************************************************)
(* The selections of snapshots agree, whatever roots, times and tables:    *)
(* the invariants of SnapshotPairs.                                        *)
(***************************************************************************)
EXTENDS SnapshotPairs, SharedTheorems

--------------------------------------------------------------------------------
(* The table *)

\* The table is finite, and no two of its rows have the same id.
TableOK ==
  /\ snapshots \subseteq Row
  /\ IsFiniteSet(snapshots)
  /\ \A s \in snapshots, t \in snapshots : s.id = t.id => s = t

\* The columns of a row have their types.
LEMMA RowFacts ==
  ASSUME NEW s \in Row
  PROVE  /\ s.id \in Nat \ {0} /\ s.id <= MaxId /\ s.root \in Roots
         /\ s.finished \in Nat /\ s.status \in Statuses
<1>1. /\ s.id \in 1 .. MaxId /\ s.root \in Roots /\ s.status \in Statuses
      /\ s.finished \in Times \union {0}
  BY DEF Row, Running
<1>2. s.id \in Nat \ {0} /\ s.id <= MaxId
  BY <1>1, BoundAssumption
<1>3. s.finished \in Nat
  <2>1. \A x \in Times \union {0} : x \in Nat
    BY TimesAssumption
  <2>. QED
    BY <1>1, <2>1, Zenon
<1>. QED
  BY <1>1, <1>2, <1>3

\* A non-empty set of numbers up to a bound has a largest.
LEMMA LargestNumber ==
  ASSUME NEW bound \in Nat, NEW T, T \subseteq 0 .. bound, T # {}
  PROVE  \E x \in T : \A y \in T : y <= x
<1>. DEFINE less == {ss \in Nat \X Nat : ss[1] < ss[2]}
            gaps == {bound - x : x \in T}
<1>1. IsWellFoundedOn(less, Nat)
  BY NatLessThanWellFounded, Zenon DEF OpToRel
<1>2. gaps \subseteq Nat /\ gaps # {}
  <2>1. \A x \in T : bound - x \in Nat
    OBVIOUS
  <2>2. PICK x : x \in T
    OBVIOUS
  <2>3. bound - x \in gaps
    BY <2>2
  <2>. QED
    BY <2>1, <2>3
<1>3. PICK g \in gaps : \A h \in gaps : ~(<<h, g>> \in less)
  <2>. HIDE DEF less, gaps
  <2>. QED
    BY <1>1, <1>2, WFMin
<1>4. PICK x \in T : g = bound - x
  OBVIOUS
<1>5. ASSUME NEW y \in T PROVE y <= x
  <2>1. ~(<<bound - y, g>> \in less)
    BY <1>3
  <2>. QED
    BY <2>1, <1>4
<1>. QED
  BY <1>5

\* The id that SQLite picks is above all that are in use.
LEMMA NextIdFresh ==
  ASSUME TableOK
  PROVE  NextId \in Nat \ {0} /\ \A s \in snapshots : s.id < NextId
<1>. DEFINE ids == {s.id : s \in snapshots} \union {0}
<1>1. ids \subseteq 0 .. MaxId
  BY RowFacts, BoundAssumption DEF TableOK
<1>2. PICK x \in ids : \A y \in ids : y <= x
  <2>1. ids # {}
    OBVIOUS
  <2>. HIDE DEF ids
  <2>. QED
    BY <1>1, <2>1, LargestNumber, BoundAssumption
<1>3. Max(ids) \in ids /\ \A y \in ids : Max(ids) >= y
  <2>1. \A y \in ids : x >= y
    BY <1>1, <1>2, BoundAssumption
  <2>. HIDE DEF ids
  <2>. QED
    BY <2>1 DEF Max
<1>4. NextId = Max(ids) + 1
  BY DEF NextId
<1>5. \A s \in snapshots : s.id \in ids
  OBVIOUS
<1>. HIDE DEF ids
<1>6. PICK m \in 0 .. MaxId : m = Max(ids)
  BY <1>1, <1>3
<1>7. ASSUME NEW s \in snapshots PROVE s.id \in Nat /\ m >= s.id
  <2>1. PICK i \in ids : i = s.id
    BY <1>5
  <2>. QED
    BY <2>1, <1>1, <1>3, <1>6, BoundAssumption
<1>. QED
  BY <1>4, <1>6, <1>7, BoundAssumption

\* Collections and prunes keep the table as it should be.
THEOREM TableCorrect == Spec => []TableOK
<1>1. Init => TableOK
  BY FS_EmptySet DEF Init, TableOK
<1>2. TableOK /\ [Next]_vars => TableOK'
  <2>. SUFFICES ASSUME TableOK, [Next]_vars
                PROVE  TableOK'
    OBVIOUS
  <2>1. CASE Collect
    <3>1. PICK row : /\ row \in [id : {NextId}, root : Roots, status : Statuses,
                                 finished : Times \union {Running},
                                 seen : SUBSET {"asked", "linked"}]
                     /\ snapshots' = snapshots \union {row} /\ NextId <= MaxId
      BY <2>1 DEF Collect
    <3>2. row \in Row /\ row.id = NextId
      BY <3>1, NextIdFresh, BoundAssumption DEF Row
    <3>3. IsFiniteSet(snapshots')
      BY <3>1, FS_AddElement DEF TableOK
    <3>4. \A s \in snapshots : s.id # row.id
      BY <3>2, NextIdFresh, RowFacts DEF TableOK
    <3>. QED
      BY <3>1, <3>2, <3>3, <3>4 DEF TableOK
  <2>2. CASE Forget
    <3>1. PICK s : snapshots' = snapshots \ {s}
      BY <2>2 DEF Forget
    <3>2. IsFiniteSet(snapshots')
      BY <3>1, FS_RemoveElement DEF TableOK
    <3>. QED
      BY <3>1, <3>2 DEF TableOK
  <2>3. CASE UNCHANGED vars
    BY <2>3 DEF vars, TableOK
  <2>. QED
    BY <2>1, <2>2, <2>3 DEF Next
<1>. QED
  BY <1>1, <1>2, PTL DEF Spec

--------------------------------------------------------------------------------
(* The order of the snapshots *)

\* finished_at and id order the rows of the table.
LEMMA BeforeOrder ==
  ASSUME TableOK, NEW s \in snapshots, NEW t \in snapshots, NEW u \in snapshots
  PROVE  /\ ~Before(s, s)
         /\ Before(s, t) => ~Before(t, s)
         /\ Before(s, t) /\ Before(t, u) => Before(s, u)
         /\ s # t => Before(s, t) \/ Before(t, s)
<1>1. /\ s \in Row /\ t \in Row /\ u \in Row
      /\ s # t => s.id # t.id
  BY DEF TableOK
<1>. QED
  BY <1>1, RowFacts DEF Before

\* Rows that are not the latest are before it.
LEMMA LatestIs ==
  ASSUME TableOK, NEW T, T \subseteq snapshots, T # {}
  PROVE  Latest(T) \in T /\ \A t \in T \ {Latest(T)} : Before(t, Latest(T))
<1>. DEFINE after(s) == {t \in T : Before(s, t)}
            B == {after(s) : s \in T}
<1>1. PICK A \in B : \A C \in B : C \subseteq A => C = A
  <2>1. IsFiniteSet(T)
    BY FS_Subset DEF TableOK
  <2>2. B \subseteq SUBSET T /\ B # {}
    OBVIOUS
  <2>. HIDE DEF B
  <2>. QED
    BY <2>1, <2>2, SmallestSubset
<1>2. PICK s \in T : A = after(s)
  OBVIOUS
<1>3. after(s) = {}
  <2>. SUFFICES ASSUME NEW t \in after(s) PROVE FALSE
    OBVIOUS
  <2>1. t \in T /\ Before(s, t) /\ after(t) \subseteq after(s)
    BY BeforeOrder
  <2>2. after(t) = after(s)
    BY <2>1, <1>1, <1>2
  <2>3. Before(t, t)
    BY <2>1, <2>2
  <2>. QED
    BY <2>1, <2>3, BeforeOrder
<1>4. \A t \in T \ {s} : Before(t, s)
  BY <1>3, BeforeOrder
<1>. QED
  BY <1>4 DEF Latest

\* The oldest row is before the others.
LEMMA OldestIs ==
  ASSUME TableOK, NEW T, T \subseteq snapshots, T # {}
  PROVE  Oldest(T) \in T /\ \A t \in T \ {Oldest(T)} : Before(Oldest(T), t)
<1>. DEFINE prior(s) == {t \in T : Before(t, s)}
            B == {prior(s) : s \in T}
<1>1. PICK A \in B : \A C \in B : C \subseteq A => C = A
  <2>1. IsFiniteSet(T)
    BY FS_Subset DEF TableOK
  <2>2. B \subseteq SUBSET T /\ B # {}
    OBVIOUS
  <2>. HIDE DEF B
  <2>. QED
    BY <2>1, <2>2, SmallestSubset
<1>2. PICK s \in T : A = prior(s)
  OBVIOUS
<1>3. prior(s) = {}
  <2>. SUFFICES ASSUME NEW t \in prior(s) PROVE FALSE
    OBVIOUS
  <2>1. t \in T /\ Before(t, s) /\ prior(t) \subseteq prior(s)
    BY BeforeOrder
  <2>2. prior(t) = prior(s)
    BY <2>1, <1>1, <1>2
  <2>3. Before(t, t)
    BY <2>1, <2>2
  <2>. QED
    BY <2>1, <2>3, BeforeOrder
<1>4. \A t \in T \ {s} : Before(s, t)
  BY <1>3, BeforeOrder
<1>. QED
  BY <1>4 DEF Oldest

\* The row that all others are before is the latest.
LEMMA LatestUnique ==
  ASSUME TableOK, NEW T, T \subseteq snapshots, NEW s \in T,
         \A t \in T \ {s} : Before(t, s)
  PROVE  Latest(T) = s
<1>1. Latest(T) \in T /\ \A t \in T \ {Latest(T)} : Before(t, Latest(T))
  BY LatestIs
<1>. QED
  BY <1>1, BeforeOrder

\* The row that is before all others is the oldest.
LEMMA OldestUnique ==
  ASSUME TableOK, NEW T, T \subseteq snapshots, NEW s \in T,
         \A t \in T \ {s} : Before(s, t)
  PROVE  Oldest(T) = s
<1>1. Oldest(T) \in T /\ \A t \in T \ {Oldest(T)} : Before(Oldest(T), t)
  BY OldestIs
<1>. QED
  BY <1>1, BeforeOrder

\* A sorted list begins with the oldest row and ends with the latest.
LEMMA InOrderEnds ==
  ASSUME TableOK, NEW T, T \subseteq snapshots, T # {}, NEW n, n = Cardinality(T)
  PROVE  /\ n \in Nat \ {0} /\ Len(InOrder(T)) = n /\ \E X : InOrder(T) \in Seq(X)
         /\ InOrder(T)[1] = Oldest(T) /\ InOrder(T)[n] = Latest(T)
<1>. DEFINE before == {x \in T \X T : Before(x[1], x[2])}
            prior(s) == {t \in T : <<t, s>> \in before}
            rank(s) == Cardinality(prior(s))
<1>0. \A s \in T : prior(s) \subseteq T /\ \A t \in T : t \in prior(s) <=> Before(t, s)
  OBVIOUS
<1>1. IsFiniteSet(T)
  BY FS_Subset DEF TableOK
<1>2. n \in Nat \ {0}
  BY <1>1, FS_CardinalityType, FS_EmptySet
<1>3. \A s \in T : IsFiniteSet(prior(s)) /\ rank(s) \in Nat
  BY <1>1, FS_Subset, FS_CardinalityType
<1>4. PICK o \in T : o = Oldest(T) /\ \A t \in T \ {o} : Before(o, t)
  BY OldestIs
<1>5. PICK l \in T : l = Latest(T) /\ \A t \in T \ {l} : Before(t, l)
  BY LatestIs
<1>6. rank(o) = 0
  <2>1. prior(o) = {}
    BY <1>0, <1>4, BeforeOrder
  <2>. QED
    BY <2>1, FS_EmptySet
<1>7. \A s \in T : rank(s) = 0 => s = o
  <2>. SUFFICES ASSUME NEW s \in T, rank(s) = 0, s # o PROVE FALSE
    OBVIOUS
  <2>1. o \in prior(s)
    BY <1>0, <1>4
  <2>. QED
    BY <2>1, <1>3, FS_EmptySet
<1>8. rank(l) = n - 1
  <2>1. prior(l) = T \ {l}
    BY <1>0, <1>5, BeforeOrder
  <2>. QED
    BY <2>1, <1>1, FS_RemoveElement
<1>9. \A s \in T : rank(s) = n - 1 => s = l
  <2>. SUFFICES ASSUME NEW s \in T, rank(s) = n - 1, s # l PROVE FALSE
    OBVIOUS
  <2>1. prior(s) \in SUBSET prior(l) /\ s \in prior(l) /\ s \notin prior(s)
    BY <1>0, <1>5, BeforeOrder
  <2>2. rank(s) = rank(l)
    BY <1>8
  <2>3. prior(l) = prior(s)
    <3>1. IsFiniteSet(prior(l))
      BY <1>3
    <3>. HIDE DEF prior
    <3>. QED
      BY <2>1, <2>2, <3>1, FS_Subset
  <2>. QED
    BY <2>1, <2>3
<1>10. InOrder(T) = [i \in 1 .. n |-> CHOOSE s \in T : rank(s) = i - 1]
  BY DEF InOrder, SortedBy
<1>11. InOrder(T)[1] = o /\ InOrder(T)[n] = l
  <2>1. 1 \in 1 .. n /\ n \in 1 .. n
    BY <1>2
  <2>2. (CHOOSE s \in T : rank(s) = 0) = o /\ (CHOOSE s \in T : rank(s) = n - 1) = l
    <3>. HIDE DEF rank
    <3>. QED
      BY <1>6, <1>7, <1>8, <1>9
  <2>. HIDE DEF rank
  <2>. QED
    BY <2>1, <2>2, <1>2, <1>10
<1>12. Len(InOrder(T)) = n /\ InOrder(T) \in Seq({InOrder(T)[i] : i \in 1 .. n})
  <2>1. PICK f : f = InOrder(T) /\ f = [i \in 1 .. n |-> f[i]]
    BY <1>10
  <2>2. Len(f) = n /\ f \in Seq({f[i] : i \in 1 .. n})
    BY <2>1, <1>2
  <2>. QED
    BY <2>1, <2>2
<1>. QED
  BY <1>2, <1>4, <1>5, <1>11, <1>12

--------------------------------------------------------------------------------
(* The pairs *)

\* A root with a pair has two usable snapshots.
LEMMA TwoUsable ==
  ASSUME TableOK, NEW root \in Paired
  PROVE  /\ Usable(root) \subseteq snapshots /\ Usable(root) # {}
         /\ \A s : \E t \in Usable(root) : t # s
<1>1. PICK U : U = Usable(root)
  OBVIOUS
<1>2. U \subseteq snapshots /\ Cardinality(U) >= 2
  BY <1>1 DEF Usable, Paired
<1>3. IsFiniteSet(U)
  BY <1>2, FS_Subset DEF TableOK
<1>4. U # {} /\ \A s : U # {s}
  <2>1. Cardinality(U) # 0 /\ Cardinality(U) # 1
    BY <1>2
  <2>2. U # {}
    BY <2>1, FS_EmptySet
  <2>3. \A s : U # {s}
    BY <2>1, FS_Singleton
  <2>. QED
    BY <2>2, <2>3
<1>. QED
  BY <1>1, <1>2, <1>4

\* What the pair of a root is: its latest usable snapshot, and the last one at
\* or before the cutoff, or the oldest.
LEMMA PairIs ==
  ASSUME TableOK, NEW root \in Paired, NEW since \in Sinces,
         NEW cur, cur = Latest(Usable(root)),
         NEW eligible, eligible = {s \in Usable(root) : s.finished <= cur.finished - since}
  PROVE  /\ cur \in Usable(root) /\ cur \in snapshots /\ cur.root = root
         /\ \A t \in Usable(root) \ {cur} : Before(t, cur)
         /\ since \in Nat \ {0} /\ cur.finished \in Nat /\ cur \notin eligible
         /\ eligible # {} => PairOfRoot(root, since) = PairOf(Latest(eligible), cur, {})
         /\ eligible = {} =>
              PairOfRoot(root, since) = PairOf(Oldest(Usable(root)), cur,
                                               {"baseline_before_since_unavailable"})
<1>1. PICK U : U = Usable(root)
  OBVIOUS
<1>2. U \subseteq snapshots /\ U # {}
  BY <1>1, TwoUsable
<1>3. cur \in U /\ \A t \in U \ {cur} : Before(t, cur)
  BY <1>1, <1>2, LatestIs
<1>4. since \in Nat \ {0}
  BY TimesAssumption
<1>5. cur \in snapshots /\ cur.finished \in Nat /\ cur.root = root
  <2>1. cur \in snapshots /\ cur.root = root
    BY <1>1, <1>3 DEF Usable
  <2>2. cur \in Row
    BY <2>1 DEF TableOK
  <2>. QED
    BY <2>1, <2>2, RowFacts
<1>6. cur \notin eligible
  BY <1>4, <1>5
<1>7. {s \in U \ {cur} : s.finished <= cur.finished - since} = eligible
  BY <1>1, <1>6
<1>8. PairOfRoot(root, since) =
        IF eligible # {} THEN PairOf(Latest(eligible), cur, {})
        ELSE PairOf(Oldest(U), cur, {"baseline_before_since_unavailable"})
  BY <1>1, <1>7 DEF PairOfRoot
<1>. QED
  BY <1>1, <1>3, <1>4, <1>5, <1>6, <1>8

\* The fields of a pair.
LEMMA PairFields ==
  ASSUME NEW b, NEW c, NEW codes, NEW p, p = PairOf(b, c, codes)
  PROVE  /\ p.root = c.root /\ p.baseline = b /\ p.current = c
         /\ codes \subseteq p.warnings /\ p.warnings \subseteq codes \union {"partial_snapshot"}
         /\ "error" \notin DOMAIN p
         /\ p = PairOf(p.baseline, p.current, codes)
BY DEF PairOf

\* The two snapshots of a pair are usable snapshots of the root, in order.
LEMMA PairEnds ==
  ASSUME TableOK, NEW root \in Paired, NEW since \in Sinces,
         NEW p, p = PairOfRoot(root, since)
  PROVE  /\ p.root = root /\ p.current = Latest(Usable(root))
         /\ p.current \in Usable(root) /\ p.baseline \in Usable(root)
         /\ p.baseline \in snapshots /\ p.current \in snapshots
         /\ Before(p.baseline, p.current)
         /\ "error" \notin DOMAIN p
<1>1. PICK U : U = Usable(root)
  OBVIOUS
<1>2. PICK cur : cur = Latest(U)
  OBVIOUS
<1>3. PICK eligible : eligible = {s \in U : s.finished <= cur.finished - since}
  OBVIOUS
<1>4. /\ cur \in U /\ cur.root = root /\ \A t \in U \ {cur} : Before(t, cur)
      /\ cur \notin eligible
      /\ eligible # {} => p = PairOf(Latest(eligible), cur, {})
      /\ eligible = {} => p = PairOf(Oldest(U), cur, {"baseline_before_since_unavailable"})
  BY <1>1, <1>2, <1>3, PairIs
<1>5. U \subseteq snapshots /\ U # {} /\ eligible \subseteq U
  BY <1>1, <1>3, TwoUsable
<1>6. PICK b \in U : b # cur /\ \E codes : p = PairOf(b, cur, codes)
  <2>1. CASE eligible # {}
    <3>1. Latest(eligible) \in eligible
      BY <2>1, <1>5, LatestIs
    <3>. QED
      BY <2>1, <3>1, <1>4, <1>5
  <2>2. CASE eligible = {}
    <3>1. Oldest(U) \in U /\ \A t \in U \ {Oldest(U)} : Before(Oldest(U), t)
      BY <1>5, OldestIs
    <3>2. PICK t \in U : t # cur
      BY <1>1, TwoUsable
    <3>3. Oldest(U) # cur
      BY <3>1, <3>2, <1>4, <1>5, BeforeOrder
    <3>. QED
      BY <2>2, <3>1, <3>3, <1>4
  <2>. QED
    BY <2>1, <2>2
<1>7. /\ p.root = cur.root /\ p.baseline = b /\ p.current = cur /\ "error" \notin DOMAIN p
  BY <1>6, PairFields
<1>. QED
  BY <1>1, <1>2, <1>4, <1>5, <1>6, <1>7

\* The pair can be asked for again by its ids.
LEMMA PairByIds ==
  ASSUME TableOK, NEW root, NEW b \in Usable(root), NEW c \in Usable(root), Before(b, c)
  PROVE  ResolveByIds(b.id, c.id) = PairOf(b, c, {})
<1>1. /\ b \in snapshots /\ c \in snapshots /\ b.root = c.root
      /\ b.status # "failed" /\ c.status # "failed"
  BY DEF Usable
<1>2. b # c
  BY <1>1, BeforeOrder
<1>3. b.id # c.id
  BY <1>1, <1>2 DEF TableOK
<1>4. {s \in snapshots : s.id = b.id} = {b} /\ {s \in snapshots : s.id = c.id} = {c}
  BY <1>1 DEF TableOK
<1>5. (CHOOSE s \in {b} : TRUE) = b /\ (CHOOSE s \in {c} : TRUE) = c
  OBVIOUS
<1>. QED
  BY <1>1, <1>3, <1>4, <1>5 DEF ResolveByIds

\* The ends of a list with one row put before it.
LEMMA ListEnds ==
  ASSUME NEW X, NEW tail \in Seq(X), NEW n \in Nat \ {0}, Len(tail) = n,
         NEW a
  PROVE  /\ Head(<<a>> \o tail) = a /\ Last(<<a>> \o tail) = tail[n]
         /\ Head(<<>> \o tail) = tail[1] /\ Last(<<>> \o tail) = tail[n]
<1>. DEFINE Y == X \union {a}
<1>1. <<a>> \in Seq(Y) /\ tail \in Seq(Y) /\ Len(<<a>>) = 1 /\ <<a>>[1] = a
  BY SeqMonotonic
<1>2. PICK s : s = <<a>> \o tail
  OBVIOUS
<1>3. /\ s \in Seq(Y) /\ Len(s) = 1 + n
      /\ \A i \in 1 .. 1 + n : s[i] = IF i <= 1 THEN a ELSE tail[i - 1]
  <2>. HIDE DEF Y
  <2>. QED
    BY <1>1, <1>2, ConcatProperties
<1>4. 1 \in 1 .. 1 + n /\ 1 + n \in 1 .. 1 + n /\ ~(1 + n <= 1) /\ (1 + n) - 1 = n
  OBVIOUS
<1>5. s[1] = a /\ s[1 + n] = tail[n]
  BY <1>3, <1>4
<1>6. Head(s) = s[1] /\ Last(s) = s[1 + n]
  BY <1>3 DEF Last
<1>7. <<>> \o tail = tail
  BY ConcatEmptySeq
<1>8. Head(tail) = tail[1] /\ Last(tail) = tail[n]
  BY DEF Last
<1>. QED
  BY <1>2, <1>5, <1>6, <1>7, <1>8

\* The timeline of a root with a pair begins at its baseline and ends at its
\* current snapshot.
LEMMA TrendEnds ==
  ASSUME TableOK, NEW root \in Paired, NEW since \in Sinces,
         NEW p, p = PairOfRoot(root, since), NEW trend, trend = TrendSnapshots(root, since)
  PROVE  Head(trend) = p.baseline /\ Last(trend) = p.current
<1>1. PICK U : U = Usable(root)
  OBVIOUS
<1>2. PICK cur : cur = Latest(U)
  OBVIOUS
<1>3. PICK eligible : eligible = {s \in U : s.finished <= cur.finished - since}
  OBVIOUS
<1>4. /\ cur \in U /\ cur \notin eligible /\ \A t \in U \ {cur} : Before(t, cur)
      /\ since \in Nat \ {0} /\ cur.finished \in Nat
      /\ eligible # {} => p = PairOf(Latest(eligible), cur, {})
      /\ eligible = {} => p = PairOf(Oldest(U), cur, {"baseline_before_since_unavailable"})
  BY <1>1, <1>2, <1>3, PairIs
<1>5. U \subseteq snapshots /\ U # {} /\ eligible \subseteq U
  BY <1>1, <1>3, TwoUsable
<1>6. PICK window : window = {s \in U : s.finished >= cur.finished - since}
  OBVIOUS
<1>7. cur \in window
  BY <1>4, <1>6
<1>8. trend = LET anchor == IF eligible = {} THEN <<>> ELSE <<Latest(eligible)>>
              IN  anchor \o InOrder(window \ ToSet(anchor))
  BY <1>1, <1>2, <1>3, <1>6 DEF TrendSnapshots
<1>9. CASE eligible # {}
  <2>1. PICK a : a = Latest(eligible)
    OBVIOUS
  <2>2. a \in eligible
    BY <1>5, <1>9, <2>1, LatestIs
  <2>3. PICK T : T = window \ {a}
    OBVIOUS
  <2>4. T \subseteq U /\ cur \in T
    BY <1>4, <1>6, <1>7, <2>2, <2>3
  <2>5. Latest(T) = cur
    BY <1>4, <1>5, <2>4, LatestUnique
  <2>6. ToSet(<<a>>) = {a}
    BY DEF ToSet
  <2>7. trend = <<a>> \o InOrder(T)
    BY <1>8, <1>9, <2>1, <2>3, <2>6
  <2>8. PICK n \in Nat \ {0} : /\ Len(InOrder(T)) = n /\ \E X : InOrder(T) \in Seq(X)
                               /\ InOrder(T)[n] = cur
    BY <1>5, <2>4, <2>5, InOrderEnds
  <2>9. Head(trend) = a /\ Last(trend) = cur
    BY <2>7, <2>8, ListEnds
  <2>10. p.baseline = a /\ p.current = cur
    BY <1>4, <1>9, <2>1, PairFields
  <2>. QED
    BY <2>9, <2>10
<1>10. CASE eligible = {}
  <2>1. window = U
    <3>1. \A s \in U : s.finished \in Nat
      BY <1>5, RowFacts DEF TableOK
    <3>. QED
      BY <1>3, <1>4, <1>6, <1>10, <3>1
  <2>2. ToSet(<<>>) = {}
    BY DEF ToSet
  <2>3. trend = <<>> \o InOrder(U)
    BY <1>8, <1>10, <2>1, <2>2
  <2>4. PICK n \in Nat \ {0} : /\ Len(InOrder(U)) = n /\ \E X : InOrder(U) \in Seq(X)
                               /\ InOrder(U)[1] = Oldest(U) /\ InOrder(U)[n] = cur
    BY <1>2, <1>5, InOrderEnds
  <2>5. Head(trend) = Oldest(U) /\ Last(trend) = cur
    BY <2>3, <2>4, ListEnds
  <2>6. p.baseline = Oldest(U) /\ p.current = cur
    BY <1>4, <1>10, PairFields
  <2>. QED
    BY <2>5, <2>6
<1>. QED
  BY <1>9, <1>10

\* For every table and every --since: diff, timeline, top and a pair asked for
\* by its ids show the same window.
THEOREM SameWindow == Spec => []SelectorsAgree
<1>1. TableOK => SelectorsAgree
  <2>. SUFFICES ASSUME TableOK, NEW since \in Sinces, NEW root \in Paired,
                       NEW p, p = PairOfRoot(root, since)
                PROVE  /\ Head(TrendSnapshots(p.root, since)) = p.baseline
                       /\ Last(TrendSnapshots(p.root, since)) = p.current
                       /\ p.current \in TopSnapshots
                       /\ ResolveByIds(p.baseline.id, p.current.id) =
                            PairOf(p.baseline, p.current, {})
    BY DEF SelectorsAgree, ResolveSnapshotPairs
  <2>1. /\ p.root = root /\ p.current = Latest(Usable(root))
        /\ p.current \in Usable(root) /\ p.baseline \in Usable(root)
        /\ Before(p.baseline, p.current)
    BY PairEnds
  <2>2. /\ Head(TrendSnapshots(p.root, since)) = p.baseline
        /\ Last(TrendSnapshots(p.root, since)) = p.current
    BY <2>1, TrendEnds
  <2>3. p.current \in TopSnapshots
    BY <2>1 DEF TopSnapshots, Paired
  <2>4. ResolveByIds(p.baseline.id, p.current.id) = PairOf(p.baseline, p.current, {})
    BY <2>1, PairByIds
  <2>. QED
    BY <2>2, <2>3, <2>4
<1>. QED
  BY <1>1, TableCorrect, PTL

--------------------------------------------------------------------------------
(* Nested roots *)

\* A path of a root that contains the target is no longer than the target.
LEMMA RootLength ==
  ASSUME NEW root \in Roots, NEW target \in Targets, MatchesPathPrefix(target, root)
  PROVE  Len(root) \in Nat /\ Len(target) \in Nat /\ Len(root) <= Len(target)
<1>1. root \in Seq(Nat) /\ target \in Seq(Nat)
  BY PathsAssumption
<1>2. Len(root) \in Nat /\ Len(target) \in Nat
  BY <1>1, LenProperties
<1>. QED
  BY <1>1, <1>2 DEF MatchesPathPrefix, IsPrefix

\* Of the pairs of roots that contain the target, one has the longest root.
LEMMA DeepestPair ==
  ASSUME NEW target \in Targets, NEW M, M # {},
         \A p \in M : p.root \in Roots /\ MatchesPathPrefix(target, p.root)
  PROVE  \E p \in M : \A q \in M : Len(q.root) <= Len(p.root)
<1>. DEFINE lengths == {Len(p.root) : p \in M}
<1>1. \A p \in M : Len(p.root) \in 0 .. Len(target)
  BY RootLength
<1>2. PICK x \in lengths : \A y \in lengths : y <= x
  <2>1. lengths # {} /\ lengths \subseteq 0 .. Len(target)
    BY <1>1
  <2>2. Len(target) \in Nat
    BY PathsAssumption, LenProperties
  <2>. HIDE DEF lengths
  <2>. QED
    BY <2>1, <2>2, LargestNumber
<1>. QED
  BY <1>2

\* For every table, every --since and every target: the pair that explains a
\* path is the pair of the innermost root that contains it.
THEOREM InnermostRoot == Spec => []NestedRootOwnsPath
<1>1. TableOK => NestedRootOwnsPath
  <2>. SUFFICES ASSUME TableOK, NEW since \in Sinces, NEW target \in Targets,
                       NEW p, p = SelectPairForTarget(ResolveSnapshotPairs(since), target,
                                                      Insufficient),
                       "error" \notin DOMAIN p,
                       NEW r \in Known, MatchesPathPrefix(target, r)
                PROVE  Len(r) <= Len(p.root)
    BY DEF NestedRootOwnsPath
  <2>1. PICK M : M = {q \in ResolveSnapshotPairs(since) : MatchesPathPrefix(target, q.root)}
    OBVIOUS
  <2>2. Known \subseteq Roots /\ Paired \subseteq Known
    BY RowFacts DEF Known, Paired, TableOK
  <2>3. \A q \in ResolveSnapshotPairs(since) : q.root \in Paired
    BY PairEnds DEF ResolveSnapshotPairs
  <2>4. PICK sel : sel = CHOOSE q \in M : \A u \in M : Len(u.root) <= Len(q.root)
    OBVIOUS
  <2>5. p = IF M = {} THEN Error("path_outside_roots")
            ELSE IF \E u \in Insufficient : /\ MatchesPathPrefix(target, u)
                                            /\ Len(u) > Len(sel.root)
                   THEN Error("insufficient_same_root_snapshots")
            ELSE sel
    BY <2>1, <2>4 DEF SelectPairForTarget
  <2>6. \A code : "error" \in DOMAIN Error(code)
    BY DEF Error
  <2>7. /\ M # {} /\ p = sel
        /\ ~ \E u \in Insufficient : MatchesPathPrefix(target, u) /\ Len(u) > Len(sel.root)
    BY <2>5, <2>6
  <2>8. \A q \in M : q.root \in Roots /\ MatchesPathPrefix(target, q.root)
    BY <2>1, <2>2, <2>3
  <2>9. sel \in M /\ \A u \in M : Len(u.root) <= Len(sel.root)
    BY <2>4, <2>7, <2>8, DeepestPair
  <2>10. CASE r \in Paired
    <3>1. PICK q : q = PairOfRoot(r, since)
      OBVIOUS
    <3>2. q.root = r /\ q \in ResolveSnapshotPairs(since)
      BY <2>10, <3>1, PairEnds DEF ResolveSnapshotPairs
    <3>3. q \in M
      BY <2>1, <3>2
    <3>. QED
      BY <2>7, <2>9, <3>2, <3>3
  <2>11. CASE r \notin Paired
    <3>1. ~(Len(r) > Len(sel.root))
      BY <2>7, <2>11 DEF Insufficient
    <3>2. Len(r) \in Nat
      BY <2>2, RootLength
    <3>3. Len(sel.root) \in Nat
      BY <2>8, <2>9, RootLength
    <3>. QED
      BY <2>7, <3>1, <3>2, <3>3
  <2>. QED
    BY <2>10, <2>11
<1>. QED
  BY <1>1, TableCorrect, PTL

--------------------------------------------------------------------------------
(* Histories *)

\* Every list of observations has a first and a last one.
LEMMA ObservedEnds ==
  ASSUME TableOK, NEW E, E # {}, E \subseteq [snapshot : snapshots, linked : BOOLEAN]
  PROVE  /\ FirstObserved(E) \in E
         /\ \A p \in E : ~Before(p.snapshot, FirstObserved(E).snapshot)
         /\ LastObserved(E) \in E
         /\ \A p \in E : ~Before(LastObserved(E).snapshot, p.snapshot)
<1>1. PICK T : T = {o.snapshot : o \in E}
  OBVIOUS
<1>2. T \subseteq snapshots /\ T # {} /\ \A o \in E : o.snapshot \in T /\ o.linked \in BOOLEAN
  BY <1>1
<1>3. \A o, p \in E : o.snapshot = p.snapshot /\ o.linked = p.linked => o = p
  OBVIOUS
<1>4. PICK s \in T : \A t \in T \ {s} : Before(s, t)
  BY <1>2, OldestIs
<1>5. PICK f \in E : f.snapshot = s /\ (f.linked => \A p \in E : p.snapshot = s => p.linked)
  BY <1>1
<1>6. \A p \in E \ {f} : ObservedBefore(f, p)
  <2>. SUFFICES ASSUME NEW p \in E \ {f} PROVE ObservedBefore(f, p)
    OBVIOUS
  <2>1. p.snapshot # s => Before(f.snapshot, p.snapshot)
    BY <1>2, <1>4, <1>5
  <2>2. p.snapshot = s => p.linked /\ ~f.linked
    BY <1>2, <1>3, <1>5
  <2>. QED
    BY <2>1, <2>2, <1>5 DEF ObservedBefore
<1>7. PICK g : g = FirstObserved(E) /\ g \in E /\ \A p \in E \ {g} : ObservedBefore(g, p)
  BY <1>6 DEF FirstObserved
<1>8. \A p \in E : ~Before(p.snapshot, g.snapshot)
  BY <1>2, <1>7, BeforeOrder DEF ObservedBefore
<1>9. PICK u \in T : \A t \in T \ {u} : Before(t, u)
  BY <1>2, LatestIs
<1>10. PICK l \in E : l.snapshot = u /\ (~l.linked => \A p \in E : p.snapshot = u => ~p.linked)
  BY <1>1
<1>11. \A p \in E \ {l} : ObservedBefore(p, l)
  <2>. SUFFICES ASSUME NEW p \in E \ {l} PROVE ObservedBefore(p, l)
    OBVIOUS
  <2>1. p.snapshot # u => Before(p.snapshot, l.snapshot)
    BY <1>2, <1>9, <1>10
  <2>2. p.snapshot = u => ~p.linked /\ l.linked
    BY <1>2, <1>3, <1>10
  <2>. QED
    BY <2>1, <2>2, <1>10 DEF ObservedBefore
<1>12. PICK k : k = LastObserved(E) /\ k \in E /\ \A p \in E \ {k} : ObservedBefore(p, k)
  BY <1>11 DEF LastObserved
<1>13. \A p \in E : ~Before(k.snapshot, p.snapshot)
  BY <1>2, <1>12, BeforeOrder DEF ObservedBefore
<1>. QED
  BY <1>7, <1>8, <1>12, <1>13

\* The snapshots with a usable row of the directory the link leads to.
Found == {o.snapshot : o \in {q \in Observations : q.linked}}

\* What the observations are: usable snapshots, and what each has a row of.
LEMMA ObservationsAre ==
  ASSUME TableOK
  PROVE  /\ Observations \subseteq [snapshot : snapshots, linked : BOOLEAN]
         /\ \A o \in Observations : o.snapshot \in snapshots /\ o.snapshot \in Usable(o.snapshot.root)
         /\ \A r : \A s \in Usable(r) : s.seen # {} => \E o \in Observations : o.snapshot = s
         /\ \A s \in Found : s \in snapshots /\ s \in Usable(s.root) /\ "linked" \in s.seen
         /\ \A r : \A s \in Usable(r) : "linked" \in s.seen => s \in Found
<1>1. Observations \subseteq [snapshot : snapshots, linked : BOOLEAN]
  BY DEF Observations
<1>2. \A o \in Observations : o.snapshot \in snapshots /\ o.snapshot \in Usable(o.snapshot.root)
  BY DEF Observations, Usable
<1>3. ASSUME NEW r, NEW s \in Usable(r), NEW b \in BOOLEAN,
             (IF b THEN "linked" ELSE "asked") \in s.seen
      PROVE  \E o \in Observations : o.snapshot = s /\ o.linked = b
  <2>1. PICK o : o = [snapshot |-> s, linked |-> b]
    OBVIOUS
  <2>2. /\ s \in snapshots /\ s.finished # Running /\ s.status # "failed"
    BY <1>3 DEF Usable
  <2>3. o \in [snapshot : snapshots, linked : BOOLEAN] /\ o.snapshot = s /\ o.linked = b
    BY <2>1, <2>2
  <2>. QED
    BY <2>2, <2>3, <1>3 DEF Observations
<1>4. ASSUME NEW r, NEW s \in Usable(r), s.seen # {}
      PROVE  \E o \in Observations : o.snapshot = s
  <2>1. s \in Row
    BY <1>4 DEF Usable, TableOK
  <2>2. s.seen \subseteq {"asked", "linked"}
    BY <2>1 DEF Row
  <2>3. "asked" \in s.seen \/ "linked" \in s.seen
    BY <2>2, <1>4
  <2>. QED
    BY <2>3, <1>3
<1>5. ASSUME NEW s \in Found
      PROVE  s \in snapshots /\ s \in Usable(s.root) /\ "linked" \in s.seen
  <2>1. PICK o \in Observations : o.linked /\ s = o.snapshot
    BY DEF Found
  <2>. QED
    BY <2>1, <1>2 DEF Observations
<1>6. ASSUME NEW r, NEW s \in Usable(r), "linked" \in s.seen
      PROVE  s \in Found
  <2>1. PICK o \in Observations : o.snapshot = s /\ o.linked = TRUE
    BY <1>6, <1>3
  <2>. QED
    BY <2>1 DEF Found
<1>. QED
  BY <1>1, <1>2, <1>4, <1>5, <1>6

\* The observations before a snapshot, and those of them at or before the cutoff.
Earlier(cur) == {o \in Observations : Before(o.snapshot, cur)}
InTime(cur, since) == {o \in Earlier(cur) : o.snapshot.finished <= cur.finished - since}

\* What the history is: the newest observation of the directory, and the last
\* observation of either path at or before the cutoff, or the first.
LEMMA HistoryIs ==
  ASSUME TableOK, NEW since \in Sinces, NEW h, h = HistoryPair(Observations, since),
         NEW cur, cur = Latest(Found)
  PROVE  /\ Found = {} \/ Earlier(cur) = {} => "error" \in DOMAIN h
         /\ Found # {} /\ Earlier(cur) # {} =>
              /\ "error" \notin DOMAIN h /\ h.current = cur
              /\ h.warnings \subseteq (IF InTime(cur, since) = {}
                                         THEN {"baseline_before_since_unavailable"} ELSE {})
                                        \union {"partial_snapshot"}
              /\ \E o \in Earlier(cur) :
                   /\ h.baseline = o.snapshot
                   /\ InTime(cur, since) # {} =>
                        /\ o \in InTime(cur, since)
                        /\ \A q \in InTime(cur, since) : ~Before(o.snapshot, q.snapshot)
                   /\ InTime(cur, since) = {} =>
                        \A q \in Earlier(cur) : ~Before(q.snapshot, o.snapshot)
<1>1. PICK obs : obs = Observations
  OBVIOUS
<1>2. PICK earlier : earlier = Earlier(cur)
  OBVIOUS
<1>3. PICK E : E = InTime(cur, since)
  OBVIOUS
<1>4. PICK chosen : chosen = IF E = {} THEN FirstObserved(earlier) ELSE LastObserved(E)
  OBVIOUS
<1>5. PICK found : found = Found
  OBVIOUS
<1>6. h = IF found = {} THEN Error("path_not_indexed")
          ELSE IF earlier = {} THEN Error("insufficient_same_root_snapshots")
          ELSE PairOf(chosen.snapshot, cur,
                      IF E = {} THEN {"baseline_before_since_unavailable"} ELSE {})
  <2>1. /\ found = {o.snapshot : o \in {q \in obs : q.linked}} /\ cur = Latest(found)
        /\ earlier = {o \in obs : Before(o.snapshot, cur)}
        /\ E = {o \in earlier : o.snapshot.finished <= cur.finished - since}
    BY <1>1, <1>2, <1>3, <1>5 DEF Found, Earlier, InTime
  <2>2. h = LET candidates == {o.snapshot : o \in {q \in obs : q.linked}}
                current == Latest(candidates)
                before == {o \in obs : Before(o.snapshot, current)}
                enough == {o \in before : o.snapshot.finished <= current.finished - since}
                taken == IF enough = {} THEN FirstObserved(before) ELSE LastObserved(enough)
            IN  IF candidates = {} THEN Error("path_not_indexed")
                ELSE IF before = {} THEN Error("insufficient_same_root_snapshots")
                ELSE PairOf(taken.snapshot, current,
                            IF enough = {} THEN {"baseline_before_since_unavailable"} ELSE {})
    BY <1>1 DEF HistoryPair
  <2>. QED
    BY <2>1, <2>2, <1>4, Zenon
<1>7. found = {} \/ earlier = {} => "error" \in DOMAIN h
  BY <1>6 DEF Error
<1>8. ASSUME found # {}, earlier # {}
      PROVE  /\ "error" \notin DOMAIN h /\ h.current = cur /\ h.baseline = chosen.snapshot
             /\ h.warnings \subseteq (IF E = {} THEN {"baseline_before_since_unavailable"} ELSE {})
                                       \union {"partial_snapshot"}
  BY <1>6, <1>8, PairFields
<1>9. /\ earlier \subseteq [snapshot : snapshots, linked : BOOLEAN]
      /\ E \subseteq earlier
  BY <1>2, <1>3, ObservationsAre DEF Earlier, InTime
<1>10. E # {} => chosen \in E /\ \A q \in E : ~Before(chosen.snapshot, q.snapshot)
  BY <1>4, <1>9, ObservedEnds
<1>11. earlier # {} /\ E = {} =>
         chosen \in earlier /\ \A q \in earlier : ~Before(q.snapshot, chosen.snapshot)
  BY <1>4, <1>9, ObservedEnds
<1>. QED
  BY <1>2, <1>3, <1>5, <1>7, <1>8, <1>9, <1>10, <1>11

\* The history and the pair of a root.
LEMMA HistoryAndPair ==
  ASSUME TableOK, NEW since \in Sinces, NEW root \in Paired,
         NEW h, h = HistoryPair(Observations, since),
         NEW p, p = PairOfRoot(root, since)
  PROVE  HistoryEnds(h, p) /\ HistoryStarts(h, p) /\ HistoryIsPair(h, p)
<1>1. PICK U : U = Usable(root)
  OBVIOUS
<1>2. PICK last : last = Latest(U)
  OBVIOUS
<1>3. PICK eligible : eligible = {s \in U : s.finished <= last.finished - since}
  OBVIOUS
<1>4. PICK cur : cur = Latest(Found)
  OBVIOUS
<1>5. PICK E : E = InTime(cur, since)
  OBVIOUS
<1>6. /\ U \subseteq snapshots /\ eligible \subseteq U
  BY <1>1, <1>3, TwoUsable
<1>7. /\ last \in U /\ last \notin eligible /\ \A t \in U \ {last} : Before(t, last)
      /\ eligible # {} => p = PairOf(Latest(eligible), last, {})
      /\ eligible = {} => p = PairOf(Oldest(U), last, {"baseline_before_since_unavailable"})
  BY <1>1, <1>2, <1>3, PairIs
<1>8. /\ p.root = root /\ p.current = last /\ p.baseline \in U /\ Before(p.baseline, last)
  BY <1>1, <1>2, PairEnds
<1>9. /\ Found \subseteq snapshots
      /\ Found # {} => cur \in Found /\ \A t \in Found \ {cur} : Before(t, cur)
  <2>1. Found \subseteq snapshots
    BY ObservationsAre
  <2>. QED
    BY <2>1, <1>4, LatestIs
<1>10. HistoryEnds(h, p)
  <2>. SUFFICES ASSUME "error" \notin DOMAIN h, h.current.root = root
                PROVE  /\ h.current = last <=> "linked" \in last.seen
                       /\ h.current # last => Before(h.current, last)
    BY <1>8 DEF HistoryEnds
  <2>1. Found # {} /\ h.current = cur
    BY <1>4, HistoryIs
  <2>2. cur \in Found /\ cur \in U /\ "linked" \in cur.seen
    BY <2>1, <1>1, <1>9, ObservationsAre
  <2>3. "linked" \in last.seen => last \in Found
    BY <1>1, <1>7, ObservationsAre
  <2>4. "linked" \in last.seen => cur = last
    BY <2>2, <2>3, <1>6, <1>7, <1>9, BeforeOrder
  <2>. QED
    BY <2>1, <2>2, <2>4, <1>7
<1>11. ASSUME "linked" \in last.seen, p.baseline.seen # {}
       PROVE  /\ "error" \notin DOMAIN h
              /\ h.current = cur
              /\ cur = last \/ Before(last, cur)
              /\ Earlier(cur) # {}
  <2>1. last \in Found
    BY <1>1, <1>7, <1>11, ObservationsAre
  <2>2. cur = last \/ Before(last, cur)
    BY <2>1, <1>9
  <2>3. PICK o \in Observations : o.snapshot = p.baseline
    BY <1>1, <1>8, <1>11, ObservationsAre
  <2>4. Before(p.baseline, cur)
    <3>1. cur \in snapshots /\ p.baseline \in snapshots /\ last \in snapshots
      BY <2>1, <1>6, <1>7, <1>8, <1>9
    <3>. QED
      BY <3>1, <2>2, <1>8, BeforeOrder
  <2>5. o \in Earlier(cur)
    BY <2>3, <2>4 DEF Earlier
  <2>6. Found # {} /\ Earlier(cur) # {}
    BY <2>1, <2>5
  <2>7. "error" \notin DOMAIN h /\ h.current = cur
    BY <2>6, <1>4, HistoryIs
  <2>. QED
    BY <2>2, <2>6, <2>7
<1>12. eligible # {} => p.baseline = Latest(eligible) /\ p.baseline \in eligible
  <2>1. eligible # {} => Latest(eligible) \in eligible
    BY <1>6, LatestIs
  <2>. QED
    BY <2>1, <1>7, PairFields
<1>13. eligible = {} => p.baseline = Oldest(U) /\ "baseline_before_since_unavailable" \in p.warnings
  BY <1>7, PairFields
<1>14. ASSUME cur = last, NEW s \in eligible, s.seen # {}
       PROVE  \E o \in E : o.snapshot = s
  <2>1. PICK o \in Observations : o.snapshot = s
    BY <1>1, <1>6, <1>14, ObservationsAre
  <2>2. Before(s, cur) /\ s.finished <= cur.finished - since
    BY <1>3, <1>6, <1>7, <1>14
  <2>. QED
    BY <2>1, <2>2, <1>5 DEF InTime, Earlier
<1>15. HistoryStarts(h, p)
  <2>. SUFFICES ASSUME "linked" \in last.seen, p.baseline.seen # {}
                PROVE  /\ "error" \notin DOMAIN h
                       /\ h.current = last \/ Before(last, h.current)
                       /\ h.current = last =>
                            /\ h.warnings \subseteq p.warnings \union {"partial_snapshot"}
                            /\ "baseline_before_since_unavailable" \notin p.warnings =>
                                 h.baseline = p.baseline \/ Before(p.baseline, h.baseline)
    BY <1>8 DEF HistoryStarts
  <2>1. /\ "error" \notin DOMAIN h /\ h.current = cur /\ Earlier(cur) # {}
        /\ cur = last \/ Before(last, cur)
    BY <1>11
  <2>2. ASSUME cur = last
        PROVE  /\ h.warnings \subseteq p.warnings \union {"partial_snapshot"}
               /\ "baseline_before_since_unavailable" \notin p.warnings =>
                    h.baseline = p.baseline \/ Before(p.baseline, h.baseline)
    <3>1. Found # {}
      BY <2>1, <1>4, HistoryIs
    <3>2. h.warnings \subseteq (IF E = {} THEN {"baseline_before_since_unavailable"} ELSE {})
                                 \union {"partial_snapshot"}
      BY <2>1, <3>1, <1>4, <1>5, HistoryIs
    <3>3. PICK o \in Earlier(cur) :
                   /\ h.baseline = o.snapshot
                   /\ E # {} => \A q \in E : ~Before(o.snapshot, q.snapshot)
      BY <2>1, <3>1, <1>4, <1>5, HistoryIs
    <3>4. CASE eligible = {}
      BY <3>2, <3>4, <1>13
    <3>5. CASE eligible # {}
      <4>1. PICK q \in E : q.snapshot = p.baseline
        BY <2>2, <3>5, <1>12, <1>14
      <4>2. ~Before(o.snapshot, p.baseline)
        BY <4>1, <3>3
      <4>3. o.snapshot \in snapshots /\ p.baseline \in snapshots
        BY <3>3, <1>6, <1>8, ObservationsAre DEF Earlier
      <4>4. o.snapshot = p.baseline \/ Before(p.baseline, o.snapshot)
        BY <4>2, <4>3, BeforeOrder
      <4>. QED
        BY <4>1, <4>4, <3>2, <3>3
    <3>. QED
      BY <3>4, <3>5
  <2>. QED
    BY <2>1, <2>2
<1>16. HistoryIsPair(h, p)
  <2>. SUFFICES ASSUME \A s \in U : s.seen # {},
                       \A o \in Observations : o.snapshot.root = root,
                       "linked" \in last.seen
                PROVE  h.current = last /\ h.baseline = p.baseline
    BY <1>1, <1>8 DEF HistoryIsPair
  <2>1. \A o \in Observations : o.snapshot \in U
    BY <1>1, ObservationsAre
  <2>2. p.baseline.seen # {}
    BY <1>8
  <2>3. "error" \notin DOMAIN h /\ h.current = cur /\ (cur = last \/ Before(last, cur)) /\ Earlier(cur) # {}
    BY <2>2, <1>11
  <2>4. Found # {}
    BY <2>3, <1>4, HistoryIs
  <2>5. cur \in U
    BY <2>1, <2>4, <1>9 DEF Found
  <2>6. cur = last
    BY <2>3, <2>5, <1>6, <1>7, BeforeOrder
  <2>7. PICK o \in Earlier(cur) :
                   /\ h.baseline = o.snapshot
                   /\ E # {} => o \in E /\ \A q \in E : ~Before(o.snapshot, q.snapshot)
                   /\ E = {} => \A q \in Earlier(cur) : ~Before(q.snapshot, o.snapshot)
    BY <2>3, <2>4, <1>4, <1>5, HistoryIs
  <2>8. o.snapshot \in U /\ Before(o.snapshot, last)
    BY <2>1, <2>6, <2>7 DEF Earlier
  <2>9. \A q \in E : q.snapshot \in eligible
    BY <2>1, <2>6, <1>3, <1>5 DEF InTime, Earlier
  <2>10. CASE eligible # {}
    <3>1. \A s \in eligible : \E q \in E : q.snapshot = s
      BY <2>6, <1>6, <1>14
    <3>2. o \in E /\ \A q \in E : ~Before(o.snapshot, q.snapshot)
      BY <2>7, <2>10, <3>1
    <3>3. o.snapshot \in eligible
      BY <2>9, <3>2
    <3>4. \A s \in eligible \ {o.snapshot} : Before(s, o.snapshot)
      BY <3>1, <3>2, <3>3, <1>6, BeforeOrder
    <3>5. Latest(eligible) = o.snapshot
      BY <3>3, <3>4, <1>6, LatestUnique
    <3>. QED
      BY <2>3, <2>6, <2>7, <2>10, <3>5, <1>12
  <2>11. CASE eligible = {}
    <3>1. E = {}
      BY <2>9, <2>11
    <3>2. ASSUME NEW s \in U \ {o.snapshot} PROVE Before(o.snapshot, s)
      <4>1. CASE s = last
        BY <4>1, <2>8
      <4>2. CASE s # last
        <5>1. PICK q \in Observations : q.snapshot = s
          BY <1>1, ObservationsAre
        <5>2. q \in Earlier(cur)
          BY <5>1, <4>2, <2>6, <1>7 DEF Earlier
        <5>3. ~Before(s, o.snapshot)
          BY <5>1, <5>2, <3>1, <2>7
        <5>. QED
          BY <5>3, <2>8, <1>6, BeforeOrder
      <4>. QED
        BY <4>1, <4>2
    <3>3. Oldest(U) = o.snapshot
      BY <3>2, <2>8, <1>6, OldestUnique
    <3>. QED
      BY <2>3, <2>6, <2>7, <2>11, <3>3, <1>13
  <2>. QED
    BY <2>10, <2>11
<1>. QED
  BY <1>10, <1>15, <1>16

\* For every table, every --since and whatever rows the scans lack: a history
\* ends and starts where the pair of its root does, as far as its scans have
\* usable rows of the two directories.
THEOREM HistoryOfMoved == Spec => []HistoryExtendsPair
<1>1. TableOK => HistoryExtendsPair
  BY HistoryAndPair DEF HistoryExtendsPair, ResolveSnapshotPairs
<1>. QED
  BY <1>1, TableCorrect, PTL
================================================================================
