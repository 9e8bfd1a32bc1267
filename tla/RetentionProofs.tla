---------------------------- MODULE RetentionProofs ----------------------------
(***************************************************************************)
(* What prune keeps, for every policy, calendar, number of roots and       *)
(* length of history: the invariants of Retention, and that the pass over  *)
(* the rows selects what the tiers define.                                 *)
(***************************************************************************)
EXTENDS RetentionLoop, WellFoundedInduction, TLAPS

--------------------------------------------------------------------------------
(* The order of the snapshots *)

\* The columns of a row have their types.
LEMMA RowFacts ==
  ASSUME NEW x \in Row
  PROVE  /\ x.id \in Nat /\ x.id <= MaxId /\ x.at \in Nat /\ x.at <= MaxNow
         /\ x.complete \in BOOLEAN /\ x.root \in Roots
BY BoundsAssumption DEF Row

\* A non-empty set has an element whose measure is the largest.
LEMMA LargestMeasure ==
  ASSUME NEW bound \in Nat, NEW T, T # {},
         NEW f, \A x \in T : f[x] \in Nat /\ f[x] <= bound
  PROVE  \E x \in T : \A y \in T : f[y] <= f[x]
<1>. DEFINE less == {ss \in Nat \X Nat : ss[1] < ss[2]}
            gaps == {bound - f[x] : x \in T}
<1>1. IsWellFoundedOn(less, Nat)
  BY NatLessThanWellFounded, Zenon DEF OpToRel
<1>2. gaps \subseteq Nat /\ gaps # {}
  OBVIOUS
<1>3. PICK g \in gaps : \A h \in gaps : ~(<<h, g>> \in less)
  <2>. HIDE DEF less, gaps
  <2>. QED
    BY <1>1, <1>2, WFMin
<1>4. PICK x \in T : g = bound - f[x]
  OBVIOUS
<1>5. ASSUME NEW y \in T PROVE f[y] <= f[x]
  <2>1. ~(<<bound - f[y], g>> \in less)
    BY <1>3
  <2>. QED
    BY <2>1, <1>4
<1>. QED
  BY <1>5

\* A non-empty set of rows has one that no other is later than: max() over
\* (finished_at, id), which the loop of retention.py computes.
LEMMA LatestExists ==
  ASSUME NEW T, T \subseteq Row, T # {}
  PROVE  \E x \in T : \A y \in T : ~Later(y, x)
<1>. DEFINE at == [x \in T |-> x.at]
<1>1. PICK m \in T : \A y \in T : at[y] <= at[m]
  <2>1. \A x \in T : at[x] \in Nat /\ at[x] <= MaxNow
    BY RowFacts
  <2>. HIDE DEF at
  <2>. QED
    BY <2>1, LargestMeasure, BoundsAssumption
<1>. DEFINE U == {x \in T : x.at = m.at}
            id == [x \in U |-> x.id]
<1>2. PICK n \in U : \A y \in U : id[y] <= id[n]
  <2>1. \A x \in U : id[x] \in Nat /\ id[x] <= MaxId
    BY RowFacts
  <2>2. U # {}
    OBVIOUS
  <2>. HIDE DEF id, U
  <2>. QED
    BY <2>1, <2>2, LargestMeasure, BoundsAssumption
<1>3. ASSUME NEW y \in T PROVE ~Later(y, n)
  <2>1. y.at <= n.at
    BY <1>1
  <2>2. y.at = n.at => y.id <= n.id
    BY <1>2
  <2>. QED
    BY <2>1, <2>2, RowFacts DEF Later
<1>. QED
  BY <1>3

\* "Not later" is a preorder.
LEMMA NotLaterOrder ==
  ASSUME NEW x \in Row, NEW y \in Row, NEW z \in Row
  PROVE  /\ ~Later(x, x)
         /\ ~Later(x, y) /\ ~Later(y, z) => ~Later(x, z)
BY RowFacts DEF Later

--------------------------------------------------------------------------------
(* The tiers *)

\* A cutoff never moves back while the clock does not.
LEMMA Cutoffs ==
  ASSUME NEW t \in Nat, NEW u \in Nat, t <= u
  PROVE  /\ HourlyCutoff(t) \in Int /\ HourlyCutoff(u) \in Int
         /\ DailyCutoff(t) \in Int /\ DailyCutoff(u) \in Int
         /\ IncompleteCutoff(t) \in Int /\ IncompleteCutoff(u) \in Int
         /\ HourlyCutoff(t) <= HourlyCutoff(u)
         /\ DailyCutoff(t) <= DailyCutoff(u)
         /\ IncompleteCutoff(t) <= IncompleteCutoff(u)
<1>1. HourlyDays * DayLength \in Int /\ DailyDays * DayLength \in Int
  BY PolicyAssumption, CalendarAssumption
<1>. QED
  BY <1>1, PolicyAssumption DEF HourlyCutoff, DailyCutoff, IncompleteCutoff

\* A later prune of the same rows keeps nothing that an earlier one drops.
LEMMA KeptLaterKeptEarlier ==
  ASSUME NEW S, S \subseteq Row, NEW t \in Nat, NEW u \in Nat, t <= u
  PROVE  Retained(S, u) \subseteq Retained(S, t)
<1>. SUFFICES ASSUME NEW x \in Retained(S, u)
              PROVE  x \in Retained(S, t)
  OBVIOUS
<1>0. x \in S /\ x \in Row
  BY DEF Retained
<1>1. CASE ~x.complete
  BY <1>0, <1>1, Cutoffs, RowFacts DEF Retained
<1>2. CASE x.complete /\ InHourly(x, u)
  <2>1. InHourly(x, t)
    BY <1>0, <1>2, Cutoffs, RowFacts DEF InHourly
  <2>. QED
    BY <2>1, <1>0, <1>2 DEF Retained
<1>3. CASE x.complete /\ DailyRepresentative(x, S, u)
  <2>1. CASE InHourly(x, t)
    BY <2>1, <1>0, <1>3 DEF Retained
  <2>2. CASE ~InHourly(x, t)
    <3>1. InDaily(x, t)
      BY <2>2, <1>0, <1>3, Cutoffs, RowFacts DEF DailyRepresentative, InDaily
    <3>2. ASSUME NEW y \in S, y.complete, y.root = x.root, Day(y) = Day(x),
                 InDaily(y, t), Later(y, x)
          PROVE  FALSE
      <4>1. y.at >= x.at /\ x.at >= DailyCutoff(u) /\ y.at \in Nat /\ x.at \in Nat
        BY <3>2, <1>0, <1>3, RowFacts DEF Later, DailyRepresentative, InDaily
      <4>2. y.at < HourlyCutoff(t)
        BY <3>2, <4>1, Cutoffs DEF InDaily, InHourly
      <4>3. InDaily(y, u)
        BY <4>1, <4>2, Cutoffs DEF InDaily, InHourly
      <4>. QED
        BY <3>2, <4>3, <1>3 DEF DailyRepresentative
    <3>3. DailyRepresentative(x, S, t)
      BY <3>1, <3>2 DEF DailyRepresentative
    <3>. QED
      BY <3>3, <1>0, <1>3 DEF Retained
  <2>. QED
    BY <2>1, <2>2
<1>4. CASE x.complete /\ MonthlyRepresentative(x, S, u)
  BY <1>0, <1>4 DEF Retained, MonthlyRepresentative
<1>. QED
  BY <1>0, <1>1, <1>2, <1>3, <1>4, RowFacts DEF Retained

\* A row that is added saves no other row.
LEMMA AddedSavesNone ==
  ASSUME NEW S, NEW x, NEW t
  PROVE  Retained(S \union {x}, t) \subseteq Retained(S, t) \union {x}
BY DEF Retained, DailyRepresentative, MonthlyRepresentative

\* When the rows that are left include what would be kept of all, the rows
\* that are missing change no representative.
LEMMA MissingChangeNothing ==
  ASSUME NEW S, NEW A, A \subseteq Row, S \subseteq A, NEW t \in Nat,
         Retained(A, t) \subseteq S
  PROVE  Retained(S, t) = Retained(A, t)
<1>1. Retained(A, t) \subseteq Retained(S, t)
  BY DEF Retained, DailyRepresentative, MonthlyRepresentative
<1>2. ASSUME NEW x \in Retained(S, t) PROVE x \in Retained(A, t)
  <2>0. x \in S /\ x \in A /\ x \in Row
    BY <1>2 DEF Retained
  <2>1. CASE ~x.complete \/ InHourly(x, t)
    BY <2>0, <2>1, <1>2 DEF Retained
  <2>2. CASE x.complete /\ DailyRepresentative(x, S, t)
    <3>. DEFINE T == {y \in A : /\ y.complete /\ y.root = x.root /\ Day(y) = Day(x)
                                /\ InDaily(y, t)}
    <3>1. x \in T
      BY <2>0, <2>2 DEF DailyRepresentative
    <3>2. PICK m \in T : \A y \in T : ~Later(y, m)
      BY <3>1, LatestExists
    <3>3. DailyRepresentative(m, A, t)
      BY <3>2 DEF DailyRepresentative
    <3>4. m \in S
      BY <3>3 DEF Retained
    <3>5. ~Later(m, x)
      BY <3>4, <2>2 DEF DailyRepresentative
    <3>6. \A y \in T : ~Later(y, x)
      BY <3>2, <3>5, <2>0, NotLaterOrder
    <3>7. DailyRepresentative(x, A, t)
      BY <3>6, <2>2 DEF DailyRepresentative
    <3>. QED
      BY <3>7, <2>0, <2>2 DEF Retained
  <2>3. CASE x.complete /\ MonthlyRepresentative(x, S, t)
    <3>. DEFINE T == {y \in A : y.complete /\ y.root = x.root /\ Month(y) = Month(x)}
    <3>1. x \in T
      BY <2>0, <2>3
    <3>2. PICK m \in T : \A y \in T : ~Later(y, m)
      BY <3>1, LatestExists
    <3>3. MonthlyRepresentative(m, A, t)
      BY <3>2 DEF MonthlyRepresentative
    <3>4. m \in S
      BY <3>3 DEF Retained
    <3>5. ~Later(m, x)
      BY <3>4, <2>3 DEF MonthlyRepresentative
    <3>6. \A y \in T : ~Later(y, x)
      BY <3>2, <3>5, <2>0, NotLaterOrder
    <3>7. MonthlyRepresentative(x, A, t)
      BY <3>6, <2>3 DEF MonthlyRepresentative
    <3>. QED
      BY <3>7, <2>0, <2>3 DEF Retained
  <2>. QED
    BY <1>2, <2>1, <2>2, <2>3 DEF Retained
<1>. QED
  BY <1>1, <1>2

--------------------------------------------------------------------------------
(* The behaviours *)

\* The rows of the database are rows it has had, and what a cut-off prune
\* left behind is still there to be deleted.
THEOREM TypeCorrect == Spec => []TypeOK
<1>1. Init => TypeOK
  <2>1. 0 \in 0 .. MaxNow
    BY BoundsAssumption
  <2>. QED
    BY <2>1, Zenon DEF Init, TypeOK
<1>2. TypeOK /\ [Next]_vars => TypeOK'
  <2>. SUFFICES ASSUME TypeOK, [Next]_vars
                PROVE  TypeOK'
    OBVIOUS
  <2>. USE BoundsAssumption DEF TypeOK
  <2>1. CASE Tick
    BY <2>1 DEF Tick
  <2>2. CASE ClockSetBack
    BY <2>2 DEF ClockSetBack
  <2>3. ASSUME NEW r \in Roots, NEW complete \in BOOLEAN, Collect(r, complete)
        PROVE  TypeOK'
    BY <2>3 DEF Collect, Row
  <2>4. CASE Prune
    BY <2>4 DEF Prune
  <2>5. CASE UNCHANGED vars
    BY <2>5 DEF vars
  <2>. QED
    BY <2>1, <2>2, <2>3, <2>4, <2>5 DEF Next
<1>. QED
  BY <1>1, <1>2, PTL DEF Spec

\* What Collect adds to the database.
LEMMA CollectAdds ==
  ASSUME TypeOK, NEW r \in Roots, NEW complete \in BOOLEAN, Collect(r, complete)
  PROVE  \E x \in Row : /\ rows' = rows \union {x} /\ ever' = ever \union {x}
                        /\ x \notin dropped
                        /\ UNCHANGED <<now, dropped, setBack>>
<1>1. PICK id \in 1 .. MaxId :
        /\ \A x \in rows : x.id < id
        /\ LET x == [id |-> id, root |-> r, complete |-> complete, at |-> now]
           IN  rows' = rows \union {x} /\ ever' = ever \union {x}
  BY DEF Collect
<1>. DEFINE x == [id |-> id, root |-> r, complete |-> complete, at |-> now]
<1>2. x \in Row
  BY DEF TypeOK, Row
<1>3. x \notin rows
  BY <1>1, BoundsAssumption
<1>4. x \notin dropped
  BY <1>3 DEF TypeOK
<1>. QED
  BY <1>1, <1>2, <1>4 DEF Collect

\* What Prune leaves in the database: everything the tiers keep.
LEMMA PruneKeeps ==
  ASSUME Prune
  PROVE  /\ Retained(rows, now) \subseteq rows'
         /\ dropped' \subseteq dropped \union (rows \ Retained(rows, now))
         /\ UNCHANGED <<now, ever, setBack>>
BY DEF Prune, Retained

\* No prune, completed or cut off, under whatever clock, leaves a month of a
\* root without a COMPLETE snapshot at least as new as the newest it ever had.
THEOREM MonthAlwaysCovered == Spec => []MonthCovered
<1>1. Init => MonthCovered
  BY DEF Init, MonthCovered
<1>2. TypeOK /\ MonthCovered /\ [Next]_vars => MonthCovered'
  <2>. SUFFICES ASSUME TypeOK, MonthCovered, [Next]_vars
                PROVE  MonthCovered'
    OBVIOUS
  <2>1. CASE UNCHANGED <<rows, ever>>
    BY <2>1 DEF MonthCovered
  <2>2. ASSUME NEW r \in Roots, NEW complete \in BOOLEAN, Collect(r, complete)
        PROVE  MonthCovered'
    <3>1. PICK x \in Row : rows' = rows \union {x} /\ ever' = ever \union {x}
      BY <2>2, CollectAdds
    <3>2. ~Later(x, x)
      BY NotLaterOrder
    <3>. QED
      BY <3>1, <3>2 DEF MonthCovered
  <2>3. CASE Prune
    <3>. SUFFICES ASSUME NEW x \in ever, x.complete
                  PROVE  \E y \in rows' : /\ y.complete /\ y.root = x.root
                                          /\ Month(y) = Month(x) /\ ~Later(x, y)
      BY <2>3, PruneKeeps DEF MonthCovered
    <3>. DEFINE T == {y \in rows : y.complete /\ y.root = x.root /\ Month(y) = Month(x)}
    <3>1. PICK y \in T : ~Later(x, y)
      BY DEF MonthCovered
    <3>2. PICK m \in T : \A z \in T : ~Later(z, m)
      BY <3>1, LatestExists DEF TypeOK
    <3>3. MonthlyRepresentative(m, rows, now)
      BY <3>2 DEF MonthlyRepresentative
    <3>4. m \in rows'
      BY <3>3, <2>3, PruneKeeps DEF Retained
    <3>5. ~Later(x, m)
      BY <3>1, <3>2, NotLaterOrder DEF TypeOK
    <3>. QED
      BY <3>4, <3>5
  <2>. QED
    BY <2>1, <2>2, <2>3 DEF Next, Tick, ClockSetBack, vars
<1>. QED
  BY <1>1, <1>2, TypeCorrect, PTL DEF Spec

\* The inductive invariant: whenever a prune may come, now or later, the rows
\* it would keep of all there ever were are still there, and none of them is
\* one that an earlier prune decided against.
FutureKept ==
  ~setBack => \A t \in Nat : t >= now =>
    /\ Retained(ever, t) \subseteq rows
    /\ dropped \intersect Retained(ever, t) = {}

\* No sequence of collections and prunes, completed or cut off, takes from the
\* database what a later prune would keep.
THEOREM FutureAlwaysKept == Spec => []FutureKept
<1>1. Init => FutureKept
  BY DEF Init, FutureKept, Retained
<1>2. TypeOK /\ FutureKept /\ [Next]_vars => FutureKept'
  <2>. SUFFICES ASSUME TypeOK, FutureKept, [Next]_vars
                PROVE  FutureKept'
    OBVIOUS
  <2>0. now \in Nat
    BY BoundsAssumption DEF TypeOK
  <2>1. CASE UNCHANGED vars
    BY <2>1 DEF vars, FutureKept
  <2>2. CASE Tick
    <3>. SUFFICES ASSUME ~setBack, NEW t \in Nat, t >= now + 1
                  PROVE  /\ Retained(ever, t) \subseteq rows
                         /\ dropped \intersect Retained(ever, t) = {}
      BY <2>2 DEF Tick, FutureKept
    <3>. QED
      BY <2>0 DEF FutureKept
  <2>3. CASE ClockSetBack
    BY <2>3 DEF ClockSetBack, FutureKept
  <2>4. ASSUME NEW r \in Roots, NEW complete \in BOOLEAN, Collect(r, complete)
        PROVE  FutureKept'
    <3>1. PICK x \in Row : /\ rows' = rows \union {x} /\ ever' = ever \union {x}
                          /\ x \notin dropped
                          /\ UNCHANGED <<now, dropped, setBack>>
      BY <2>4, CollectAdds
    <3>2. \A t \in Nat : Retained(ever', t) \subseteq Retained(ever, t) \union {x}
      BY <3>1, AddedSavesNone
    <3>. QED
      BY <3>1, <3>2 DEF FutureKept
  <2>5. CASE Prune
    <3>. SUFFICES ASSUME ~setBack, NEW t \in Nat, t >= now
                  PROVE  /\ Retained(ever, t) \subseteq rows'
                         /\ dropped' \intersect Retained(ever, t) = {}
      BY <2>5, PruneKeeps DEF FutureKept
    <3>1. Retained(rows, now) = Retained(ever, now)
      BY <2>0, MissingChangeNothing DEF TypeOK, FutureKept
    <3>2. Retained(ever, t) \subseteq Retained(ever, now)
      BY <2>0, KeptLaterKeptEarlier DEF TypeOK
    <3>3. dropped \intersect Retained(ever, t) = {}
      BY DEF FutureKept
    <3>. QED
      BY <3>1, <3>2, <3>3, <2>5, PruneKeeps
  <2>. QED
    BY <2>1, <2>2, <2>3, <2>4, <2>5 DEF Next
<1>. QED
  BY <1>1, <1>2, TypeCorrect, PTL DEF Spec

\* The instance of FutureKept at the present time.
LEMMA KeptAsIfNeverPruned ==
  ASSUME TypeOK, FutureKept
  PROVE  PruneHistoryFree /\ DroppedForGood
<1>. SUFFICES ASSUME ~setBack
              PROVE  /\ Retained(rows, now) = Retained(ever, now)
                     /\ dropped \intersect Retained(rows, now) = {}
  BY DEF PruneHistoryFree, DroppedForGood
<1>1. now \in Nat
  BY BoundsAssumption DEF TypeOK
<1>2. /\ Retained(ever, now) \subseteq rows
      /\ dropped \intersect Retained(ever, now) = {}
  BY <1>1 DEF FutureKept
<1>3. Retained(rows, now) = Retained(ever, now)
  BY <1>1, <1>2, MissingChangeNothing DEF TypeOK
<1>. QED
  BY <1>2, <1>3

\* For every policy and calendar: until the clock is set back, what a prune
\* keeps does not depend on the prunes before it, however they ended.
THEOREM HistoryFree == Spec => []PruneHistoryFree
<1>. QED
  BY TypeCorrect, FutureAlwaysKept, KeptAsIfNeverPruned, PTL

\* For every policy and calendar: until the clock is set back, no prune keeps
\* a snapshot that a cut-off prune has decided against.
THEOREM NeverKeptAgain == Spec => []DroppedForGood
<1>. QED
  BY TypeCorrect, FutureAlwaysKept, KeptAsIfNeverPruned, PTL

--------------------------------------------------------------------------------
(* The pass over the rows *)

\* No two rows have the same id.
UniqueIds == \A x \in rows, y \in rows : x.id = y.id => x = y

\* A collection takes an id above all that are in use.
THEOREM IdsUnique == Spec => []UniqueIds
<1>1. Init => UniqueIds
  BY DEF Init, UniqueIds
<1>2. TypeOK /\ UniqueIds /\ [Next]_vars => UniqueIds'
  <2>. SUFFICES ASSUME TypeOK, UniqueIds, [Next]_vars
                PROVE  UniqueIds'
    OBVIOUS
  <2>1. ASSUME NEW r \in Roots, NEW complete \in BOOLEAN, Collect(r, complete)
        PROVE  UniqueIds'
    <3>1. PICK id \in 1 .. MaxId :
            /\ \A x \in rows : x.id < id
            /\ LET x == [id |-> id, root |-> r, complete |-> complete, at |-> now]
               IN  rows' = rows \union {x}
      BY <2>1 DEF Collect
    <3>2. \A x \in rows : x.id \in Nat
      BY RowFacts DEF TypeOK
    <3>3. PICK x : x.id = id /\ rows' = rows \union {x}
      BY <3>1
    <3>4. \A y \in rows : y.id # id
      BY <3>1, <3>2, BoundsAssumption
    <3>. QED
      BY <3>3, <3>4 DEF UniqueIds
  <2>2. CASE rows' \subseteq rows
    BY <2>2 DEF UniqueIds
  <2>. QED
    BY <2>1, <2>2 DEF Next, Tick, ClockSetBack, Prune, vars
<1>. QED
  BY <1>1, <1>2, TypeCorrect, PTL DEF Spec

\* The buckets of the representatives.
MonthBucket == [x \in Row |-> <<x.root, Month(x)>>]
DayBucket   == [x \in Row |-> <<x.root, Day(x)>>]

\* dict has the latest row of every bucket that has a row in S.
HoldsLatest(dict, S, bucket) ==
  /\ DOMAIN dict = {bucket[x] : x \in S}
  /\ \A b \in DOMAIN dict :
       /\ dict[b] \in S /\ bucket[dict[b]] = b
       /\ \A y \in S : bucket[y] = b => ~Later(y, dict[b])

\* Offering a row keeps a dictionary of the latest rows.
LEMMA OfferHolds ==
  ASSUME NEW S, S \subseteq Row, NEW x \in Row, NEW bucket, NEW dict,
         HoldsLatest(dict, S, bucket)
  PROVE  HoldsLatest(Offer(dict, bucket[x], x), S \union {x}, bucket)
<1>. DEFINE c == bucket[x]
            more == [b \in DOMAIN dict \union {c} |-> IF b = c THEN x ELSE dict[b]]
<1>1. CASE c \in DOMAIN dict /\ ~Later(x, dict[c])
  <2>1. Offer(dict, c, x) = dict
    BY <1>1 DEF Offer
  <2>. QED
    BY <1>1, <2>1 DEF HoldsLatest
<1>2. CASE c \notin DOMAIN dict \/ Later(x, dict[c])
  <2>1. Offer(dict, c, x) = more
    BY <1>2 DEF Offer
  <2>2. DOMAIN more = {bucket[y] : y \in S \union {x}}
    BY DEF HoldsLatest
  <2>3. ASSUME NEW y \in S \union {x}, bucket[y] = c
        PROVE  ~Later(y, x)
    <3>1. CASE y = x
      BY <3>1, NotLaterOrder
    <3>2. CASE y \in S
      <4>1. c \in DOMAIN dict /\ dict[c] \in S /\ Later(x, dict[c]) /\ ~Later(y, dict[c])
        BY <3>2, <2>3, <1>2 DEF HoldsLatest
      <4>. QED
        BY <4>1, <3>2, RowFacts DEF Later
    <3>. QED
      BY <3>1, <3>2
  <2>4. ASSUME NEW b \in DOMAIN more
        PROVE  /\ more[b] \in S \union {x} /\ bucket[more[b]] = b
               /\ \A y \in S \union {x} : bucket[y] = b => ~Later(y, more[b])
    <3>1. CASE b = c
      BY <3>1, <2>3
    <3>2. CASE b # c
      BY <3>2 DEF HoldsLatest
    <3>. QED
      BY <3>1, <3>2
  <2>. QED
    BY <2>1, <2>2, <2>4 DEF HoldsLatest
<1>. QED
  BY <1>1, <1>2

\* The rows of such a dictionary are those that no row of their bucket is
\* later than, when no two rows have the same id.
LEMMA LatestRows ==
  ASSUME NEW S, S \subseteq Row, \A x \in S, y \in S : x.id = y.id => x = y,
         NEW bucket, NEW dict, HoldsLatest(dict, S, bucket)
  PROVE  Range(dict) = {x \in S : \A y \in S : bucket[y] = bucket[x] => ~Later(y, x)}
<1>1. ASSUME NEW x \in S, \A y \in S : bucket[y] = bucket[x] => ~Later(y, x)
      PROVE  x \in Range(dict)
  <2>1. bucket[x] \in DOMAIN dict
    BY DEF HoldsLatest
  <2>2. PICK z : z = dict[bucket[x]]
    OBVIOUS
  <2>3. z \in S /\ ~Later(x, z) /\ ~Later(z, x)
    BY <1>1, <2>1, <2>2 DEF HoldsLatest
  <2>4. z.id = x.id
    BY <2>3, RowFacts DEF Later
  <2>. QED
    BY <2>1, <2>2, <2>3, <2>4 DEF Range
<1>2. ASSUME NEW x \in Range(dict)
      PROVE  x \in S /\ \A y \in S : bucket[y] = bucket[x] => ~Later(y, x)
  BY DEF Range, HoldsLatest
<1>. QED
  BY <1>1, <1>2

\* The state of the pass once it has read the rows S.
Read(state, S, t) ==
  /\ state = [keep |-> state.keep, daily |-> state.daily, monthly |-> state.monthly]
  /\ state.keep = {x \in S : IF x.complete THEN InHourly(x, t) ELSE x.at >= IncompleteCutoff(t)}
  /\ HoldsLatest(state.daily, {x \in S : x.complete /\ InDaily(x, t)}, DayBucket)
  /\ HoldsLatest(state.monthly, {x \in S : x.complete}, MonthBucket)

\* One turn of the loop reads one row more.
LEMMA ReadsOne ==
  ASSUME NEW t \in Nat, NEW S, S \subseteq Row, NEW x \in Row,
         NEW state, Read(state, S, t)
  PROVE  Read(RecordRetained(t, state, x), S \union {x}, t)
<1>. DEFINE next == RecordRetained(t, state, x)
            T == S \union {x}
            days(R) == {y \in R : y.complete /\ InDaily(y, t)}
            months(R) == {y \in R : y.complete}
            kept(R) == {y \in R : IF y.complete THEN InHourly(y, t)
                                                ELSE y.at >= IncompleteCutoff(t)}
<1>. SUFFICES Read(next, T, t)
  OBVIOUS
<1>0. PICK keep, daily, monthly : state = [keep |-> keep, daily |-> daily, monthly |-> monthly]
  BY DEF Read
<1>1. /\ keep = kept(S)
      /\ HoldsLatest(daily, days(S), DayBucket)
      /\ HoldsLatest(monthly, months(S), MonthBucket)
  BY <1>0 DEF Read
<1>2. /\ x.complete \in BOOLEAN /\ x.at \in Int /\ HourlyCutoff(t) \in Int
      /\ DailyCutoff(t) \in Int
  BY RowFacts, Cutoffs
<1>3. /\ MonthBucket[x] = <<x.root, Month(x)>>
      /\ DayBucket[x] = <<x.root, Day(x)>>
  BY DEF MonthBucket, DayBucket
<1>4. x.complete => HoldsLatest(Offer(monthly, <<x.root, Month(x)>>, x), months(T), MonthBucket)
  <2>1. HoldsLatest(Offer(monthly, MonthBucket[x], x), months(S) \union {x}, MonthBucket)
    BY <1>1, OfferHolds
  <2>2. x.complete => months(T) = months(S) \union {x}
    OBVIOUS
  <2>. QED
    BY <2>1, <2>2, <1>3
<1>5. x.complete /\ InDaily(x, t)
        => HoldsLatest(Offer(daily, <<x.root, Day(x)>>, x), days(T), DayBucket)
  <2>1. HoldsLatest(Offer(daily, DayBucket[x], x), days(S) \union {x}, DayBucket)
    BY <1>1, OfferHolds
  <2>2. x.complete /\ InDaily(x, t) => days(T) = days(S) \union {x}
    OBVIOUS
  <2>. QED
    BY <2>1, <2>2, <1>3
<1>6. ~x.complete => months(T) = months(S)
  OBVIOUS
<1>7. ~(x.complete /\ InDaily(x, t)) => days(T) = days(S)
  OBVIOUS
<1>8. ASSUME NEW k, NEW d, NEW m, next = [keep |-> k, daily |-> d, monthly |-> m],
             k = kept(T), HoldsLatest(d, days(T), DayBucket),
             HoldsLatest(m, months(T), MonthBucket)
      PROVE  Read(next, T, t)
  <2>1. next.keep = k /\ next.daily = d /\ next.monthly = m
    BY <1>8
  <2>. HIDE DEF next
  <2>. QED
    BY <2>1, <1>8 DEF Read
<1>9. CASE ~x.complete
  <2>1. next = [keep |-> IF x.at >= IncompleteCutoff(t) THEN keep \union {x} ELSE keep,
                daily |-> daily, monthly |-> monthly]
    BY <1>0, <1>9 DEF RecordRetained
  <2>2. (IF x.at >= IncompleteCutoff(t) THEN keep \union {x} ELSE keep) = kept(T)
    BY <1>1, <1>9
  <2>. HIDE DEF next, kept, T, days, months
  <2>. QED
    BY <2>1, <2>2, <1>1, <1>6, <1>7, <1>8, <1>9
<1>. DEFINE m == Offer(monthly, <<x.root, Month(x)>>, x)
            d == Offer(daily, <<x.root, Day(x)>>, x)
<1>10. PICK o : o = [state EXCEPT !.monthly = Offer(@, <<x.root, Month(x)>>, x)]
  OBVIOUS
<1>11. o = [keep |-> keep, daily |-> daily, monthly |-> m]
  BY <1>0, <1>10
<1>12. x.complete =>
         next = CASE x.at >= HourlyCutoff(t) -> [o EXCEPT !.keep = @ \union {x}]
                  [] x.at < HourlyCutoff(t) /\ x.at >= DailyCutoff(t) ->
                       [o EXCEPT !.daily = Offer(@, <<x.root, Day(x)>>, x)]
                  [] OTHER -> o
  BY <1>10 DEF RecordRetained
<1>13. CASE x.complete /\ InHourly(x, t)
  <2>1. next = [keep |-> keep \union {x}, daily |-> daily, monthly |-> m]
    <3>. HIDE DEF next, m
    <3>. QED
      BY <1>11, <1>12, <1>13, <1>2 DEF InHourly
  <2>2. keep \union {x} = kept(T)
    BY <1>1, <1>13
  <2>3. ~InDaily(x, t)
    BY <1>13 DEF InDaily
  <2>. HIDE DEF next, kept, T, days, months
  <2>. QED
    BY <2>1, <2>2, <2>3, <1>1, <1>4, <1>7, <1>8, <1>13
<1>14. CASE x.complete /\ InDaily(x, t)
  <2>1. next = [keep |-> keep, daily |-> d, monthly |-> m]
    <3>. HIDE DEF next, m
    <3>. QED
      BY <1>11, <1>12, <1>14, <1>2 DEF InHourly, InDaily
  <2>2. keep = kept(T)
    BY <1>1, <1>14 DEF InDaily
  <2>. HIDE DEF next, kept, T, days, months
  <2>. QED
    BY <2>1, <2>2, <1>4, <1>5, <1>8, <1>14
<1>15. CASE x.complete /\ ~InHourly(x, t) /\ ~InDaily(x, t)
  <2>1. next = [keep |-> keep, daily |-> daily, monthly |-> m]
    <3>. HIDE DEF next, m
    <3>. QED
      BY <1>11, <1>12, <1>15, <1>2 DEF InHourly, InDaily
  <2>2. keep = kept(T)
    BY <1>1, <1>15
  <2>. HIDE DEF next, kept, T, days, months
  <2>. QED
    BY <2>1, <2>2, <1>1, <1>4, <1>7, <1>8, <1>15
<1>. QED
  BY <1>2, <1>9, <1>13, <1>14, <1>15

\* One turn of the loop: the row with the id k, when there is one.
Turn(t, state, k) ==
  IF \E x \in rows : x.id = k
    THEN RecordRetained(t, state, CHOOSE x \in rows : x.id = k)
    ELSE state

Empty == [keep |-> {}, daily |-> [bucket \in {} |-> {}], monthly |-> [bucket \in {} |-> {}]]

\* states holds the states of the pass over the ids up to n.
HoldsStates(states, t, n) ==
  states = [k \in 0 .. n |-> IF k = 0 THEN Empty ELSE Turn(t, states[k - 1], k)]

\* The definition of the pass, with its recursive function named.
LEMMA LoopDefinition ==
  ASSUME NEW t
  PROVE  LoopState(t) = CHOOSE states : HoldsStates(states, t, MaxId)
BY DEF LoopState, HoldsStates, Turn, Empty

\* The recursion of the pass defines its states.
LEMMA StatesExist ==
  ASSUME NEW t
  PROVE  HoldsStates(LoopState(t), t, MaxId)
<1>. DEFINE Bad == {n \in Nat : ~ \E states : HoldsStates(states, t, n)}
            less == {ss \in Nat \X Nat : ss[1] < ss[2]}
<1>1. SUFFICES Bad = {}
  <2>1. \E states : HoldsStates(states, t, MaxId)
    BY <1>1, BoundsAssumption
  <2>. QED
    BY <2>1, LoopDefinition
<1>2. SUFFICES ASSUME Bad # {} PROVE FALSE
  OBVIOUS
<1>3. PICK n \in Bad : \A m \in Bad : ~(<<m, n>> \in less)
  <2>1. IsWellFoundedOn(less, Nat)
    BY NatLessThanWellFounded, Zenon DEF OpToRel
  <2>2. Bad \subseteq Nat
    OBVIOUS
  <2>. HIDE DEF less, Bad
  <2>. QED
    BY <1>2, <2>1, <2>2, WFMin
<1>4. CASE n = 0
  <2>1. HoldsStates([k \in 0 .. 0 |-> Empty], t, 0)
    BY DEF HoldsStates
  <2>. QED
    BY <2>1, <1>3, <1>4
<1>5. CASE n # 0
  <2>1. n - 1 \in Nat /\ n - 1 < n
    BY <1>5
  <2>2. n - 1 \notin Bad
    BY <2>1, <1>3
  <2>3. PICK g : HoldsStates(g, t, n - 1)
    BY <2>1, <2>2
  <2>. DEFINE h == [k \in 0 .. n |-> IF k = n THEN Turn(t, g[n - 1], n) ELSE g[k]]
  <2>4. \A k \in 0 .. n - 1 : h[k] = g[k]
    BY <2>1
  <2>5. ASSUME NEW k \in 0 .. n
        PROVE  h[k] = IF k = 0 THEN Empty ELSE Turn(t, h[k - 1], k)
    <3>1. CASE k = n
      <4>1. h[k - 1] = g[n - 1] /\ k # 0
        BY <3>1, <2>1, <1>5
      <4>. QED
        BY <4>1, <3>1
    <3>2. CASE k # n
      <4>1. k \in 0 .. n - 1 /\ h[k] = g[k] /\ (k # 0 => k - 1 \in 0 .. n - 1)
        BY <3>2, <2>1
      <4>2. k # 0 => h[k - 1] = g[k - 1]
        BY <4>1, <2>4
      <4>3. g[k] = IF k = 0 THEN Empty ELSE Turn(t, g[k - 1], k)
        BY <4>1, <2>3 DEF HoldsStates
      <4>. QED
        BY <4>1, <4>2, <4>3
    <3>. QED
      BY <3>1, <3>2
  <2>6. HoldsStates(h, t, n)
    <3>1. h = [k \in 0 .. n |-> h[k]]
      OBVIOUS
    <3>. HIDE DEF h
    <3>. QED
      BY <3>1, <2>5 DEF HoldsStates
  <2>. QED
    BY <2>6, <1>3
<1>. QED
  BY <1>3, <1>4, <1>5

\* After the ids up to k the pass has read the rows with these ids.
LEMMA PassReads ==
  ASSUME TypeOK, UniqueIds, NEW t \in Nat, NEW k \in 0 .. MaxId
  PROVE  Read(LoopState(t)[k], {x \in rows : x.id <= k}, t)
<1>. DEFINE Seen(n) == {x \in rows : x.id <= n}
            Bad == {n \in 0 .. MaxId : ~Read(LoopState(t)[n], Seen(n), t)}
            less == {ss \in Nat \X Nat : ss[1] < ss[2]}
<1>0. rows \subseteq Row
  BY DEF TypeOK
<1>1. SUFFICES ASSUME Bad # {} PROVE FALSE
  OBVIOUS
<1>2. PICK n \in Bad : \A m \in Bad : ~(<<m, n>> \in less)
  <2>1. IsWellFoundedOn(less, Nat)
    BY NatLessThanWellFounded, Zenon DEF OpToRel
  <2>2. Bad \subseteq Nat
    BY BoundsAssumption
  <2>. HIDE DEF less, Bad
  <2>. QED
    BY <1>1, <2>1, <2>2, WFMin
<1>3. LoopState(t)[n] = IF n = 0 THEN Empty ELSE Turn(t, LoopState(t)[n - 1], n)
  <2>1. PICK states : states = LoopState(t)
    OBVIOUS
  <2>2. HoldsStates(states, t, MaxId)
    BY <2>1, StatesExist
  <2>3. n \in 0 .. MaxId
    OBVIOUS
  <2>4. states[n] = IF n = 0 THEN Empty ELSE Turn(t, states[n - 1], n)
    BY <2>2, <2>3 DEF HoldsStates
  <2>. QED
    BY <2>1, <2>4
<1>4. CASE n = 0
  <2>1. Seen(0) = {}
    BY <1>0, RowFacts DEF Row
  <2>2. Read(Empty, {}, t)
    BY DEF Read, Empty, HoldsLatest
  <2>. QED
    BY <2>1, <2>2, <1>2, <1>3, <1>4
<1>5. CASE n # 0
  <2>1. n - 1 \in 0 .. MaxId /\ n - 1 \in Nat /\ n - 1 < n /\ n \in Nat
    BY <1>5, BoundsAssumption
  <2>2. Read(LoopState(t)[n - 1], Seen(n - 1), t)
    BY <2>1, <1>2
  <2>3. CASE \E x \in rows : x.id = n
    <3>1. PICK x : x = CHOOSE y \in rows : y.id = n
      OBVIOUS
    <3>2. x \in rows /\ x.id = n /\ x \in Row
      BY <2>3, <3>1, <1>0
    <3>3. Seen(n) = Seen(n - 1) \union {x}
      BY <3>2, <2>1, <1>0, RowFacts DEF UniqueIds
    <3>4. LoopState(t)[n] = RecordRetained(t, LoopState(t)[n - 1], x)
      BY <1>3, <1>5, <2>3, <3>1 DEF Turn
    <3>5. Seen(n - 1) \subseteq Row
      BY <1>0
    <3>6. Read(LoopState(t)[n], Seen(n), t)
      <4>. HIDE DEF Seen
      <4>. QED
        BY <3>2, <3>3, <3>4, <3>5, <2>2, ReadsOne
    <3>. QED
      BY <3>6, <1>2
  <2>4. CASE ~ \E x \in rows : x.id = n
    <3>1. Seen(n) = Seen(n - 1)
      BY <2>4, <2>1, <1>0, RowFacts
    <3>2. LoopState(t)[n] = LoopState(t)[n - 1]
      BY <1>3, <1>5, <2>4 DEF Turn
    <3>. QED
      BY <3>1, <3>2, <2>2, <1>2
  <2>. QED
    BY <2>3, <2>4
<1>. QED
  BY <1>4, <1>5

\* What the pass over the rows selects.
LEMMA PassSelects ==
  ASSUME TypeOK, UniqueIds, NEW t \in Nat
  PROVE  SelectRetained(t) = Retained(rows, t)
<1>. DEFINE days == {x \in rows : x.complete /\ InDaily(x, t)}
            months == {x \in rows : x.complete}
<1>0. rows \subseteq Row
  BY DEF TypeOK
<1>1. PICK state : state = LoopState(t)[MaxId]
  OBVIOUS
<1>2. Read(state, rows, t)
  <2>1. {x \in rows : x.id <= MaxId} = rows
    BY <1>0, RowFacts
  <2>2. MaxId \in 0 .. MaxId
    BY BoundsAssumption
  <2>. QED
    BY <2>1, <2>2, <1>1, PassReads
<1>3. SelectRetained(t) = state.keep \union Range(state.daily) \union Range(state.monthly)
  BY <1>1 DEF SelectRetained
<1>4. Range(state.daily) = {x \in days : \A y \in days : DayBucket[y] = DayBucket[x] => ~Later(y, x)}
  <2>1. /\ days \subseteq Row /\ \A x \in days, y \in days : x.id = y.id => x = y
        /\ HoldsLatest(state.daily, days, DayBucket)
    BY <1>0, <1>2 DEF UniqueIds, Read
  <2>. HIDE DEF days
  <2>. QED
    BY <2>1, LatestRows
<1>5. Range(state.monthly) = {x \in months : \A y \in months : MonthBucket[y] = MonthBucket[x] => ~Later(y, x)}
  <2>1. /\ months \subseteq Row /\ \A x \in months, y \in months : x.id = y.id => x = y
        /\ HoldsLatest(state.monthly, months, MonthBucket)
    BY <1>0, <1>2 DEF UniqueIds, Read
  <2>. HIDE DEF months
  <2>. QED
    BY <2>1, LatestRows
<1>6. \A x \in rows, y \in rows :
        /\ DayBucket[y] = DayBucket[x] <=> y.root = x.root /\ Day(y) = Day(x)
        /\ MonthBucket[y] = MonthBucket[x] <=> y.root = x.root /\ Month(y) = Month(x)
  BY <1>0 DEF DayBucket, MonthBucket
<1>7. \A x \in rows : x.complete \in BOOLEAN
  BY <1>0, RowFacts
<1>8. Range(state.daily) = {x \in rows : x.complete /\ DailyRepresentative(x, rows, t)}
  BY <1>4, <1>6, <1>7 DEF DailyRepresentative
<1>9. Range(state.monthly) = {x \in rows : x.complete /\ MonthlyRepresentative(x, rows, t)}
  BY <1>5, <1>6, <1>7 DEF MonthlyRepresentative
<1>10. state.keep = {x \in rows : IF x.complete THEN InHourly(x, t) ELSE x.at >= IncompleteCutoff(t)}
  BY <1>2 DEF Read
<1>. QED
  BY <1>3, <1>7, <1>8, <1>9, <1>10 DEF Retained

\* For every policy, calendar and history: the one pass over the rows in the
\* order of their ids selects exactly the snapshots that the tiers define.
THEOREM PassAgrees == Spec => []LoopAgrees
<1>1. TypeOK /\ UniqueIds => LoopAgrees
  <2>1. TypeOK => now \in Nat
    BY BoundsAssumption DEF TypeOK
  <2>. QED
    BY <2>1, PassSelects DEF LoopAgrees
<1>. QED
  BY <1>1, TypeCorrect, IdsUnique, PTL
================================================================================
