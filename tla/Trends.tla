--------------------------------- MODULE Trends ---------------------------------
(***************************************************************************)
(* reporting/trends.py, the accumulators of reporting/queries.py that feed *)
(* it, and the burst metrics of investigate: the samples of one directory, *)
(* and of the filesystem the roots are on, over the snapshots of a window. *)
(***************************************************************************)
EXTENDS DirPaths, FiniteSetsExt, Functions

CONSTANTS
  Disks,        \* values of disk_bytes
  Uses,         \* values of used_bytes
  Roots,        \* the roots, as numbers in the order of their paths
  MaxTaken      \* bound: snapshots in the window

ASSUME TrendsAssumption ==
  /\ Disks \subseteq Nat /\ Uses \subseteq Nat
  /\ Roots \subseteq Nat /\ Roots # {} /\ IsFiniteSet(Roots)

VARIABLES
  samples,      \* rows of the directory: one for each snapshot it is in
  captures,     \* rows of snapshot_filesystems, with Failed for a capture error
  taken         \* how many snapshots of each root are selected for the window

trendVars == <<samples, captures, taken>>

Failed == -1

\* The root the directory is in.
Home == Min(Roots)

Count == SumFunctionOnSet(taken, Roots)

TrendInit == samples = {} /\ captures = {} /\ taken = [root \in Roots |-> 0]

\* When the next snapshot finishes.  If the clock was set back, that is before
\* the time of the last one.
Times == {Count + 1, Count - 1}

\* A snapshot that has a row of the directory.
Observe ==
  /\ Count < MaxTaken
  /\ \E disk \in Disks, at \in Times :
       samples' = samples \union {[id |-> Count + 1, at |-> at, disk |-> disk]}
  /\ taken' = [taken EXCEPT ![Home] = @ + 1]
  /\ UNCHANGED captures

\* A snapshot in which the directory is missing, or of another root, with the
\* filesystem's use or the error of asking for it.
Capture ==
  /\ Count < MaxTaken
  /\ \E used \in Uses \union {Failed}, root \in Roots, at \in Times :
       /\ captures' = captures \union
                         {[id |-> Count + 1, root |-> root, at |-> at, used |-> used]}
       /\ taken' = [taken EXCEPT ![root] = @ + 1]
  /\ UNCHANGED samples

TrendNext == Observe \/ Capture

TrendSpec == TrendInit /\ [][TrendNext]_trendVars

--------------------------------------------------------------------------------
(* analyze_trend *)

SampleBefore(s, t) == s.at < t.at \/ (s.at = t.at /\ s.id < t.id)

OrderedSamples ==
  SortedBy(samples, {x \in samples \X samples : SampleBefore(x[1], x[2])})

\* _disk_deltas
DiskDeltas(seq) == [n \in 1 .. Len(seq) - 1 |-> seq[n + 1].disk - seq[n].disk]

Rising(deltas) == {n \in DOMAIN deltas : deltas[n] > 0}

GrossPositive(deltas) == SumFunctionOnSet(deltas, Rising(deltas))
GrossNegative(deltas) == - SumFunctionOnSet(deltas, {n \in DOMAIN deltas : deltas[n] < 0})

Peak == Max({s.disk : s \in samples})

\* _material_delta_threshold: 1 percent of the peak
MaterialDelta == IF Peak \div 100 < 1 THEN 1 ELSE Peak \div 100

\* _is_grow_then_clean, GROW_THEN_CLEAN_NEGATIVE_RATIO = 0.5
IsGrowThenClean(gp, gn, net, end) ==
  gp > 0 /\ 2 * gn >= gp /\ Peak > end /\ net <= gp - gn

\* _is_one_time_jump, ONE_TIME_JUMP_DOMINANCE_RATIO = 0.75
IsOneTimeJump(deltas, gp) == gp > 0 /\ 4 * Max({deltas[n] : n \in Rising(deltas)}) >= 3 * gp

\* _is_steady_growth: at least 0.6 of the intervals grew, at most 0.2 was undone.
IsSteadyGrowth(deltas, gp, gn, net) ==
  /\ gp >= MaterialDelta /\ net >= MaterialDelta
  /\ 5 * Cardinality({n \in DOMAIN deltas : deltas[n] >= MaterialDelta}) >= 3 * Len(deltas)
  /\ 5 * gn <= gp

\* Mutant: the largest rise is compared with the net change.
ShapeByNet(deltas, net, end) ==
  LET gp == GrossPositive(deltas)
      gn == GrossNegative(deltas)
  IN  IF gp < MaterialDelta /\ gn < MaterialDelta THEN "stable_large"
      ELSE IF IsGrowThenClean(gp, gn, net, end) THEN "grow_then_clean"
      ELSE IF gp > 0 /\ IsOneTimeJump(deltas, net) THEN "one_time_jump"
      ELSE IF IsSteadyGrowth(deltas, gp, gn, net) THEN "steady_growth"
      ELSE IF gp >= MaterialDelta THEN "bursty_growth"
      ELSE "stable_large"

\* _classify_shape, for MIN_CLASSIFIABLE_SAMPLES or more
Shape(deltas, net, end) ==
  LET gp == GrossPositive(deltas)
      gn == GrossNegative(deltas)
  IN  IF gp < MaterialDelta /\ gn < MaterialDelta THEN "stable_large"
      ELSE IF IsGrowThenClean(gp, gn, net, end) THEN "grow_then_clean"
      ELSE IF IsOneTimeJump(deltas, gp) THEN "one_time_jump"
      ELSE IF IsSteadyGrowth(deltas, gp, gn, net) THEN "steady_growth"
      ELSE IF gp >= MaterialDelta THEN "bursty_growth"
      ELSE "stable_large"

\* analyze_trend, for a directory with a row in some snapshot
Metrics ==
  LET seq    == OrderedSamples
      deltas == DiskDeltas(seq)
      net    == Last(seq).disk - seq[1].disk
      grew   == {n \in DOMAIN deltas : deltas[n] >= MaterialDelta}
      seen   == {n \in DOMAIN seq : seq[n].disk > 0}
  IN  [net      |-> net,
       positive |-> GrossPositive(deltas),
       negative |-> GrossNegative(deltas),
       shape    |-> IF Len(seq) < 3 THEN "unknown_insufficient_samples"
                    ELSE Shape(deltas, net, Last(seq).disk),
       missing  |-> taken[Home] - Len(seq),
       \* first_nonzero_at and last_growth_at, as positions in the samples
       nonzero  |-> IF seen = {} THEN 0 ELSE Min(seen),
       grewLast |-> IF grew = {} THEN 0 ELSE Max(grew) + 1]

--------------------------------------------------------------------------------
(* Burst metrics *)

\* _largest_growth_sample_pair: the later of two equal rises
LargestGrowth(deltas) ==
  LET rises  == Rising(deltas)
      most   == Max({deltas[n] : n \in rises})
  IN  Max({n \in rises : deltas[n] = most})

HalfEven(n) == IF n % 2 = 0 \/ (n \div 2) % 2 = 0 THEN n \div 2 ELSE n \div 2 + 1

\* _median_int of ascending values
MedianInt(values) ==
  LET mid == Len(values) \div 2
  IN  IF Len(values) % 2 = 1 THEN values[mid + 1] ELSE HalfEven(values[mid] + values[mid + 1])

DeltaBefore(deltas, m, n) == deltas[m] < deltas[n] \/ (deltas[m] = deltas[n] /\ m < n)

\* The rises, the smallest first.
Ascending(deltas) ==
  LET rises == Rising(deltas)
      order == SortedBy(rises, {x \in rises \X rises : DeltaBefore(deltas, x[1], x[2])})
  IN  [k \in DOMAIN order |-> deltas[order[k]]]

\* _burst_ratio is Numerator / Denominator when there are two rises or more:
\* the largest over the median of the others.
BurstRatio ==
  LET rises == Ascending(DiskDeltas(OrderedSamples))
  IN  [largest |-> Last(rises), median |-> MedianInt(Front(rises))]

Rises == Cardinality(Rising(DiskDeltas(OrderedSamples)))

--------------------------------------------------------------------------------
(* _FilesystemPressureAccumulator: the use of one filesystem.  The rows come  *)
(* ORDER BY root_path first, then by finished_at and id, and all roots go     *)
(* into the same accumulator.                                                 *)

\* Mutant: the rows of a root come in the order of their ids.
CaptureByIds(c, d) == c.root < d.root \/ (c.root = d.root /\ c.id < d.id)

CaptureBefore(c, d) == c.root < d.root \/ (c.root = d.root /\ SampleBefore(c, d))

OrderedCaptures(rows) == SortedBy(rows, {x \in rows \X rows : CaptureBefore(x[1], x[2])})

UsedSamples ==
  LET rows == OrderedCaptures({c \in captures : c.used # Failed})
  IN  [n \in DOMAIN rows |-> rows[n].used]

\* to_trend, for a filesystem with a row; the expected number of samples is
\* that of the root whose row came first.
Pressure ==
  LET first    == OrderedCaptures(captures)[1]
      lacking  == taken[first.root] - Cardinality(captures)
  IN  [delta   |-> IF UsedSamples = <<>> THEN 0 ELSE Last(UsedSamples) - UsedSamples[1],
       missing |-> IF lacking < 0 THEN 0 ELSE lacking,
       errors  |-> Cardinality({c \in captures : c.used = Failed})]

--------------------------------------------------------------------------------
(* Properties *)

\* What trends.py calls a one-time jump, investigate shows as a burst of at least
\* three times the usual rise, at the interval that holds the jump.
JumpIsBurst ==
  LET deltas == DiskDeltas(OrderedSamples)
  IN  samples # {} /\ Metrics.shape = "one_time_jump" =>
        /\ 4 * deltas[LargestGrowth(deltas)] >= 3 * Metrics.positive
        /\ Rises >= 2 => BurstRatio.median > 0 /\ BurstRatio.largest >= 3 * BurstRatio.median

\* The change of a filesystem's use is its change over the window, from the
\* earliest snapshot that captured it to the latest, when one root lies on it:
\* neither a failed capture nor a clock that was set back, after which a later
\* id has an earlier time, puts another snapshot at an end of the window.
PressureOverWindow ==
  LET good == {c \in captures : c.used # Failed}
  IN  good # {} /\ Cardinality({c.root : c \in captures}) = 1 =>
        Pressure.delta =
          (CHOOSE c \in good : \A d \in good \ {c} : SampleBefore(d, c)).used
            - (CHOOSE c \in good : \A d \in good \ {c} : SampleBefore(c, d)).used
================================================================================
