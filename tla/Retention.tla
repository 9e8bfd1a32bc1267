------------------------------- MODULE Retention -------------------------------
(***************************************************************************)
(* Which snapshots db/retention.py keeps, as the clock runs: the tiers of  *)
(* RetentionPolicy, and a database in which collections add rows and       *)
(* prunes, completed or cut off, delete what the tiers do not keep.        *)
(*                                                                         *)
(* Time is counted in hours.  Days and months are blocks of hours.         *)
(***************************************************************************)
EXTENDS Integers, FiniteSets

CONSTANTS
  Roots,
  HourlyDays, DailyDays, IncompleteHours,   \* the RetentionPolicy
  DayLength, MonthLength,                   \* the calendar, in hours
  MaxStepBack,                              \* bound: hours the clock may be set back
  MaxNow, MaxId, MaxRows                    \* bounds of the explored histories

\* RetentionPolicy.__post_init__.
ASSUME PolicyAssumption ==
  /\ HourlyDays \in Nat \ {0} /\ DailyDays \in Nat \ {0}
  /\ IncompleteHours \in Nat \ {0} /\ DailyDays >= HourlyDays
ASSUME CalendarAssumption == DayLength \in Nat \ {0} /\ MonthLength \in Nat \ {0}
ASSUME BoundsAssumption ==
  MaxStepBack \in Nat /\ MaxNow \in Nat /\ MaxId \in Nat /\ MaxRows \in Nat

\* A row of table snapshots, as the selection sees it.  RUNNING, PARTIAL and
\* FAILED are treated alike.  at is finished_at, or started_at when there is none.
Row == [id : 1 .. MaxId, root : Roots, complete : BOOLEAN, at : 0 .. MaxNow]

--------------------------------------------------------------------------------
(* The tiers *)

HourlyCutoff(t)     == t - HourlyDays * DayLength
DailyCutoff(t)      == t - DailyDays * DayLength
IncompleteCutoff(t) == t - IncompleteHours

Day(x)   == x.at \div DayLength
Month(x) == x.at \div MonthLength

\* representative > previous: by finished_at, and by id among equals.
Later(x, y) == x.at > y.at \/ (x.at = y.at /\ x.id > y.id)

InHourly(x, t) == x.at >= HourlyCutoff(t)
InDaily(x, t)  == ~InHourly(x, t) /\ x.at >= DailyCutoff(t)

\* The daily tier sees only the part of a day that has left the hourly window.
DailyRepresentative(x, rows, t) ==
  /\ InDaily(x, t)
  /\ \A y \in rows : /\ y.complete /\ y.root = x.root /\ Day(y) = Day(x)
                     /\ InDaily(y, t)
                     => ~Later(y, x)

\* Mutant: the bucket of a month is shared by all roots.
MonthlyOfAnyRoot(x, rows, t) ==
  \A y \in rows : y.complete /\ Month(y) = Month(x) => ~Later(y, x)

\* Mutant: the monthly tier starts where the daily tier ends.
MonthlyBeyondDaily(x, rows, t) ==
  /\ x.at < DailyCutoff(t)
  /\ \A y \in rows : /\ y.complete /\ y.root = x.root /\ Month(y) = Month(x)
                     /\ y.at < DailyCutoff(t)
                     => ~Later(y, x)

\* The monthly tier sees every COMPLETE snapshot, the newest ones too.
MonthlyRepresentative(x, rows, t) ==
  \A y \in rows : y.complete /\ y.root = x.root /\ Month(y) = Month(x) => ~Later(y, x)

Retained(rows, t) ==
  {x \in rows :
     IF x.complete
       THEN \/ InHourly(x, t)
            \/ DailyRepresentative(x, rows, t)
            \/ MonthlyRepresentative(x, rows, t)
       ELSE x.at >= IncompleteCutoff(t)}

--------------------------------------------------------------------------------
(* The database over time *)

VARIABLES
  now,       \* the clock of the host
  rows,      \* table snapshots
  ever,      \* history variable: every row there ever was
  dropped,   \* history variable: the rows some prune has decided against
             \* and has not deleted
  setBack    \* history variable: the clock has been set back

vars == <<now, rows, ever, dropped, setBack>>

TypeOK ==
  /\ now \in 0 .. MaxNow
  /\ ever \subseteq Row
  /\ rows \subseteq ever
  /\ dropped \subseteq rows
  /\ setBack \in BOOLEAN

Init == now = 0 /\ rows = {} /\ ever = {} /\ dropped = {} /\ setBack = FALSE

Tick ==
  /\ now < MaxNow
  /\ now' = now + 1
  /\ UNCHANGED <<rows, ever, dropped, setBack>>

\* The clock of the host is set back; once in a behaviour is the bound.
ClockSetBack ==
  /\ ~setBack
  /\ \E hours \in 1 .. MaxStepBack : now' = now - hours
  /\ now' >= 0
  /\ setBack' = TRUE
  /\ UNCHANGED <<rows, ever, dropped>>

\* A collection of root r ends, or is cut off.  SQLite picks the id.
Collect(r, complete) ==
  /\ Cardinality(ever) < MaxRows
  /\ \E id \in 1 .. MaxId :
       /\ \A x \in rows : x.id < id
       /\ id = 1 \/ \E x \in rows : x.id = id - 1
       /\ LET x == [id |-> id, root |-> r, complete |-> complete, at |-> now]
          IN  rows' = rows \union {x} /\ ever' = ever \union {x}
  /\ UNCHANGED <<now, dropped, setBack>>

\* A prune deletes in the order of the ids.  One that fails or is killed has
\* deleted the victims up to some id; its normalisation counts them all out.
Prune ==
  LET victims == rows \ Retained(rows, now)
  IN  /\ \E last \in 0 .. MaxId : rows' = rows \ {x \in victims : x.id <= last}
      /\ dropped' = (dropped \union victims) \intersect rows'
      /\ UNCHANGED <<now, ever, setBack>>

Next ==
  \/ Tick
  \/ ClockSetBack
  \/ \E r \in Roots, complete \in BOOLEAN : Collect(r, complete)
  \/ Prune

Spec == Init /\ [][Next]_vars

--------------------------------------------------------------------------------
(* Properties *)

\* While the clock is not set back, a prune keeps exactly what it would keep
\* if nothing had ever been pruned: how often prune ran before, and where it
\* was cut off, leaves no trace in what survives.
PruneHistoryFree == ~setBack => Retained(rows, now) = Retained(ever, now)

\* While the clock is not set back, a snapshot that a cut-off prune decided
\* against is never kept by a later one.  The cut-off prune may already have
\* removed its directory versions, so keeping it would keep a hollow snapshot.
DroppedForGood == ~setBack => dropped \intersect Retained(rows, now) = {}

\* Whatever the clock does, for every COMPLETE snapshot there ever was there
\* still is one of the same root and month that is not older.
MonthCovered ==
  \A x \in ever : x.complete =>
    \E y \in rows : y.complete /\ y.root = x.root /\ Month(y) = Month(x) /\ ~Later(x, y)
================================================================================
