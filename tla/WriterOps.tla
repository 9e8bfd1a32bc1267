------------------------------- MODULE WriterOps -------------------------------
(***************************************************************************)
(* The writer commands collect, prune and vacuum: processes that take the  *)
(* advisory lock of ops_lock.py and then run the transactions of           *)
(* SnapshotStore one after the other.  Any of them can meet a database     *)
(* error at any transaction, and be killed between any two steps; collect  *)
(* also answers SIGINT and SIGTERM.                                        *)
(***************************************************************************)
EXTENDS SnapshotStore

CONSTANTS
  Procs,      \* writer processes
  NoProc,     \* the lock is free
  MaxPolls    \* bound: polls of the lock before a timeout expires

ASSUME NoProcAssumption == NoProc \notin Procs
ASSUME MaxPollsAssumption == MaxPolls \in Nat

VARIABLES
  lock,       \* the process that holds the flock, or NoProc
  dbfile,     \* the database file exists
  pc,         \* where each process is
  op,         \* the command each process runs
  polls,      \* polls left before acquire_operation_lock times out
  pending,    \* roots the for loop of a collection has still to visit
  current,    \* snapshot.id in _collect_single_root, or 0
  active,     \* active_snapshot_ids
  retained,   \* retained_snapshot_ids of a prune
  victims     \* deleted_snapshot_ids a prune has still to delete

local == <<op, polls, pending, current, active, retained, victims>>
vars  == <<store, lock, dbfile, pc, local>>

Ops       == {"none", "collect", "prune", "vacuum"}
Collecting == {"created", "scanning", "stored"}
Handled   == {"roots"} \union Collecting     \* signal handlers are installed
Pruning   == {"select", "normalize", "delete"}
Locked    == {"opening", "vacuum", "release"} \union Handled \union Pruning

TypeOK ==
  /\ StoreTypeOK
  /\ lock \in Procs \union {NoProc}
  /\ dbfile \in BOOLEAN
  /\ pc \in [Procs -> {"idle", "waiting"} \union Locked]
  /\ op \in [Procs -> Ops]
  /\ polls \in [Procs -> 0 .. MaxPolls]
  /\ pending \in [Procs -> SUBSET Roots]
  /\ current \in [Procs -> Ids \union {0}]
  /\ active \in [Procs -> SUBSET Ids]
  /\ retained \in [Procs -> SUBSET Ids]
  /\ victims \in [Procs -> SUBSET Ids]

Init ==
  /\ StoreInit
  /\ lock = NoProc
  /\ dbfile = FALSE
  /\ pc = [p \in Procs |-> "idle"]
  /\ op = [p \in Procs |-> "none"]
  /\ polls = [p \in Procs |-> 0]
  /\ pending = [p \in Procs |-> {}]
  /\ current = [p \in Procs |-> 0]
  /\ active = [p \in Procs |-> {}]
  /\ retained = [p \in Procs |-> {}]
  /\ victims = [p \in Procs |-> {}]

Goto(p, from, to) ==
  /\ pc[p] = from
  /\ pc' = [pc EXCEPT ![p] = to]

\* The process is gone, and its local variables with it.
Forgotten(p) ==
  /\ pc' = [pc EXCEPT ![p] = "idle"]
  /\ op' = [op EXCEPT ![p] = "none"]
  /\ polls' = [polls EXCEPT ![p] = 0]
  /\ pending' = [pending EXCEPT ![p] = {}]
  /\ current' = [current EXCEPT ![p] = 0]
  /\ active' = [active EXCEPT ![p] = {}]
  /\ retained' = [retained EXCEPT ![p] = {}]
  /\ victims' = [victims EXCEPT ![p] = {}]

--------------------------------------------------------------------------------
(* Taking the lock *)

\* A command starts with its --lock-timeout.  prune and vacuum refuse to run
\* when there is no database file.
Start(p, o, timeout) ==
  /\ Goto(p, "idle", "waiting")
  /\ o = "collect" \/ dbfile
  /\ op' = [op EXCEPT ![p] = o]
  /\ polls' = [polls EXCEPT ![p] = timeout]
  /\ UNCHANGED <<store, lock, dbfile, pending, current, active, retained, victims>>

\* Mutant: the lock is taken without asking whether it is free.
AcquireAnyway(p) ==
  /\ Goto(p, "waiting", "opening")
  /\ lock' = p
  /\ polls' = [polls EXCEPT ![p] = 0]
  /\ UNCHANGED <<store, dbfile, op, pending, current, active, retained, victims>>

Acquire(p) ==
  /\ Goto(p, "waiting", "opening")
  /\ lock = NoProc
  /\ lock' = p
  /\ polls' = [polls EXCEPT ![p] = 0]
  /\ UNCHANGED <<store, dbfile, op, pending, current, active, retained, victims>>

\* Mutant: the elapsed time is not compared with the timeout.
PollUnchecked(p) ==
  /\ pc[p] = "waiting"
  /\ lock # NoProc
  /\ polls' = [polls EXCEPT ![p] = @ - 1]
  /\ UNCHANGED <<store, lock, dbfile, pc, op, pending, current, active, retained,
                 victims>>

\* Mutant: the clock is read once, so no time ever elapses.
PollTimeless(p) ==
  /\ pc[p] = "waiting"
  /\ lock # NoProc
  /\ polls[p] > 0
  /\ UNCHANGED vars

\* flock raises BlockingIOError and the timeout has not expired.
Poll(p) ==
  /\ pc[p] = "waiting"
  /\ lock # NoProc
  /\ polls[p] > 0
  /\ polls' = [polls EXCEPT ![p] = @ - 1]
  /\ UNCHANGED <<store, lock, dbfile, pc, op, pending, current, active, retained,
                 victims>>

\* flock raises BlockingIOError and the timeout has expired, or is 0.
GiveUp(p) ==
  /\ pc[p] = "waiting"
  /\ lock # NoProc
  /\ polls[p] = 0
  /\ Forgotten(p)
  /\ UNCHANGED <<store, lock, dbfile>>

\* Mutant: the command ends and its lock handle stays open.
ReleaseNothing(p) ==
  /\ pc[p] = "release"
  /\ Forgotten(p)
  /\ UNCHANGED <<store, dbfile, lock>>

Release(p) ==
  /\ pc[p] = "release"
  /\ lock' = NoProc
  /\ Forgotten(p)
  /\ UNCHANGED <<store, dbfile>>

\* Opening the connection and initialize_database.  The placeholder rows its
\* maintenance deletes are written by no scan of this version.
FirstStep(o) == CASE o = "collect" -> "roots"
                  [] o = "prune"   -> "select"
                  [] OTHER         -> "vacuum"

OpenDatabase(p) ==
  /\ Goto(p, "opening", FirstStep(op[p]))
  /\ DeleteOrphanPaths
  /\ dbfile' = TRUE
  /\ pending' = [pending EXCEPT ![p] = IF op[p] = "collect" THEN Roots ELSE {}]
  /\ UNCHANGED <<lock, op, polls, current, active, retained, victims>>

--------------------------------------------------------------------------------
(* collect *)

CollectRoot(p) ==
  /\ Goto(p, "roots", "created")
  /\ \E r \in pending[p], id \in Ids :
       /\ CreateSnapshot(id, r)
       /\ pending' = [pending EXCEPT ![p] = @ \ {r}]
       /\ current' = [current EXCEPT ![p] = id]
  /\ UNCHANGED <<lock, dbfile, op, polls, active, retained, victims>>

MarkActive(p) ==
  /\ Goto(p, "created", "scanning")
  /\ active' = [active EXCEPT ![p] = @ \union {current[p]}]
  /\ UNCHANGED <<store, lock, dbfile, op, polls, pending, current, retained, victims>>

CommitScan(p) ==
  /\ Goto(p, "scanning", "stored")
  /\ \E status \in {"complete", "partial", "failed"}, rows \in Scans :
       StoreScan(current[p], status, rows)
  /\ UNCHANGED <<lock, dbfile, local>>

\* The scan or its transaction raises, or something does after the commit; the
\* except clause marks the snapshot FAILED, whatever it was.
ScanError(p) ==
  /\ pc[p] \in {"scanning", "stored"}
  /\ pc' = [pc EXCEPT ![p] = "stored"]
  /\ FailSnapshots({current[p]})
  /\ UNCHANGED <<lock, dbfile, local>>

\* ... and marking it FAILED raises too: it keeps its status, the command ends.
FinalizeError(p) ==
  /\ pc[p] \in {"scanning", "stored"}
  /\ pc' = [pc EXCEPT ![p] = "release"]
  /\ current' = [current EXCEPT ![p] = 0]
  /\ active' = [active EXCEPT ![p] = @ \ {current[p]}]
  /\ UNCHANGED <<store, lock, dbfile, op, polls, pending, retained, victims>>

\* The finally clause, and on to the next root.
Discard(p) ==
  /\ Goto(p, "stored", "roots")
  /\ current' = [current EXCEPT ![p] = 0]
  /\ active' = [active EXCEPT ![p] = @ \ {current[p]}]
  /\ UNCHANGED <<store, lock, dbfile, op, polls, pending, retained, victims>>

FinishCollect(p) ==
  /\ Goto(p, "roots", "release")
  /\ pending[p] = {}
  /\ UNCHANGED <<store, lock, dbfile, local>>

\* SIGINT or SIGTERM: the handler rolls back, marks every active snapshot
\* FAILED and raises out of the loop over the roots.
Interrupt(p) ==
  /\ pc[p] \in Handled
  /\ FailSnapshots(active[p])
  /\ pc' = [pc EXCEPT ![p] = "release"]
  /\ current' = [current EXCEPT ![p] = 0]
  /\ active' = [active EXCEPT ![p] = @ \ {current[p]}]
  /\ UNCHANGED <<lock, dbfile, op, polls, pending, retained, victims>>

--------------------------------------------------------------------------------
(* prune and vacuum *)

\* What the retention policy keeps depends on the clock: here, any set that has
\* a COMPLETE snapshot of every root with one (the monthly tier has no end).
Selectable ==
  {kept \in SUBSET DOMAIN snapshots :
     \A s \in Complete : RetainedComplete(snapshots[s].root, kept) # {}}

SelectRetained(p) ==
  /\ Goto(p, "select", "normalize")
  /\ \E kept \in Selectable :
       /\ retained' = [retained EXCEPT ![p] = kept]
       /\ victims' = [victims EXCEPT ![p] = DOMAIN snapshots \ kept]
  /\ UNCHANGED <<store, lock, dbfile, op, polls, pending, current, active>>

Normalize(p) ==
  /\ Goto(p, "normalize", "delete")
  /\ NormalizeIntervalBoundaries(retained[p])
  /\ UNCHANGED <<lock, dbfile, local>>

\* One transaction for each snapshot, in the order of the ids.
DeleteNext(p) ==
  /\ pc[p] = "delete"
  /\ victims[p] # {}
  /\ \E s \in victims[p] :
       /\ \A t \in victims[p] : s <= t
       /\ DeleteSnapshot(s)
       /\ victims' = [victims EXCEPT ![p] = @ \ {s}]
  /\ UNCHANGED <<lock, dbfile, pc, op, polls, pending, current, active, retained>>

FinishPrune(p) ==
  /\ Goto(p, "delete", "release")
  /\ victims[p] = {}
  /\ DeleteOrphanPaths
  /\ UNCHANGED <<lock, dbfile, local>>

\* VACUUM and the WAL checkpoint leave the contents of the tables alone.
Vacuum(p) ==
  /\ Goto(p, "vacuum", "release")
  /\ UNCHANGED <<store, lock, dbfile, local>>

\* A transaction raises: it is rolled back and the command ends.
DatabaseError(p) ==
  /\ \/ Goto(p, "opening", "release")
     \/ Goto(p, "roots", "release") /\ pending[p] # {}
     \/ Goto(p, "select", "release")
     \/ Goto(p, "normalize", "release")
     \/ Goto(p, "delete", "release")
  /\ UNCHANGED <<store, lock, dbfile, local>>

--------------------------------------------------------------------------------
\* A kill, at any point: the kernel drops the flock, SQLite the transaction.
Crash(p) ==
  /\ pc[p] # "idle"
  /\ Forgotten(p)
  /\ lock' = IF lock = p THEN NoProc ELSE lock
  /\ UNCHANGED <<store, dbfile>>

Step(p) ==
  \/ Acquire(p) \/ Poll(p) \/ GiveUp(p) \/ Release(p) \/ OpenDatabase(p)
  \/ CollectRoot(p) \/ MarkActive(p) \/ CommitScan(p) \/ ScanError(p)
  \/ FinalizeError(p) \/ Discard(p) \/ FinishCollect(p)
  \/ SelectRetained(p) \/ Normalize(p) \/ DeleteNext(p) \/ FinishPrune(p)
  \/ Vacuum(p) \/ DatabaseError(p)

Next ==
  \E p \in Procs :
    \/ \E o \in Ops \ {"none"}, timeout \in 0 .. MaxPolls : Start(p, o, timeout)
    \/ Step(p)
    \/ Interrupt(p)
    \/ Crash(p)

Spec == Init /\ [][Next]_vars

\* A started command keeps running until it ends, is interrupted or killed.
FairSpec == Spec /\ \A p \in Procs : WF_vars(Step(p))
--------------------------------------------------------------------------------
(* Safety.  The invariants of the tables are those of SnapshotStore. *)

\* A prune never holds on its list a snapshot that another process is
\* collecting, nor one that is already gone, whose id may have a new owner.
VictimsDormant ==
  \A p \in Procs :
    /\ victims[p] \subseteq DOMAIN snapshots
    /\ \A q \in Procs : victims[p] \intersect ({current[q]} \union active[q]) = {}

\* The inductive invariant.  The lock is held by the one process that is
\* between Acquire and Release.
LockOwned == \A p \in Procs : pc[p] \in Locked <=> lock = p

\* The snapshot a process collects is its own: RUNNING and the newest until
\* its scan is stored, and on no prune's list.
CollectorState ==
  \A p \in Procs :
    /\ pc[p] \notin Collecting => current[p] = 0
    /\ active[p] = IF pc[p] \in {"scanning", "stored"} THEN {current[p]} ELSE {}
    /\ pc[p] \in Collecting => current[p] \in DOMAIN snapshots \ doomed
    /\ pc[p] \in {"created", "scanning"} =>
         /\ snapshots[current[p]].status = "running"
         /\ \A s \in DOMAIN snapshots : s <= current[p]

\* From its selection on, a prune's list of victims is what it did not retain
\* and what it has not deleted; once the bounds are normalised, no bound is
\* on the list.
PruneState ==
  \A p \in Procs :
    /\ victims[p] \subseteq DOMAIN snapshots
    /\ pc[p] \notin {"normalize", "delete", "release"} => victims[p] = {}
    /\ pc[p] = "normalize" => /\ retained[p] \subseteq DOMAIN snapshots
                              /\ victims[p] = DOMAIN snapshots \ retained[p]
    /\ pc[p] = "delete" => /\ victims[p] \intersect Complete \subseteq doomed
                           /\ victims[p] \intersect Bounds = {}

IInv == TypeOK /\ StoreInv /\ LockOwned /\ CollectorState /\ PruneState

--------------------------------------------------------------------------------
(* The database implements a history of complete scans *)

\* The snapshots no prune has dropped, with what a report reads of each.
Remembered ==
  [s \in Complete \ doomed |-> [root |-> snapshots[s].root, rows |-> View(s)]]

History == INSTANCE SnapshotHistory
             WITH Contents <- [root : Roots, rows : Scans], history <- Remembered

\* What reports read is an append-only history with forgetting: no step of
\* any writer changes what an already collected snapshot shows, and a new
\* snapshot comes after all that are remembered.
HistorySpec == History!Spec

--------------------------------------------------------------------------------
(* Liveness *)

\* A command that waits for the lock gets it, times out or is killed.
WaitEnds == \A p \in Procs : pc[p] = "waiting" ~> pc[p] # "waiting"

\* The lock is always handed back: no path through a command, failing or not,
\* leaves the other writers locked out for good.
LockFreed == \A p \in Procs : lock = p ~> lock # p

--------------------------------------------------------------------------------
(* What the documentation says and the code does not do *)

\* README.md: "Retention deletes whole snapshots, not individual directory
\* rows": a snapshot that is still listed as COMPLETE has all its rows.
WholeSnapshots == \A s \in Complete : View(s) = recorded[s]
================================================================================
