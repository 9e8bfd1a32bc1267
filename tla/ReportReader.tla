------------------------------ MODULE ReportReader ------------------------------
(***************************************************************************)
(* A report command beside the writers.  It opens a read-only connection   *)
(* and takes no lock: every SELECT is a transaction of its own, so what it *)
(* selected in one statement may have changed when the next one reads its  *)
(* rows.  A report treats its snapshots one by one; the reader here        *)
(* follows one of them.                                                    *)
(***************************************************************************)
EXTENDS WriterOps

VARIABLES
  stage,      \* "idle", "selected", "done" or "error"
  subject,    \* the id of the selected snapshot
  header,     \* its row in snapshots, as the selecting statement saw it
  expected,   \* history variable: the rows its scan had stored by then
  touched,    \* history variable: the snapshot has been changed since
  shown       \* the rows the report attributes to it

report     == <<stage, subject, header, expected, touched, shown>>
reportVars == <<vars, report>>

NoHeader   == [root |-> "none", status |-> "none"]

ReportInit ==
  /\ Init
  /\ stage = "idle" /\ subject = 0 /\ header = NoHeader
  /\ expected = {} /\ touched = FALSE /\ shown = {}

\* The snapshot is still listed with the root and status it was selected
\* with, and neither a prune nor a reuse of its id has replaced its rows.
AsSelected ==
  /\ subject \in DOMAIN snapshots \ doomed
  /\ snapshots[subject] = header
  /\ recorded[subject] = expected

Usable == {"complete", "partial"}

Choose(s) ==
  /\ stage = "idle"
  /\ s \in DOMAIN snapshots
  /\ stage' = "selected" /\ subject' = s /\ header' = snapshots[s]
  /\ expected' = recorded[s] /\ touched' = (s \in doomed) /\ shown' = {}
  /\ UNCHANGED vars

\* The statements that choose the snapshots of a report: COMPLETE and PARTIAL.
Select(s) == Choose(s) /\ snapshots[s].status \in Usable

\* The numeric selector of top: the row with that id, whatever its status, or
\* snapshot_not_found.
SelectById(s) ==
  \/ Choose(s)
  \/ /\ stage = "idle"
     /\ s \notin DOMAIN snapshots
     /\ stage' = "error"
     /\ UNCHANGED <<vars, subject, header, expected, touched, shown>>

\* Rows are joined with the paths table; a row without its path is lost.
Named(rows) == {e \in rows : e.path \in paths}

\* snapshot_state for one snapshot: both branches join snapshots, so the
\* status that decides between the tables is the one at the time of reading.
SnapshotState(s) ==
  IF s \in Complete THEN View(s)
  ELSE IF s \in DOMAIN snapshots THEN diagnostics[s] ELSE {}

\* Mutant: a version that has ended is taken for one that is still open.
StartedRows(s, h) ==
  IF h.status = "complete"
  THEN {RowOf(i) : i \in {j \in intervals : j.root = h.root /\ j.from <= s}}
  ELSE diagnostics[s]

\* The statements that trust the status they were given: the intervals of the
\* root that hold the id, or the diagnostic rows of the id.
RowsByHeader(s, h) ==
  IF h.status = "complete"
  THEN {RowOf(i) : i \in {j \in intervals : j.root = h.root /\ Covers(j, s)}}
  ELSE diagnostics[s]

Show(rows) ==
  /\ stage = "selected"
  /\ stage' = "done" /\ shown' = Named(rows)
  /\ UNCHANGED <<vars, subject, header, expected, touched>>

\* top reads this way, and only top shows RUNNING and FAILED snapshots.
ReadState  == Show(SnapshotState(subject))
ReadHeader == header.status \in Usable /\ Show(RowsByHeader(subject, header))

\* _load_snapshot reads the snapshot row again: snapshot_not_found.
Reload ==
  /\ stage = "selected"
  /\ subject \notin DOMAIN snapshots
  /\ stage' = "error"
  /\ UNCHANGED <<vars, subject, header, expected, touched, shown>>

\* The report prints what it read and ends; another may follow.
End ==
  /\ stage \in {"done", "error"}
  /\ stage' = "idle" /\ subject' = 0 /\ header' = NoHeader
  /\ expected' = {} /\ touched' = FALSE /\ shown' = {}
  /\ UNCHANGED vars

Report ==
  \/ \E s \in Ids : Select(s) \/ SelectById(s)
  \/ ReadState \/ ReadHeader \/ Reload \/ End

\* A step of a writer, which does not know of the report.  (Nothing reads the
\* database between the last statement of a report and its end.)
Write ==
  /\ Next
  /\ stage \in {"idle", "selected"}
  /\ UNCHANGED <<stage, subject, header, expected, shown>>
  /\ touched' = (touched \/ (stage = "selected" /\ ~AsSelected'))

ReportSpec == ReportInit /\ [][Report \/ Write]_reportVars

--------------------------------------------------------------------------------
(* Properties *)

\* The inductive invariant of the proof: where the rows of a snapshot that is
\* not COMPLETE are, and a report has noticed what it has not been spared.
RowsKept ==
  /\ \A s \in Ids \ DOMAIN snapshots : recorded[s] = {}
  /\ \A s \in DOMAIN snapshots :
       /\ snapshots[s].status = "running" => recorded[s] = {}
       /\ snapshots[s].status = "partial" => diagnostics[s] = recorded[s]
       /\ snapshots[s].status = "failed" => diagnostics[s] \in {{}, recorded[s]}

SelectionKept == (stage = "selected" /\ ~touched) => AsSelected

\* Whatever collections, prunes, failures and kills happen between the
\* statements of a report, a snapshot that none of them changes is shown with
\* exactly the rows its scan stored: promoting later scans, moving interval
\* bounds and deleting other snapshots and orphaned paths do not leak into it.
\* The exception is a FAILED snapshot, which top can be asked for by its id: it
\* may be shown without any row.  (When a signal demotes a COMPLETE snapshot,
\* its rows are in directory_size_intervals, where FAILED ones are not read.)
ReportFaithful ==
  (stage = "done" /\ ~touched) =>
    shown = expected \/ (header.status = "failed" /\ shown = {})
================================================================================
