------------------------------ MODULE PathHistory ------------------------------
(***************************************************************************)
(* reporting/path_history.py: a directory that became a symbolic link is   *)
(* compared with the directory the link leads to, name by name.  from is   *)
(* where the baseline scan saw it, to where the current scan does.         *)
(***************************************************************************)
EXTENDS SnapshotDiff

\* Where a history can start or end: i.error IS NULL, d.error IS NULL.
Usable(rows) == {p \in DOMAIN rows : ~ rows[p].error}

\* _endpoint_rows: the rows of one scan below path, by what follows path.
EndpointRows(rows, path) ==
  [s \in {SubSeq(p, Len(path) + 1, Len(p)) :
            p \in {q \in DOMAIN rows : MatchesPathPrefix(q, path)}} |-> rows[path \o s]]

HiddenBelow(s, rows) == \E p \in Ancestors(s) \intersect DOMAIN rows : rows[p].collapsed

\* _history_classification
HistoryClassification(s, previous, current_) ==
  IF s \notin DOMAIN previous
    THEN IF HiddenBelow(s, previous) THEN "hidden_by_collapse" ELSE "created"
  ELSE IF s \notin DOMAIN current_
    THEN IF HiddenBelow(s, current_) THEN "hidden_by_collapse" ELSE "deleted"
  ELSE IF previous[s].apparent = current_[s].apparent THEN "unchanged"
  ELSE Direction(current_[s].apparent - previous[s].apparent)

\* _merge_endpoint_rows
HistoryRows(from, to) ==
  LET previous == EndpointRows(baseline, from)
      latest   == EndpointRows(current, to)
  IN  {[suffix   |-> s,
        class    |-> HistoryClassification(s, previous, latest),
        disk     |-> Size(latest, s, "disk") - Size(previous, s, "disk"),
        apparent |-> Size(latest, s, "apparent") - Size(previous, s, "apparent")] :
          s \in DOMAIN previous \union DOMAIN latest}

--------------------------------------------------------------------------------
(* Properties *)

\* A directory was not there when a scan was made, or lay in a virtual
\* filesystem, or the nearest row above it says by its error that the scan did
\* not read all that was there.
GoneOrUnread(there, rows, p) ==
  \/ p \notin there.dirs
  \/ p \in there.virtual
  \/ rows[Deepest(Ancestors(p) \intersect DOMAIN rows)].error

\* A scan stores nothing below a directory it collapses, and yet what a report
\* or a history lists as deleted does not exist any more, and what a history
\* lists as created was not there before, whichever scan folded what.  The
\* classifications ignore errors, so there are two exceptions: what the scan of
\* that side left out, which the error of the nearest row of the index shows in
\* a COMPLETE and in a PARTIAL scan alike, and what a mounted virtual filesystem
\* covers.  A history compares directories whose own rows have no error.
DeletedAreGone ==
  Paired =>
    /\ \A r \in Range(DeletedRows(AllRows)) : GoneOrUnread(isThere, current, r.path)
    /\ \A from \in Usable(baseline), to \in Usable(current) :
         \A r \in HistoryRows(from, to) :
           /\ r.class = "deleted" => GoneOrUnread(isThere, current, to \o r.suffix)
           /\ r.class = "created" => GoneOrUnread(wasThere, baseline, from \o r.suffix)
================================================================================
