---------------------------- MODULE SnapshotHistory ----------------------------
(***************************************************************************)
(* What the snapshot database promises: a history of complete scans, keyed *)
(* by snapshot id.  A recorded scan is never altered.  It can only be       *)
(* forgotten, and a new one gets an id above every scan still remembered.  *)
(***************************************************************************)
EXTENDS Integers

CONSTANTS Ids,       \* the snapshot ids
          Contents   \* what one complete scan can report

VARIABLE history     \* a function from remembered ids to their contents

\* Nothing has been recorded in a new database.
Init == history = [s \in {} |-> {}]

\* A complete scan c becomes the newest remembered snapshot s.
Record(s, c) ==
  /\ \A t \in DOMAIN history : t < s
  /\ history' = [t \in DOMAIN history \union {s} |->
                   IF t = s THEN c ELSE history[t]]

\* Retention, or an interrupted collection, forgets the snapshots gone.
Forget(gone) ==
  history' = [t \in DOMAIN history \ gone |-> history[t]]

Next ==
  \/ \E s \in Ids, c \in Contents : Record(s, c)
  \/ \E gone \in SUBSET DOMAIN history : Forget(gone)

Spec == Init /\ [][Next]_history
================================================================================
