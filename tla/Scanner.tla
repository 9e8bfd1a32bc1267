-------------------------------- MODULE Scanner --------------------------------
(***************************************************************************)
(* collect/scanner.py: the walk of one root with an explicit stack of      *)
(* frames, while the filesystem changes under it.                          *)
(*                                                                         *)
(* The filesystem answers each call on its own.  A name in a directory may *)
(* be listed or not, and be gone, unreadable or replaced by another inode  *)
(* when it is looked at.                                                   *)
(***************************************************************************)
EXTENDS MountPolicy

CONSTANTS
  Nodes,     \* inodes
  Root,      \* the inode of the root
  RootName,  \* the last name of its path
  Attr,      \* Attr[n] = [kind, size, blocks, linked, device] of inode n
  Names,     \* entry names, a sequence in the order of their bytes
  Lookup,    \* Lookup[d][x] = the inodes the name x in directory d may have
  Swaps,     \* Swaps[d] = the directories scandir may read in place of d
  Mounts,    \* mountinfo, a sequence of mounts
  Setups     \* configurations

\* Setup: excluded, never (sets of paths), noise (names), fanOut, cap, policy.
\* No collapse policy is one with no noise and a fan-out no directory reaches.
ASSUME FilesystemAssumption ==
  /\ Root \in Nodes /\ Attr[Root].kind = "dir"
  /\ Len(Names) \in Nat /\ DOMAIN Names = 1 .. Len(Names)
  /\ \A k, l \in DOMAIN Names : Names[k] = Names[l] => k = l
  /\ \A n \in Nodes : /\ Attr[n].kind \in {"dir", "regular", "symlink", "special"}
                      /\ Attr[n].size \in Nat /\ Attr[n].blocks \in Nat
                      /\ Attr[n].linked \in BOOLEAN
  /\ \A d \in Nodes : Attr[d].kind = "dir" =>
       /\ \A x \in DOMAIN Lookup[d] : Lookup[d][x] \subseteq Nodes
       /\ \A e \in Swaps[d] : e \in Nodes /\ Attr[e].kind = "dir"
ASSUME SetupAssumption == \A s \in Setups : s.never \subseteq Seq(Range(Names))

VARIABLES
  setup,        \* _ScanSetup
  phase,        \* "prepare", "walk" or "done"
  stack,        \* frames from the root to the directory being read
  rows,         \* the rows so far
  seenInodes,   \* seen_inodes
  hadFailure,   \* had_failure
  status,       \* status of the ScanResult, "none" before
  charges,      \* history variable: what was counted, by path
  problems,     \* history variable: paths that left evidence of a problem
  unseen        \* history variable: paths not looked at for an error that
                \* is not their absence

vars == <<setup, phase, stack, rows, seenInodes, hadFailure, status, charges,
          problems, unseen>>
ghosts == <<charges, problems, unseen>>

\* The aggregate columns.
Measures == {"apparent", "disk", "files", "dirs", "linkFiles", "linkDupes",
             "dupDisk", "firstDisk"}
Zero      == [m \in Measures |-> 0]
Plus(u, v) == [m \in Measures |-> u[m] + v[m]]

\* The usage of a directory, u, and of one in it, v, which is one directory more.
WithChild(u, v) == [Plus(u, v) EXCEPT !["dirs"] = @ + 1]

NoPath == <<"none">>

NewFrame(path, node, mount) ==
  [path |-> path, node |-> node, mount |-> mount, ready |-> FALSE, listed |-> node,
   left |-> <<>>, usage |-> Zero, rowStart |-> 0, collapse |-> "none",
   children |-> 0, error |-> FALSE, evidence |-> 0, top |-> NoPath, topDisk |-> 0]

Init ==
  /\ setup \in Setups
  /\ phase = "prepare"
  /\ stack = <<>> /\ rows = <<>>
  /\ seenInodes = {}
  /\ hadFailure = FALSE
  /\ status = "none"
  /\ charges = {} /\ problems = {} /\ unseen = {}

--------------------------------------------------------------------------------
(* Rows and frames *)

Frame   == Last(stack)
Outer   == Front(stack)
EntryPath == Append(Frame.path, Head(Frame.left))

DirUsage(n) == [Zero EXCEPT !["apparent"] = Attr[n].size, !["disk"] = Attr[n].blocks]

\* The row of a directory that is read, or could not be.
DirectoryRow(f) ==
  [path |-> f.path, usage |-> f.usage, error |-> f.error, collapsed |-> FALSE,
   evidence |-> 0, top |-> NoPath, topDisk |-> 0]

CollapsedRow(f) ==
  [path |-> f.path, usage |-> f.usage, error |-> f.evidence > 0 \/ f.error,
   collapsed |-> TRUE, evidence |-> f.evidence, top |-> f.top, topDisk |-> f.topDisk]

SkippedRow(path) ==
  [path |-> path, usage |-> Zero, error |-> TRUE, collapsed |-> FALSE,
   evidence |-> 0, top |-> NoPath, topDisk |-> 0]

\* Mutant: the evidence of a child is not passed on.
MergeWithoutEvidence(f, row, evidence) ==
  LET first == f.top = NoPath \/ row.usage["disk"] > f.topDisk
  IN  [f EXCEPT !.usage = WithChild(@, row.usage),
                !.top = IF first THEN row.path ELSE @,
                !.topDisk = IF first THEN row.usage["disk"] ELSE @]

\* Mutant: a child adds the directories below it but not itself.
MergeDescendants(f, row, evidence) ==
  LET first == f.top = NoPath \/ row.usage["disk"] > f.topDisk
  IN  [f EXCEPT !.usage = Plus(@, row.usage),
                !.evidence = @ + evidence,
                !.top = IF first THEN row.path ELSE @,
                !.topDisk = IF first THEN row.usage["disk"] ELSE @]

MergeChild(f, row, evidence) ==
  LET first == f.top = NoPath \/ row.usage["disk"] > f.topDisk
  IN  [f EXCEPT !.usage = WithChild(@, row.usage),
                !.evidence = @ + evidence,
                !.top = IF first THEN row.path ELSE @,
                !.topDisk = IF first THEN row.usage["disk"] ELSE @]

Advance(f)  == [f EXCEPT !.left = Tail(@)]
Noticed(f)  == [f EXCEPT !.evidence = @ + 1]
SetTop(f)   == stack' = Append(Outer, f)

IsExcluded(path) == \E x \in setup.excluded : IsPrefix(x, path)

\* Mutant: a directory above a protected one counts as unprotected.
IsBelowProtected(path) == \E x \in setup.never : IsPrefix(x, path)

IsProtectedPath(path) == \E x \in setup.never : IsPrefix(x, path) \/ IsPrefix(path, x)

InitialCollapse(path) ==
  IF /\ (IF path = <<>> THEN RootName ELSE Last(path)) \in setup.noise
     /\ ~IsProtectedPath(path)
    THEN "known_noise" ELSE "none"

\* One more direct subdirectory, which may reach the fan-out.
CountChild(f) ==
  [f EXCEPT !.children = @ + 1,
            !.collapse = IF /\ @ = "none" /\ ~IsProtectedPath(f.path)
                            /\ f.children + 1 >= setup.fanOut
                           THEN "fan_out" ELSE @]

\* What is counted, and whether it is a directory the walk has entered.
Charge(path, node, usage, entered) ==
  charges' = charges \union
    {[path |-> path, node |-> node, usage |-> usage, entered |-> entered]}
AsDirectory(usage) == [usage EXCEPT !["dirs"] = 1]

--------------------------------------------------------------------------------
(* The root *)

RootAccepted ==
  /\ phase = "prepare"
  /\ LET mount == FindMountForPath(<<>>, Mounts)
     IN  /\ Mounts = <<>> \/ (mount # NoMount /\ ClassifyMount(mount, setup.policy))
         /\ stack' = <<NewFrame(<<>>, Root, mount)>>
  /\ phase' = "walk"
  /\ UNCHANGED <<setup, rows, seenInodes, hadFailure, status, ghosts>>

\* The root is gone, a symlink or below one, or its mount is unknown or skipped.
RootRejected ==
  /\ phase = "prepare"
  /\ phase' = "done"
  /\ status' = "failed"
  /\ UNCHANGED <<setup, stack, rows, seenInodes, hadFailure, ghosts>>

--------------------------------------------------------------------------------
(* Reading a directory *)

\* Any part of the names, in the order of their bytes.
Listings(n) ==
  {names \in SeqOf(DOMAIN Lookup[n], Len(Names)) :
     \A i, j \in DOMAIN names : i < j =>
       \E k, l \in DOMAIN Names : k < l /\ Names[k] = names[i] /\ Names[l] = names[j]}

\* The stat is that of the entry; the directory that is listed may be another one
\* that has taken its name since, or that a symlink put there leads to.
Reached == {Frame.node} \union Swaps[Frame.node]

ListDirectory ==
  /\ phase = "walk" /\ ~Frame.ready
  /\ \E d \in Reached : \E listing \in Listings(d) :
       SetTop([Frame EXCEPT !.ready = TRUE, !.listed = d, !.left = listing,
                            !.usage = DirUsage(Frame.node),
                            !.rowStart = Len(rows),
                            !.collapse = InitialCollapse(Frame.path)])
  /\ Charge(Frame.path, Frame.node, AsDirectory(DirUsage(Frame.node)), TRUE)
  /\ UNCHANGED <<setup, phase, rows, seenInodes, hadFailure, status, problems, unseen>>

\* Listing the root fails: the scan is FAILED.
ListRootFails ==
  /\ phase = "walk" /\ ~Frame.ready /\ Frame.path = <<>>
  /\ stack' = <<>> /\ phase' = "done" /\ status' = "failed"
  /\ UNCHANGED <<setup, rows, seenInodes, hadFailure, ghosts>>

\* Listing another directory fails: it has a row with what its stat gave.
ListFails(missing) ==
  /\ phase = "walk" /\ ~Frame.ready /\ Frame.path # <<>>
  /\ LET row == DirectoryRow([Frame EXCEPT !.usage = DirUsage(Frame.node),
                                           !.error = TRUE])
     IN  /\ rows' = Append(rows, row)
         /\ stack' = Append(Front(Outer), MergeChild(Last(Outer), row, 1))
  /\ hadFailure' = (hadFailure \/ ~missing)
  /\ Charge(Frame.path, Frame.node, AsDirectory(DirUsage(Frame.node)), TRUE)
  /\ problems' = problems \union {Frame.path}
  /\ unseen' = IF missing THEN unseen ELSE unseen \union {Frame.path}
  /\ UNCHANGED <<setup, phase, seenInodes, status>>

--------------------------------------------------------------------------------
(* Processing an entry *)

AtEntry == phase = "walk" /\ Frame.ready /\ Frame.left # <<>>
Found   == Lookup[Frame.listed][Head(Frame.left)]

\* An excluded entry has a row when it is a directory.
ExcludedDirectory(n) ==
  /\ AtEntry /\ IsExcluded(EntryPath)
  /\ Attr[n].kind = "dir"
  /\ rows' = Append(rows, SkippedRow(EntryPath))
  /\ SetTop(MergeChild(Noticed(Advance(Frame)), SkippedRow(EntryPath), 0))
  /\ Charge(EntryPath, n, AsDirectory(Zero), FALSE)
  /\ problems' = problems \union {EntryPath}
  /\ UNCHANGED <<setup, phase, seenInodes, hadFailure, status, unseen>>

ExcludedOther ==
  /\ AtEntry /\ IsExcluded(EntryPath)
  /\ SetTop(Noticed(Advance(Frame)))
  /\ problems' = problems \union {EntryPath}
  /\ UNCHANGED <<setup, phase, rows, seenInodes, hadFailure, status, charges, unseen>>

EntryFails(missing) ==
  /\ AtEntry /\ ~IsExcluded(EntryPath)
  /\ SetTop([Noticed(Advance(Frame)) EXCEPT !.error = TRUE])
  /\ hadFailure' = (hadFailure \/ ~missing)
  /\ problems' = problems \union {EntryPath}
  /\ unseen' = IF missing THEN unseen ELSE unseen \union {EntryPath}
  /\ UNCHANGED <<setup, phase, rows, seenInodes, status, charges>>

MayEnter(n) ==
  ShouldDescend(FindMountForPath(EntryPath, Mounts), n, Attr[n].device,
                setup.policy, Attr[Root].device, stack)

\* A directory the mount policy keeps out: no row for a virtual filesystem.
SkipDirectory(n) ==
  /\ AtEntry /\ ~IsExcluded(EntryPath)
  /\ Attr[n].kind = "dir" /\ ~MayEnter(n)
  /\ LET f == Noticed(CountChild(Advance(Frame)))
     IN  IF FindMountForPath(EntryPath, Mounts).type \in VirtualTypes
           THEN SetTop(f) /\ UNCHANGED <<rows, charges>>
           ELSE /\ rows' = Append(rows, SkippedRow(EntryPath))
                /\ SetTop(MergeChild(f, SkippedRow(EntryPath), 0))
                /\ Charge(EntryPath, n, AsDirectory(Zero), FALSE)
  /\ problems' = problems \union {EntryPath}
  /\ UNCHANGED <<setup, phase, seenInodes, hadFailure, status, unseen>>

EnterDirectory(n) ==
  /\ AtEntry /\ ~IsExcluded(EntryPath)
  /\ Attr[n].kind = "dir" /\ MayEnter(n)
  /\ LET mount == FindMountForPath(EntryPath, Mounts)
     IN  stack' = Append(Append(Outer, CountChild(Advance(Frame))),
                         NewFrame(EntryPath, n, IF mount = NoMount THEN Frame.mount
                                                                   ELSE mount))
  /\ UNCHANGED <<setup, phase, rows, seenInodes, hadFailure, status, ghosts>>

\* st_blocks and st_size of a file; 0 for sockets, pipes and devices.
FileDisk(n) == IF Attr[n].kind \in {"regular", "symlink"} THEN Attr[n].blocks ELSE 0
FileSize(n) == IF Attr[n].kind \in {"regular", "symlink"} THEN Attr[n].size ELSE 0
IsHardlink(n) == Attr[n].kind = "regular" /\ Attr[n].linked

FileBase(n) == [Zero EXCEPT !["files"] = 1, !["apparent"] = FileSize(n)]

\* Mutant: every link of an inode is charged.
FileUsageEachLink(n) ==
  IF ~IsHardlink(n)
    THEN [FileBase(n) EXCEPT !["disk"] = FileDisk(n)]
    ELSE [FileBase(n) EXCEPT !["disk"] = FileDisk(n), !["linkFiles"] = 1,
                             !["firstDisk"] = FileDisk(n)]

\* What a file adds: the blocks of a hard link only where it is seen first.
FileUsage(n) ==
  CASE ~IsHardlink(n)      -> [FileBase(n) EXCEPT !["disk"] = FileDisk(n)]
    [] n \in seenInodes    -> [FileBase(n) EXCEPT !["linkFiles"] = 1, !["linkDupes"] = 1,
                                                  !["dupDisk"] = FileDisk(n)]
    [] OTHER               -> [FileBase(n) EXCEPT !["disk"] = FileDisk(n),
                                                  !["linkFiles"] = 1,
                                                  !["firstDisk"] = FileDisk(n)]

AtLimit(n) == /\ IsHardlink(n) /\ n \notin seenInodes
              /\ Cardinality(seenInodes) >= setup.cap

CountFile(n) ==
  /\ AtEntry /\ ~IsExcluded(EntryPath)
  /\ Attr[n].kind # "dir" /\ ~AtLimit(n)
  /\ SetTop([Advance(Frame) EXCEPT !.usage = Plus(@, FileUsage(n))])
  /\ seenInodes' = IF IsHardlink(n) THEN seenInodes \union {n} ELSE seenInodes
  /\ Charge(EntryPath, n, FileUsage(n), FALSE)
  /\ UNCHANGED <<setup, phase, rows, hadFailure, status, problems, unseen>>

\* Mutant: giving up on a directory does not make the scan PARTIAL.
LimitUnreported(n) ==
  /\ AtEntry /\ ~IsExcluded(EntryPath)
  /\ Attr[n].kind # "dir" /\ AtLimit(n)
  /\ SetTop([Noticed(Frame) EXCEPT !.usage = Plus(@, FileBase(n)), !.error = TRUE,
                                   !.left = <<>>])
  /\ Charge(EntryPath, n, FileBase(n), FALSE)
  /\ problems' = problems \union {EntryPath}
  /\ unseen' = unseen \union {Append(Frame.path, x) : x \in ToSet(Frame.left)}
  /\ UNCHANGED <<setup, phase, rows, seenInodes, status, hadFailure>>

\* The table of hard links is full: the rest of the directory is given up.
HardlinkLimit(n) ==
  /\ AtEntry /\ ~IsExcluded(EntryPath)
  /\ Attr[n].kind # "dir" /\ AtLimit(n)
  /\ SetTop([Noticed(Frame) EXCEPT !.usage = Plus(@, FileBase(n)), !.error = TRUE,
                                   !.left = <<>>])
  /\ hadFailure' = TRUE
  /\ Charge(EntryPath, n, FileBase(n), FALSE)
  /\ problems' = problems \union {EntryPath}
  /\ unseen' = unseen \union {Append(Frame.path, x) : x \in ToSet(Frame.left)}
  /\ UNCHANGED <<setup, phase, rows, seenInodes, status>>

--------------------------------------------------------------------------------
(* Leaving a directory *)

\* Mutant: the rows below a collapsed directory stay.
RowsKept(f) ==
  IF f.collapse = "none" THEN Append(rows, DirectoryRow(f))
                         ELSE Append(rows, CollapsedRow(f))

\* The rows when frame f is finished: a collapsed directory replaces all below it.
RowsWith(f) ==
  IF f.collapse = "none"
    THEN Append(rows, DirectoryRow(f))
    ELSE Append(SubSeq(rows, 1, f.rowStart), CollapsedRow(f))

FinishFrame ==
  /\ phase = "walk" /\ Frame.ready /\ Frame.left = <<>>
  /\ rows' = RowsWith(Frame)
  /\ IF Outer = <<>>
       THEN /\ stack' = <<>> /\ phase' = "done"
            /\ status' = IF hadFailure THEN "partial" ELSE "complete"
       ELSE /\ stack' = Append(Front(Outer),
                               MergeChild(Last(Outer), Last(rows'), Frame.evidence))
            /\ UNCHANGED <<phase, status>>
  /\ UNCHANGED <<setup, seenInodes, hadFailure, ghosts>>

--------------------------------------------------------------------------------
Entry ==
  \/ \E n \in Found : \/ ExcludedDirectory(n) \/ SkipDirectory(n) \/ EnterDirectory(n)
                      \/ CountFile(n) \/ HardlinkLimit(n)
  \/ ExcludedOther
  \/ \E missing \in BOOLEAN : EntryFails(missing)

Next ==
  \/ RootAccepted \/ RootRejected
  \/ ListDirectory \/ ListRootFails \/ \E missing \in BOOLEAN : ListFails(missing)
  \/ AtEntry /\ Entry
  \/ FinishFrame

Spec == Init /\ [][Next]_vars

--------------------------------------------------------------------------------
(* Properties *)

Scanned == phase = "done" /\ status # "failed"

Below(path) == {c \in charges : IsPrefix(path, c.path)}
Total(m, items) == SumFunctionOnSet([c \in items |-> c.usage[m]], items)

\* Every row, the collapsed ones included, holds exactly what was counted in
\* its directory and below: every file and directory once, whatever failed,
\* vanished, was skipped or collapsed on the way.
AggregatesExact ==
  \A i \in DOMAIN rows : \A m \in Measures :
    rows[i].usage[m] = Total(m, Below(rows[i].path)) - (IF m = "dirs" THEN 1 ELSE 0)

\* The disk usage of the root is that of its inodes, each counted once however
\* many hard links to it the scan met: what du reports.
CountsLikeDu ==
  status = "complete" =>
    LET links == {c \in charges : IsHardlink(c.node)}
    IN  Last(rows).usage["disk"] =
          Total("disk", charges \ links)
            + SumFunctionOnSet([n \in Nodes |-> Attr[n].blocks], {c.node : c \in links})

\* The rows of a finished scan are a tree: one row for each path, the root's
\* last, and above each row one of its parent directory that is not collapsed.
\* insert_directory_rows relies on the first (UNIQUE(snapshot_id, path_id)).
RowsFormTree ==
  Scanned =>
    /\ \A i, j \in DOMAIN rows : rows[i].path = rows[j].path => i = j
    /\ Last(rows).path = <<>>
    /\ \A i \in DOMAIN rows : rows[i].path # <<>> =>
         \E j \in DOMAIN rows : rows[j].path = Front(rows[i].path) /\ ~rows[j].collapsed

\* A directory that is protected from collapsing, or leads to one that is, keeps
\* its own row whatever happens to its neighbours and ancestors.
ProtectedExpanded ==
  Scanned =>
    \A c \in charges, x \in setup.never :
      c.usage["dirs"] = 1 /\ (IsPrefix(x, c.path) \/ IsPrefix(c.path, x)) =>
        \E i \in DOMAIN rows : rows[i].path = c.path /\ ~rows[i].collapsed

\* A collapsed row reports as many problems as its directory and everything
\* folded into it had.
EvidenceFolded ==
  \A i \in DOMAIN rows : rows[i].collapsed =>
    rows[i].evidence = Cardinality({p \in problems : IsPrefix(rows[i].path, p)})

\* A scan that is reported COMPLETE has looked at every entry it listed, save
\* those that had vanished and those the configuration leaves out.
CompleteSawAll == status = "complete" => unseen = {}

\* No directory is counted inside itself: a bind mount of an ancestor is not
\* entered, so the walk of a cyclic mount table ends.
NoDirectoryTwice ==
  \A c, d \in charges :
    c.entered /\ d.entered /\ IsStrictPrefix(c.path, d.path) => c.node # d.node
================================================================================
