------------------------------ MODULE MountPolicy ------------------------------
(***************************************************************************)
(* Which mounted filesystems a scan enters: collect/mounts.py,             *)
(* collect/classify.py and should_descend of collect/scanner.py.           *)
(*                                                                         *)
(* A path is the sequence of names below the scan root; mount points above *)
(* the root are written <<>>.  A mount has an id, a mount point, a source  *)
(* (major_minor and root) and a filesystem type.                           *)
(***************************************************************************)
EXTENDS Integers, SequencesExt

NoMount == [id |-> 0, point |-> <<>>, source |-> "none", type |-> "none"]

\* DEFAULT_SKIPPED_FILESYSTEMS; proc and tmpfs stand for the twelve that are
\* no namespaces.
VirtualTypes == {"proc", "tmpfs", "nsfs"}

\* The mount with the longest matching mount point; the first of equals.
FindMountForPath(path, mounts) ==
  FoldLeft(LAMBDA best, m :
             IF /\ IsPrefix(m.point, path)
                /\ best = NoMount \/ Len(m.point) > Len(best.point)
               THEN m ELSE best,
           NoMount, mounts)

ClassifyMount(mount, policy) ==
  \/ mount = NoMount
  \/ mount.type \in policy.included
  \/ /\ ~(policy.skipOverlay /\ mount.type = "overlay")
     /\ ~(policy.skipNamespace /\ mount.type = "nsfs")
     /\ mount.type \notin VirtualTypes \union policy.skipped

Signature(mount) == <<mount.source, mount.point>>

\* stack holds the frames from the root to the directory being read.
MountCycle(mount, stack) ==
  /\ mount # NoMount
  /\ \/ mount.id # Last(stack).mount.id
     \/ Signature(mount) # Signature(Last(stack).mount)
  /\ \E i \in DOMAIN stack :
       \/ stack[i].mount.id = mount.id
       \/ Signature(stack[i].mount) = Signature(mount)

\* Mutant: only mounts are compared, not directories.
MountCycleOnly(mount, node, device, policy, rootDevice, stack) ==
  /\ ClassifyMount(mount, policy)
  /\ ~(policy.oneFilesystem /\ device # rootDevice)
  /\ ~MountCycle(mount, stack)

DirectoryCycle(node, stack) == \E i \in DOMAIN stack : stack[i].node = node

ShouldDescend(mount, node, device, policy, rootDevice, stack) ==
  /\ ClassifyMount(mount, policy)
  /\ ~(policy.oneFilesystem /\ device # rootDevice)
  /\ ~MountCycle(mount, stack)
  /\ ~DirectoryCycle(node, stack)
================================================================================
