---------------------------- MODULE MCSnapshotPairs ----------------------------
(* An instance of SnapshotPairs for TLC: a root and one nested in it. *)
EXTENDS SnapshotPairs

MCRoots == {<<>>, <<1>>}
\* A directory may move from the nested root to the outer one or within that.
MCSights ==
  <<>> :> {{}, {"linked"}, {"asked", "linked"}} @@ <<1>> :> {{"asked"}}
MCTargets == {<<2>>, <<1>>, <<1, 1>>}
================================================================================
