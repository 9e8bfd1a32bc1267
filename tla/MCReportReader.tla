---------------------------- MODULE MCReportReader ----------------------------
(* Instances of ReportReader for TLC. *)
EXTENDS ReportReader

CONSTANTS a, b, plain, pointing

\* A state that names no other path, and one whose parent or top child is a.
MCRefs == [st \in States |-> IF st = pointing THEN {a} ELSE {}]
================================================================================
