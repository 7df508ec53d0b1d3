---------------------------- MODULE MCDataExport ----------------------------
(* DataExport for TLC: the tasks of an instance. *)
EXTENDS DataExport

MCTasks == 0 .. MaxExports
=============================================================================
