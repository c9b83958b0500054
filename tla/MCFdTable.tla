----------------------------- MODULE MCFdTable -----------------------------
(* Small instances of FdTable.  Processes are interchangeable. *)
EXTENDS FdTable, TLC

Symmetry == Permutations(Procs)
=============================================================================
