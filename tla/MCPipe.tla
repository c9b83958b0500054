------------------------------- MODULE MCPipe -------------------------------
EXTENDS Pipe, TLC

\* Pipe treats all processes alike.
Symmetry == Permutations(Procs)
=============================================================================
