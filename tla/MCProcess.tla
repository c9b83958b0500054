----------------------------- MODULE MCProcess -----------------------------
(***************************************************************************)
(* Model-checking instances of Process.                                    *)
(***************************************************************************)
EXTENDS Process, TLC

Symmetry == Permutations(Slots) \cup Permutations(Spaces)

\* vfork and clone(CLONE_VM), without threads.
ProcessKinds == [vfork : BOOLEAN, thread : {FALSE}]

\* Threads, and children that share the address space.
ThreadKinds == [vfork : {FALSE}, thread : BOOLEAN]
=============================================================================
