--------------------------- MODULE PrivateMemory ---------------------------
(***************************************************************************)
(* What fork(), mmap() and exit() promise a process about its memory: every *)
(* address space has a private copy of every page it maps.  A fork starts  *)
(* with the parent's contents and from then on neither side sees what the  *)
(* other one writes.  Vmm.tla implements this with shared, reference       *)
(* counted, copy-on-write blocks.                                          *)
(***************************************************************************)
CONSTANTS
  Spaces,   \* identities of user address spaces
  Pages,    \* virtual pages of an address space
  Values,   \* contents of a page
  Absent    \* what a page that is not mapped holds

VARIABLES
  live,     \* the address spaces that exist
  view      \* view[s][p]: what space s reads at page p

vars == <<live, view>>

Unmapped == [p \in Pages |-> Absent]

TypeOK ==
  /\ live \subseteq Spaces
  /\ view \in [Spaces -> [Pages -> Values \cup {Absent}]]

Init ==
  /\ live = {}
  /\ view = [s \in Spaces |-> Unmapped]

Create(s) ==
  /\ s \notin live
  /\ live' = live \cup {s}
  /\ view' = [view EXCEPT ![s] = Unmapped]

Fork(src, dst) ==
  /\ src \in live /\ dst \notin live
  /\ live' = live \cup {dst}
  /\ view' = [view EXCEPT ![dst] = view[src]]

Destroy(s) ==
  /\ s \in live
  /\ live' = live \ {s}
  /\ view' = [view EXCEPT ![s] = Unmapped]

\* Mapping, writing and unmapping change one page of one space.
SetPage(s, p, v) ==
  /\ s \in live
  /\ view' = [view EXCEPT ![s][p] = v]
  /\ UNCHANGED live

Next ==
  \/ \E s \in Spaces : Create(s) \/ Destroy(s)
  \/ \E src, dst \in Spaces : Fork(src, dst)
  \/ \E s \in Spaces, p \in Pages, v \in Values \cup {Absent} : SetPage(s, p, v)

Spec == Init /\ [][Next]_vars
=============================================================================
