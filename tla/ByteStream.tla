---------------------------- MODULE ByteStream ----------------------------
(***************************************************************************)
(* What a pipe promises: bytes come out in the order in which they went    *)
(* in, none twice, none lost while the pipe exists, and a reader is told   *)
(* the end only when every byte is out and nobody can write any more.      *)
(***************************************************************************)
EXTENDS Naturals, Sequences

CONSTANTS Procs,
          Data,     \* what can be offered in one call
          Capacity

VARIABLES queue,    \* the bytes in the pipe
          offered,  \* the bytes each process is asking to write
          readers,  \* processes that hold the end to read from
          writers,  \* processes that hold the end to write to
          told      \* processes whose last read was answered with the end

vars == <<queue, offered, readers, writers, told>>

Init ==
  /\ queue = <<>> /\ offered = [p \in Procs |-> <<>>]
  /\ readers = {} /\ writers = {} /\ told = {}

Offer(p) ==
  /\ p \in writers
  /\ \E data \in Data : offered' = [offered EXCEPT ![p] = data]
  /\ UNCHANGED <<queue, readers, writers, told>>

\* The first n of the bytes that p offers are appended.
Put(p) ==
  /\ p \in writers
  /\ \E n \in 1 .. Len(offered[p]) : queue' = queue \o SubSeq(offered[p], 1, n)
  /\ Len(queue') <= Capacity
  /\ offered' = [offered EXCEPT ![p] = <<>>] /\ told' = told \ {p}
  /\ UNCHANGED <<readers, writers>>

Take(p) ==
  /\ p \in readers
  /\ \E n \in 1 .. Len(queue) : queue' = SubSeq(queue, n + 1, Len(queue))
  /\ told' = told \ {p}
  /\ UNCHANGED <<offered, readers, writers>>

TellEnd(p) ==
  /\ p \in readers
  /\ queue = <<>> /\ writers = {}
  /\ told' = told \cup {p}
  /\ UNCHANGED <<queue, offered, readers, writers>>

\* A call ends without a byte, and is not told the end.
Nothing(p) ==
  /\ offered' = [offered EXCEPT ![p] = <<>>] /\ told' \in {told, told \ {p}}
  /\ UNCHANGED <<queue, readers, writers>>

\* A new pipe for p, when the old one is gone.
Create(p) ==
  /\ readers = {} /\ writers = {}
  /\ readers' = {p} /\ writers' = {p}
  /\ UNCHANGED <<queue, offered, told>>

\* Process q becomes a copy of p.
Inherit(p, q) ==
  /\ readers' = IF p \in readers THEN readers \cup {q} ELSE readers
  /\ writers' = IF p \in writers THEN writers \cup {q} ELSE writers
  /\ told' = told \ {q}
  /\ UNCHANGED <<queue, offered>>

\* Ends are closed; the bytes go with the last one.
Drop(p) ==
  /\ readers' \in {readers, readers \ {p}} /\ writers' \in {writers, writers \ {p}}
  /\ queue' = IF readers' = {} /\ writers' = {} THEN <<>> ELSE queue
  /\ offered' \in {offered, [offered EXCEPT ![p] = <<>>]}
  /\ told' \in {told, told \ {p}}

Next == \E p \in Procs : \/ Offer(p) \/ Put(p) \/ Take(p) \/ TellEnd(p) \/ Nothing(p)
                         \/ Create(p) \/ Drop(p) \/ \E q \in Procs : Inherit(p, q)

Spec == Init /\ [][Next]_vars
=============================================================================
