------------------------------ MODULE FdTable ------------------------------
(***************************************************************************)
(* The descriptor tables of the processes and the four global pools of     *)
(* counted objects behind them (kernel/syscall.c, kernel/syscall/ipc.c,    *)
(* the socket calls of kernel/syscall/network.c): open file handles,       *)
(* pipes, eventfds and sockets.  Every process (and every thread) owns a   *)
(* table of its own; fork and clone copy it and retain every entry,        *)
(* exit and kill release every entry, dup duplicates one, and sendmsg and  *)
(* recvmsg carry entries through the ancillary queue of a unix socket.     *)
(*                                                                         *)
(* An entry is a pair <<kind, handle_index>>, as struct fd_entry is.  An   *)
(* object is in use exactly while one of its counters is not zero: the     *)
(* code sets in_use together with the first reference, and clears the      *)
(* whole object with the last one.  Bytes, offsets, names, ports and the   *)
(* state of a connection are left out.  The last decides only whether a    *)
(* sendmsg that could queue descriptors fails instead, which changes       *)
(* nothing here.                                                           *)
(***************************************************************************)
EXTENDS Integers, Sequences, FiniteSets, SequencesExt

CONSTANTS Procs,        \* process slots
          PROCESS_FD_MAX, \* descriptors of one table
          FirstFd,      \* where the search for a new descriptor starts (3)
          MAX_FILE_HANDLES, MAX_PIPE_OBJECTS, MAX_EVENTFD_OBJECTS,
          MAX_SOCKET_OBJECTS,
          SOCKET_ANCILLARY_FD_MAX

ASSUME LimitsAreNatural ==
  /\ PROCESS_FD_MAX \in Nat /\ FirstFd \in 0 .. PROCESS_FD_MAX
  /\ MAX_FILE_HANDLES \in Nat /\ MAX_PIPE_OBJECTS \in Nat
  /\ MAX_EVENTFD_OBJECTS \in Nat /\ MAX_SOCKET_OBJECTS \in Nat
  /\ SOCKET_ANCILLARY_FD_MAX \in Nat

Fds == 0 .. PROCESS_FD_MAX - 1
Sockets == 0 .. MAX_SOCKET_OBJECTS - 1
Pool == [vnode |-> MAX_FILE_HANDLES, reader |-> MAX_PIPE_OBJECTS,
         writer |-> MAX_PIPE_OBJECTS, eventfd |-> MAX_EVENTFD_OBJECTS,
         socket |-> MAX_SOCKET_OBJECTS]
Kinds == DOMAIN Pool

\* The entries that hold a reference, the entry of a device (console, null
\* or random: no object behind it) and the free slot of a table.
Counted == UNION {{<<k, i>> : i \in 0 .. Pool[k] - 1} : k \in Kinds}
Device == <<"device", 0>>
FREE == <<"free", -1>>
Entries == Counted \cup {Device}

NoPeer == -1
VARIABLES alive,   \* processes that have a table
          table,   \* fd_table of each process
          refs,    \* refcount, read_refs or write_refs behind each entry
          peer,    \* socket_object.peer_index
          pending  \* rx_ancillary_fds of each socket

vars == <<alive, table, refs, peer, pending>>
sockVars == <<peer, pending>>

\* get_file_handle_by_index and its siblings: the object behind an entry is
\* in use.  A pipe has two counters and lives while either is not zero.
InUse(r, e) ==
  IF e[1] \in {"reader", "writer"}
  THEN r[<<"reader", e[2]>>] > 0 \/ r[<<"writer", e[2]>>] > 0
  ELSE r[e] > 0

FreeObjects(kind) == {i \in 0 .. Pool[kind] - 1 : ~InUse(refs, <<kind, i>>)}
LeastOf(S) == CHOOSE x \in S : \A y \in S : x <= y
FreeFds(p, from) == {fd \in Fds : fd >= from /\ table[p][fd] = FREE}

Init ==
  /\ \E p \in Procs :
       /\ alive = {p}
       /\ table = [q \in Procs |-> [fd \in Fds |->
                     IF q = p /\ fd < FirstFd THEN Device ELSE FREE]]
  /\ refs = [e \in Counted |-> 0]
  /\ peer = [s \in Sockets |-> NoPeer]
  /\ pending = [s \in Sockets |-> <<>>]

-----------------------------------------------------------------------------
(***************************************************************************)
(* Retaining and releasing references.                                     *)
(***************************************************************************)
\* How often a sequence of entries names e.
Times(e, entries) == Cardinality({i \in DOMAIN entries : entries[i] = e})

\* retain_fd_entry_refs for every entry of a sequence.
Retained(r, entries) ==
  [e \in Counted |-> IF InUse(r, e) THEN r[e] + Times(e, entries) ELSE r[e]]

\* The objects while references are being released, and the entries still
\* to be released.
Releasing == [refs : [Counted -> Nat], peer : [Sockets -> Sockets \cup {NoPeer}],
              pending : [Sockets -> Seq(Entries)], todo : Seq(Entries)]

\* close_socket_ref and release_socket_ref with the last reference: the object
\* is cleared.  The peer keeps its peer_index.
Cleared(x, s) ==
  [x EXCEPT !.refs[<<"socket", s>>] = 0, !.peer[s] = NoPeer, !.pending[s] = <<>>]

\* Mutant of Inherited: the queued descriptors are forgotten.
InheritedNone(x, s) == <<>>

\* The entries that the last reference to a socket leaves to be released.
Inherited(x, s) == x.pending[s]

\* release_fd_entry_refs, close_fd_internal: one entry is released, and the
\* entries it leaves are released before the rest, as the nested calls do.
ReleaseOne(x) ==
  LET e == Head(x.todo)
      s == e[2]
      rest == [x EXCEPT !.todo = Tail(@)]
  IN
  IF e = Device \/ x.refs[e] = 0 THEN rest
  ELSE IF e[1] = "socket" /\ x.refs[e] = 1
  THEN [Cleared(rest, s) EXCEPT !.todo = Inherited(x, s) \o @]
  ELSE [rest EXCEPT !.refs[e] = @ - 1]

Released[x \in Releasing] ==
  IF x.todo = <<>> THEN x ELSE Released[ReleaseOne(x)]

\* The objects change as releasing the entries of a sequence changes them.
Release(entries, r, queue) ==
  LET x == Released[[refs |-> r, peer |-> peer, pending |-> queue, todo |-> entries]]
  IN refs' = x.refs /\ peer' = x.peer /\ pending' = x.pending

\* The entries of a table in the order of its slots.
EntriesOf(t) == SelectSeq([i \in 1 .. PROCESS_FD_MAX |-> t[i - 1]], LAMBDA e : e # FREE)

-----------------------------------------------------------------------------
(***************************************************************************)
(* Creating descriptors.                                                   *)
(***************************************************************************)
\* install_vnode_fd, sys_eventfd2 and install_socket_fd: the first free object
\* of the pool and the first free descriptor.  A socket has no peer.
Open(p, kind) ==
  /\ p \in alive
  /\ FreeObjects(kind) # {} /\ FreeFds(p, FirstFd) # {}
  /\ LET e == <<kind, LeastOf(FreeObjects(kind))>> IN
     /\ refs' = [refs EXCEPT ![e] = 1]
     /\ table' = [table EXCEPT ![p][LeastOf(FreeFds(p, FirstFd))] = e]
  /\ UNCHANGED <<alive, sockVars>>

\* install_device_fd
OpenDevice(p) ==
  /\ p \in alive
  /\ FreeFds(p, FirstFd) # {}
  /\ table' = [table EXCEPT ![p][LeastOf(FreeFds(p, FirstFd))] = Device]
  /\ UNCHANGED <<alive, refs, sockVars>>

\* Two new entries in the first two free descriptors.
InstallTwo(p, first, second) ==
  LET free == FreeFds(p, FirstFd)
      fd == LeastOf(free)
  IN
  /\ Cardinality(free) >= 2
  /\ table' = [table EXCEPT ![p][fd] = first, ![p][LeastOf(free \ {fd})] = second]
  /\ refs' = [refs EXCEPT ![first] = 1, ![second] = 1]

\* sys_pipe
Pipe(p) ==
  /\ p \in alive
  /\ FreeObjects("reader") # {}
  /\ LET i == LeastOf(FreeObjects("reader")) IN
     InstallTwo(p, <<"reader", i>>, <<"writer", i>>)
  /\ UNCHANGED <<alive, sockVars>>

\* sys_socketpair
SocketPair(p) ==
  /\ p \in alive
  /\ Cardinality(FreeObjects("socket")) >= 2
  /\ LET a == LeastOf(FreeObjects("socket"))
         b == LeastOf(FreeObjects("socket") \ {a})
     IN
     /\ InstallTwo(p, <<"socket", a>>, <<"socket", b>>)
     /\ peer' = [peer EXCEPT ![a] = b, ![b] = a]
  /\ UNCHANGED <<alive, pending>>

-----------------------------------------------------------------------------
(***************************************************************************)
(* Duplicating and closing descriptors.                                    *)
(***************************************************************************)
\* Mutant of DupRetains: the copy takes no reference.
DupRetainsNone(r, e) == r

\* The counters after dup_fd_common has copied entry e.
DupRetains(r, e) == Retained(r, <<e>>)

\* sys_dup, and fcntl with F_DUPFD: the first free descriptor from 0.
Dup(p, fd) ==
  /\ p \in alive /\ table[p][fd] # FREE
  /\ FreeFds(p, 0) # {}
  /\ table' = [table EXCEPT ![p][LeastOf(FreeFds(p, 0))] = table[p][fd]]
  /\ refs' = DupRetains(refs, table[p][fd])
  /\ UNCHANGED <<alive, sockVars>>

\* sys_dup2: the descriptor that is overwritten is closed first.  Retaining
\* before releasing gives the same counters: the old descriptor keeps its
\* object in use throughout.
Dup2(p, fd, newfd) ==
  LET old == table[p][newfd]
      kept == DupRetains(refs, table[p][fd])
  IN
  /\ p \in alive /\ table[p][fd] # FREE /\ newfd # fd
  /\ table' = [table EXCEPT ![p][newfd] = table[p][fd]]
  /\ Release(IF old = FREE THEN <<>> ELSE <<old>>, kept, pending)
  /\ UNCHANGED alive

\* sys_close
Close(p, fd) ==
  /\ p \in alive /\ table[p][fd] # FREE
  /\ table' = [table EXCEPT ![p][fd] = FREE]
  /\ Release(<<table[p][fd]>>, refs, pending)
  /\ UNCHANGED alive

\* Mutant of ForkRetains: pipe ends are copied without a reference.
ForkRetainsObjects(t) ==
  Retained(refs, SelectSeq(EntriesOf(t), LAMBDA e : e[1] \notin {"reader", "writer"}))

\* syscall_retain_fd_table_entries
ForkRetains(t) == Retained(refs, EntriesOf(t))

\* sys_fork and sys_clone: a thread gets a copy of the table as well.
Fork(p, c) ==
  /\ p \in alive /\ c \notin alive
  /\ alive' = alive \cup {c}
  /\ table' = [table EXCEPT ![c] = table[p]]
  /\ refs' = ForkRetains(table[p])
  /\ UNCHANGED sockVars

\* syscall_release_fd_table_entries, from exit, kill and logout.
Exit(p) ==
  /\ p \in alive
  /\ alive' = alive \ {p}
  /\ table' = [table EXCEPT ![p] = [fd \in Fds |-> FREE]]
  /\ Release(EntriesOf(table[p]), refs, pending)

-----------------------------------------------------------------------------
(***************************************************************************)
(* Descriptors sent through unix sockets.                                  *)
(***************************************************************************)
IsSocket(p, fd, s) == p \in alive /\ table[p][fd] = <<"socket", s>>

\* sys_sendmsg with SCM_RIGHTS: copies of the sender's entries wait at the
\* peer, each with a reference.  At most one set waits at a socket.
SendRights(p, fd, rights) == \E s \in Sockets :
  LET entries == [i \in DOMAIN rights |-> table[p][rights[i]]] IN
  /\ IsSocket(p, fd, s)
  /\ FREE \notin Range(entries)
  /\ peer[s] # NoPeer /\ InUse(refs, <<"socket", peer[s]>>)
  /\ pending[peer[s]] = <<>>
  /\ pending' = [pending EXCEPT ![peer[s]] = entries]
  /\ refs' = Retained(refs, entries)
  /\ UNCHANGED <<alive, table, peer>>

\* The ancillary queue of a socket once its entries have been received.
QueueAfter(s) == <<>>

\* sys_recvmsg: the waiting entries move, with their references, to the first
\* free descriptors.
ReceiveRights(p, fd) == \E s \in Sockets :
  LET count == Len(pending[s])
      free == FreeFds(p, 0)
      rank(f) == Cardinality({g \in free : g <= f})
  IN
  /\ IsSocket(p, fd, s)
  /\ count > 0 /\ Cardinality(free) >= count
  /\ table' = [table EXCEPT ![p] = [f \in Fds |->
       IF f \in free /\ rank(f) <= count THEN pending[s][rank(f)] ELSE @[f]]]
  /\ pending' = [pending EXCEPT ![s] = QueueAfter(s)]
  /\ UNCHANGED <<alive, refs, peer>>

\* sys_recvmsg when the control buffer or the table is too small: the entries
\* are released (MSG_CTRUNC).
TruncateRights(p, fd) == \E s \in Sockets :
  /\ IsSocket(p, fd, s)
  /\ pending[s] # <<>>
  /\ Release(pending[s], refs, [pending EXCEPT ![s] = <<>>])
  /\ UNCHANGED <<alive, table>>

Rights == UNION {[1 .. n -> Fds] : n \in 1 .. SOCKET_ANCILLARY_FD_MAX}

Next ==
  \/ \E p \in Procs :
       \/ \E kind \in {"vnode", "eventfd", "socket"} : Open(p, kind)
       \/ OpenDevice(p) \/ Pipe(p) \/ SocketPair(p) \/ Exit(p)
       \/ \E c \in Procs : Fork(p, c)
       \/ \E fd \in Fds :
            \/ Dup(p, fd) \/ Close(p, fd)
            \/ \E newfd \in Fds : Dup2(p, fd, newfd)
            \/ \E rights \in Rights : SendRights(p, fd, rights)
            \/ ReceiveRights(p, fd) \/ TruncateRights(p, fd)

Spec == Init /\ [][Next]_vars

-----------------------------------------------------------------------------
(***************************************************************************)
(* Properties.                                                             *)
(***************************************************************************)
TypeOK ==
  /\ alive \subseteq Procs
  /\ table \in [Procs -> [Fds -> Entries \cup {FREE}]]
  /\ refs \in [Counted -> Nat]
  /\ peer \in [Sockets -> Sockets \cup {NoPeer}]
  /\ \A s \in Sockets : /\ pending[s] \in Seq(Entries)
                        /\ Len(pending[s]) <= SOCKET_ANCILLARY_FD_MAX

\* Every counter of a file handle, pipe end, eventfd or socket is exactly the
\* number of descriptors of all processes that name it plus the number of
\* times it waits in an ancillary queue: no object is cleared under a
\* descriptor, and none is kept by a forgotten reference.
RefsExact ==
  \A e \in Counted :
    refs[e] = Cardinality({x \in Procs \X Fds : table[x[1]][x[2]] = e})
              + Cardinality({x \in Sockets \X (1 .. SOCKET_ANCILLARY_FD_MAX) :
                               x[2] \in DOMAIN pending[x[1]] /\ pending[x[1]][x[2]] = e})

\* The end of a pipe is final: a pipe whose last writer is gone never has a
\* writer again before the reader sees the end and the pipe is cleared, and
\* the same for the last reader.
PipeEndFinal ==
  [][\A i \in 0 .. MAX_PIPE_OBJECTS - 1, side \in {"reader", "writer"} :
       (refs[<<side, i>>] = 0 /\ InUse(refs, <<side, i>>)) =>
         refs'[<<side, i>>] = 0]_vars
=============================================================================
