-------------------------------- MODULE Pipe --------------------------------
(***************************************************************************)
(* Reading and writing a pipe (kernel/syscall/fs.c, terminal_io.c), with   *)
(* the way a call blocks: there is no wait queue.  A call that cannot      *)
(* proceed moves the return address back over its own syscall instruction  *)
(* and calls schedule.  If another process is READY it runs, and the       *)
(* caller issues the same call again when its turn comes.  If schedule     *)
(* selects the caller itself, the call goes on: it transfers nothing and   *)
(* returns 0, in the register that holds the number of the call that is    *)
(* issued again.  Number 0 is read.                                        *)
(***************************************************************************)
EXTENDS Integers, Sequences, FiniteSets

CONSTANTS Procs, Values,
          Size,    \* bytes of the ring
          MaxLen   \* bound: bytes asked for in one call

ASSUME SizeAssumption == Size \in Nat \ {0} /\ MaxLen \in Nat
ASSUME ValuesAssumption == Values # {}

NoCall == [nr |-> "none"]

\* A system call about to be issued: its number, the descriptor and its
\* argument, the number of bytes to read or the bytes to write.
ReadCalls == [nr : {"read"}, end : {"reader"}, arg : 0 .. MaxLen]
Data == UNION {[1 .. n -> Values] : n \in 0 .. MaxLen}
WriteCalls == [nr : {"write"}, end : {"writer"}, arg : Data]
\* What a write becomes that is issued again under number 0.
Misnamed == [nr |-> "read", end |-> "writer"]

VARIABLES
  buffer, read_pos, write_pos, size,  \* struct pipe_object
  readers, writers,  \* processes with an end (read_refs, write_refs)
  status, current,   \* the scheduler
  call,              \* the call each process is about to issue
  answer             \* what its last call returned

ring == <<buffer, read_pos, write_pos, size>>
ends == <<readers, writers>>
vars == <<ring, ends, status, current, call, answer>>

TypeOK ==
  /\ buffer \in [0 .. Size - 1 -> Values]
  /\ read_pos \in 0 .. Size - 1 /\ write_pos \in 0 .. Size - 1 /\ size \in 0 .. Size
  /\ readers \subseteq Procs /\ writers \subseteq Procs
  /\ status \in [Procs -> {"RUNNING", "READY", "PAUSED"}] /\ current \in Procs
  /\ call \in [Procs -> {NoCall} \cup ReadCalls \cup WriteCalls \cup {Misnamed}]
  /\ answer \in [Procs -> {"none", "bytes", "nothing", "end", "EBADF"}]

Blank == CHOOSE v \in Values : TRUE

Init ==
  /\ buffer = [i \in 0 .. Size - 1 |-> Blank]
  /\ read_pos = 0 /\ write_pos = 0 /\ size = 0
  /\ readers = {} /\ writers = {}
  /\ current \in Procs
  /\ status = [p \in Procs |-> IF p = current THEN "RUNNING" ELSE "READY"]
  /\ call = [p \in Procs |-> NoCall]
  /\ answer = [p \in Procs |-> "none"]

-----------------------------------------------------------------------------
(***************************************************************************)
(* Blocking.                                                               *)
(***************************************************************************)
Others == {q \in Procs \ {current} : status[q] = "READY"}

\* Mutant of StatusAfterSwitch: a process that blocks leaves the run queue, and
\* nobody wakes it.
StatusAfterSwitchAsleep(q) == [status EXCEPT ![current] = "ASLEEP", ![q] = "RUNNING"]

StatusAfterSwitch(q) == [status EXCEPT ![current] = "READY", ![q] = "RUNNING"]

\* schedule finds another process: the caller will issue the call again.
BlockAndSwitch ==
  /\ \E q \in Others : current' = q /\ status' = StatusAfterSwitch(q)
  /\ UNCHANGED <<ring, ends, call, answer>>

\* schedule comes back to the caller: no other process is READY, or thermal
\* throttling skips those that are (module Scheduler), which is left open here.
\* 0 is returned to the syscall instruction.
BlockAlone ==
  /\ call' = [call EXCEPT ![current] = IF @ \in WriteCalls THEN Misnamed ELSE @]
  /\ UNCHANGED <<ring, ends, status, current, answer>>

-----------------------------------------------------------------------------
(***************************************************************************)
(* The calls.                                                              *)
(***************************************************************************)
\* The smaller of two numbers: how far a copy loop runs.
Least(a, b) == IF a <= b THEN a ELSE b

\* The call is over.
Return(value) ==
  /\ call' = [call EXCEPT ![current] = NoCall]
  /\ answer' = [answer EXCEPT ![current] = value]
  /\ UNCHANGED <<ends, status, current>>

\* User code prepares a call on an end it holds.
Issue(c) ==
  /\ call[current] = NoCall
  /\ current \in (IF c.end = "reader" THEN readers ELSE writers)
  /\ call' = [call EXCEPT ![current] = c]
  /\ UNCHANGED <<ring, ends, status, current, answer>>

\* Mutant of MustWaitToRead: an empty pipe is always the end.
MustWaitToReadNever == FALSE

MustWaitToRead == size = 0 /\ writers # {}

\* sys_read on an empty pipe that has writers.
ReadBlocks ==
  /\ call[current] \in ReadCalls /\ MustWaitToRead
  /\ BlockAndSwitch \/ BlockAlone

\* sys_read: bytes leave the ring one by one.
Read ==
  /\ call[current] \in ReadCalls /\ ~MustWaitToRead
  /\ LET n == Least(call[current].arg, size) IN
     /\ read_pos' = (read_pos + n) % Size
     /\ size' = size - n
     /\ UNCHANGED <<buffer, write_pos>>
     /\ Return(IF n > 0 THEN "bytes" ELSE IF call[current].arg = 0 THEN "nothing" ELSE "end")

\* sys_write on a full pipe that has readers.
WriteBlocks ==
  /\ call[current] \in WriteCalls
  /\ size = Size /\ readers # {}
  /\ BlockAndSwitch \/ BlockAlone

\* How many bytes of a write the ring takes.
RoomFor(data) == Least(Len(data), Size - size)

\* sys_write: what fits is appended, also when nobody can read it.
Write ==
  /\ call[current] \in WriteCalls
  /\ size < Size \/ readers = {}
  /\ LET data == call[current].arg
         n == RoomFor(data)
         at(i) == ((i - write_pos) % Size) + 1
     IN
     /\ buffer' = [i \in 0 .. Size - 1 |-> IF at(i) <= n THEN data[at(i)] ELSE buffer[i]]
     /\ write_pos' = (write_pos + n) % Size
     /\ size' = size + n
     /\ UNCHANGED read_pos
     /\ Return(IF n > 0 THEN "bytes" ELSE "nothing")

\* A write issued again as number 0: sys_read refuses the end to write to.
ReadOfWriter ==
  /\ call[current] = Misnamed
  /\ UNCHANGED ring
  /\ Return("EBADF")

-----------------------------------------------------------------------------
(***************************************************************************)
(* The ends, and the other processes.                                      *)
(***************************************************************************)
\* sys_pipe
Create ==
  /\ call[current] = NoCall /\ readers = {} /\ writers = {}
  /\ readers' = {current} /\ writers' = {current}
  /\ UNCHANGED <<ring, status, current, call, answer>>

\* The ends are now held by rs and ws: release_pipe_ref clears the pipe with the
\* last one.
Hold(rs, ws) ==
  /\ readers' = rs /\ writers' = ws
  /\ IF rs = {} /\ ws = {}
     THEN /\ buffer' = [i \in 0 .. Size - 1 |-> Blank]
          /\ read_pos' = 0 /\ write_pos' = 0 /\ size' = 0
     ELSE UNCHANGED ring

\* sys_close of one end.
Close(end) ==
  /\ call[current] = NoCall
  /\ current \in (IF end = "reader" THEN readers ELSE writers)
  /\ IF end = "reader" THEN Hold(readers \ {current}, writers)
                       ELSE Hold(readers, writers \ {current})
  /\ UNCHANGED <<status, current, call, answer>>

\* sys_fork: process q, which has nothing to do with the pipe, is replaced by a
\* copy of the current one.
Fork(q) ==
  /\ call[current] = NoCall /\ call[q] = NoCall
  /\ q \notin readers \cup writers \cup {current}
  /\ readers' = IF current \in readers THEN readers \cup {q} ELSE readers
  /\ writers' = IF current \in writers THEN writers \cup {q} ELSE writers
  /\ answer' = [answer EXCEPT ![q] = "none"]
  /\ status' = [status EXCEPT ![q] = "READY"]
  /\ UNCHANGED <<ring, current, call>>

\* A process is killed, perhaps in the middle of a blocked call, and its slot
\* goes to a process without ends.
Kill(q) ==
  /\ call[current] = NoCall /\ q # current /\ q \in readers \cup writers
  /\ Hold(readers \ {q}, writers \ {q})
  /\ call' = [call EXCEPT ![q] = NoCall]
  /\ answer' = [answer EXCEPT ![q] = "none"]
  /\ UNCHANGED <<status, current>>

\* sys_process_pause and sys_process_resume
Pause(q) ==
  /\ call[current] = NoCall
  /\ q # current /\ status[q] \in {"READY", "PAUSED"}
  /\ status' = [status EXCEPT ![q] = IF @ = "READY" THEN "PAUSED" ELSE "READY"]
  /\ UNCHANGED <<ring, ends, current, call, answer>>

\* The timer takes the CPU from user code, before the syscall instruction too.
Preempt(q) ==
  /\ q \in Others
  /\ current' = q /\ status' = [status EXCEPT ![current] = "READY", ![q] = "RUNNING"]
  /\ UNCHANGED <<ring, ends, call, answer>>

Execute == Read \/ ReadBlocks \/ Write \/ WriteBlocks \/ ReadOfWriter

Next ==
  \/ Execute \/ Create
  \/ \E c \in ReadCalls \cup WriteCalls : Issue(c)
  \/ \E end \in {"reader", "writer"} : Close(end)
  \/ \E q \in Procs : Fork(q) \/ Kill(q) \/ Pause(q) \/ Preempt(q)

Spec == Init /\ [][Next]_vars

\* A process that has the CPU again and again reaches its syscall instruction: a
\* time slice is longer than that.  That it gets the CPU is not assumed here.
Fairness == \A p \in Procs : SF_vars(current = p /\ Execute)

FairSpec == Spec /\ Fairness

-----------------------------------------------------------------------------
(***************************************************************************)
(* Properties.                                                             *)
(***************************************************************************)
\* The bytes in the ring, oldest first.
Contents == [i \in 1 .. size |-> buffer[(read_pos + i - 1) % Size]]

\* The bytes each process is asking to write, and who was told the end.
Offered == [p \in Procs |-> IF call[p] \in WriteCalls THEN call[p].arg ELSE <<>>]
Told == {p \in Procs : answer[p] = "end"}

Stream == INSTANCE ByteStream WITH
            Capacity <- Size, queue <- Contents, offered <- Offered, told <- Told

\* The ring with its restarted calls is a byte stream: what a write offered is
\* appended from its first byte and leaves in order, across the wrap of the
\* positions and however often the call was restarted, and a reader never takes
\* an empty pipe for its end, although sys_read returns 0 when it finds nothing to switch to.
ImplementsByteStream == Stream!Spec

\* A call that the pipe could answer.
Answerable(p) ==
  \/ call[p] \in ReadCalls /\ (size > 0 \/ writers = {})
  \/ call[p] \in WriteCalls /\ (size < Size \/ readers = {})

\* The scheduler serves p: if p is READY again and again it gets the CPU again
\* and again.  The kernel does not promise it, since a process in tty_read keeps
\* the CPU until a key is pressed; Scheduler!ReadyRuns says when it holds.
Served(p) == []<>(status[p] = "READY") => []<>(current = p)

\* Blocking by restart loses no wake-up: a process that is not paused, and that
\* the scheduler serves, is never stuck in a call the pipe could answer, be it
\* that bytes or room came or that the last process at the other end is gone.  So
\* a blocked call needs nothing but its turn: a blocked process stays READY.
CallsAnswered ==
  \A p \in Procs : Served(p) => []<>~(Answerable(p) /\ status[p] # "PAUSED")
=============================================================================
