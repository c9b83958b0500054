------------------------------ MODULE Process ------------------------------
(***************************************************************************)
(* The process table: fork, clone, vfork, execve, exit, wait4, kill, pause, *)
(* resume, yield, timer preemption and the end of a desktop session        *)
(* (kernel/process.c, kernel/syscall/process_lifecycle.c, kernel/session.c, *)
(* the exec commit in kernel/syscall.c).                                   *)
(*                                                                         *)
(* One CPU; a system call runs to its end with interrupts disabled, so each *)
(* one is a step of the current process.  Only the timer interrupts user   *)
(* code.  Which READY process the scheduler picks is Scheduler.tla's       *)
(* subject; here it is any.                                                *)
(***************************************************************************)
EXTENDS Integers, FiniteSets

CONSTANTS
  Slots,        \* entries of process_list (MAX_PROCESSES)
  MaxPid,       \* bound: process ids handed out
  Spaces,       \* identities of P4 tables
  NoSpace,      \* a NULL p4_table
  CloneKinds,   \* the combinations of CLONE_VFORK and CLONE_THREAD programs use
  LoginUid,     \* 65534, the identity of the login screen
  UserUid       \* 1000, the identity of the desktop user

ASSUME MaxPidAssumption == MaxPid \in Nat \ {0}
ASSUME SlotsAssumption == IsFiniteSet(Slots) /\ Slots # {}
ASSUME SpacesAssumption == NoSpace \notin Spaces
ASSUME CloneKindsAssumption == CloneKinds \subseteq [vfork : BOOLEAN, thread : BOOLEAN]
ASSUME UidAssumption == LoginUid # UserUid

VARIABLES
  proc,         \* process_list
  current,      \* current_process
  next_pid,
  live,         \* the address spaces that have not been destroyed
  halted        \* the CPU is in halt_forever

vars == <<proc, current, next_pid, live, halted>>

Statuses == {"DEAD", "READY", "RUNNING", "WAITING", "ZOMBIE", "PAUSED"}
AnyPid == -1

ProcessT ==
  [status : Statuses, pid : 0..MaxPid, parent_pid : 0..MaxPid,
   thread_group_id : 0..MaxPid, is_thread : BOOLEAN,
   uid : {LoginUid, UserUid}, p4_table : Spaces \cup {NoSpace},
   wait_target_pid : {AnyPid} \cup 0..MaxPid,
   vfork_parent_pid : 0..MaxPid, vfork_child_pid : 0..MaxPid]

TypeOK ==
  /\ proc \in [Slots -> ProcessT]
  /\ current \in Slots
  /\ next_pid \in 1..(MaxPid + 1)
  /\ live \subseteq Spaces
  /\ halted \in BOOLEAN

\* A slot that was zeroed and given an identity; it waits for nobody yet.
Entry(status, pid, parent, group, thread, uid, space) ==
  [status |-> status, pid |-> pid, parent_pid |-> parent,
   thread_group_id |-> group, is_thread |-> thread, uid |-> uid,
   p4_table |-> space, wait_target_pid |-> AnyPid,
   vfork_parent_pid |-> 0, vfork_child_pid |-> 0]

\* A slot after memset and PROCESS_STATUS_DEAD.
Dead == Entry("DEAD", 0, 0, 0, FALSE, LoginUid, NoSpace)

\* init_process on an installed system: process 1 shows the login screen.
Init ==
  /\ current \in Slots
  /\ \E a \in Spaces :
       /\ live = {a}
       /\ proc = [s \in Slots |->
            IF s = current THEN Entry("RUNNING", 1, 0, 1, FALSE, LoginUid, a)
            ELSE Dead]
  /\ next_pid = 2
  /\ halted = FALSE

Ready(table) == {s \in Slots : table[s].status = "READY"}
\* Mutant of Alive: a zombie's slot counts as free.
AliveNotZombie(s) == proc[s].status \notin {"DEAD", "ZOMBIE"}

Alive(s) == proc[s].status # "DEAD"

\* wait_pid_matches
Matches(target, pid) == target = AnyPid \/ target = pid

\* Mutant of AfterRelease: other users of the space are not looked for.
AfterReleaseAlways(table, spaces, s, a) == spaces \ {a}

\* process_release_address_space: spaces left when slot s drops space a.
AfterRelease(table, spaces, s, a) ==
  IF \E o \in Slots \ {s} : table[o].status # "DEAD" /\ table[o].p4_table = a
  THEN spaces
  ELSE spaces \ {a}

\* process_complete_vfork: the table after child c stopped borrowing.
CompleteVfork(table, c) ==
  LET waiting(o) == /\ table[c].vfork_parent_pid # 0
                    /\ table[o].status # "DEAD"
                    /\ table[o].pid = table[c].vfork_parent_pid
                    /\ table[o].vfork_child_pid = table[c].pid
  IN  [o \in Slots |->
         IF o = c THEN [table[c] EXCEPT !.vfork_parent_pid = 0]
         ELSE IF waiting(o)
         THEN [table[o] EXCEPT !.vfork_child_pid = 0,
                !.status = IF @ = "WAITING" THEN "READY" ELSE @]
         ELSE table[o]]

\* switch_to_process: slot n of table gets the CPU.
SwitchTo(table, n) ==
  /\ proc' = [table EXCEPT ![n].status = "RUNNING"]
  /\ current' = n

Halt(table) ==
  /\ proc' = table
  /\ halted' = TRUE
  /\ UNCHANGED current

----------------------------------------------------------------------------
(* Creating processes *)

\* Mutant of TakePid: next_pid is not advanced.
TakePidAgain == next_pid <= MaxPid /\ UNCHANGED next_pid

\* next_pid++, before anything that can fail.
TakePid == next_pid <= MaxPid /\ next_pid' = next_pid + 1

\* sys_fork
Fork ==
  /\ ~halted /\ TakePid
  /\ \E s \in Slots, a \in Spaces \ live :
       /\ ~Alive(s)
       /\ live' = live \cup {a}
       /\ proc' = [proc EXCEPT ![s] =
            Entry("READY", next_pid, proc[current].pid, next_pid, FALSE,
                  proc[current].uid, a)]
  /\ UNCHANGED <<current, halted>>

\* sys_fork when vmm_copy_p4 runs out of memory: the pid is used up.
ForkFails ==
  /\ ~halted /\ TakePid
  /\ \E s \in Slots : ~Alive(s)
  /\ UNCHANGED <<proc, current, live, halted>>

\* sys_clone with CLONE_VM.
Clone(kind) ==
  LET me == proc[current] IN
  /\ ~halted /\ TakePid
  /\ \E s \in Slots :
       /\ ~Alive(s)
       /\ LET child == Entry("READY", next_pid,
                IF kind.thread THEN me.parent_pid ELSE me.pid,
                IF kind.thread THEN me.thread_group_id ELSE next_pid,
                kind.thread, me.uid, me.p4_table)
          IN IF kind.vfork
             THEN SwitchTo([proc EXCEPT
                    ![s] = [child EXCEPT !.vfork_parent_pid = me.pid],
                    ![current].vfork_child_pid = next_pid,
                    ![current].status = "WAITING"], s)
             ELSE proc' = [proc EXCEPT ![s] = child] /\ UNCHANGED current
  /\ UNCHANGED <<live, halted>>

\* exec_initrd_program once the new image is complete; also the exit of
\* process 1 when the shell can be started again.
Exec ==
  LET old == proc[current].p4_table IN
  /\ ~halted
  /\ \E a \in Spaces \ live :
       LET table == [proc EXCEPT ![current].p4_table = a] IN
       /\ live' = AfterRelease(table, live \cup {a}, current, old)
       /\ proc' = CompleteVfork(table, current)
  /\ UNCHANGED <<current, next_pid, halted>>

\* The exit of process 1 when the shell cannot be started again.
RelaunchFails ==
  /\ ~halted /\ proc[current].pid = 1
  /\ Halt(proc)
  /\ UNCHANGED <<next_pid, live>>

----------------------------------------------------------------------------
(* Ending processes *)

\* Mutant of Successors: only threads of the group are looked for.
GroupOnly(table, group) == {n \in Ready(table) : table[n].thread_group_id = group}

\* Who may get the CPU when a thread ends: a thread of its group, or else any
\* READY process.
Successors(table, group) ==
  LET threads == {n \in Ready(table) : table[n].thread_group_id = group}
  IN  IF threads # {} THEN threads ELSE Ready(table)

\* process_exit_and_wake_parent for a thread: the slot is free at once.
ExitThread ==
  LET me == proc[current]
      table == [CompleteVfork(proc, current) EXCEPT ![current] = Dead]
      successors == Successors(table, me.thread_group_id)
  IN
  /\ ~halted /\ me.is_thread
  /\ live' = AfterRelease(table, live, current, me.p4_table)
  /\ \/ successors = {} /\ Halt(table)
     \/ (\E n \in successors : SwitchTo(table, n)) /\ UNCHANGED halted
  /\ UNCHANGED next_pid

\* process_exit_and_wake_parent otherwise.  A parent waiting for this child
\* collects it; any other parent that is alive gets the CPU and a zombie to
\* collect; without one the machine halts.
ExitProcess ==
  LET me == proc[current]
      table == CompleteVfork(proc, current)
      parents == {p \in Slots : /\ table[p].status # "DEAD"
                                /\ table[p].pid = me.parent_pid}
      zombie == [table EXCEPT ![current].status = "ZOMBIE"]
      freed == [zombie EXCEPT ![current].p4_table = NoSpace]
  IN
  /\ ~halted /\ ~me.is_thread /\ me.pid # 1
  /\ \/ \E p \in parents :
          /\ table[p].status = "WAITING" /\ Matches(table[p].wait_target_pid, me.pid)
          /\ live' = AfterRelease(table, live, current, me.p4_table)
          /\ SwitchTo([table EXCEPT ![current] = Dead,
                                    ![p].wait_target_pid = AnyPid], p)
          /\ UNCHANGED halted
     \/ \E p \in parents :
          /\ table[p].status \notin {"DEAD", "ZOMBIE"}
          /\ ~(table[p].status = "WAITING" /\ Matches(table[p].wait_target_pid, me.pid))
          /\ live' = AfterRelease(freed, live, current, me.p4_table)
          /\ IF table[p].status \in {"READY", "WAITING"}
             THEN SwitchTo([freed EXCEPT ![p].wait_target_pid = AnyPid], p)
             ELSE proc' = freed /\ current' = p
          /\ UNCHANGED halted
     \/ /\ \A p \in parents : table[p].status = "ZOMBIE"
        /\ Halt(zombie)
        /\ UNCHANGED live
  /\ UNCHANGED next_pid

\* sys_wait4.  WNOHANG and the error returns change nothing.
Wait4(target) ==
  LET mine == {s \in Slots : /\ Alive(s)
                             /\ proc[s].parent_pid = proc[current].pid
                             /\ Matches(target, proc[s].pid)}
      zombies == {s \in mine : proc[s].status = "ZOMBIE"}
  IN
  /\ ~halted
  /\ \/ \E z \in zombies : proc' = [proc EXCEPT ![z] = Dead] /\ UNCHANGED current
     \/ /\ zombies = {}
        /\ \E n \in mine \cap Ready(proc) :
             SwitchTo([proc EXCEPT ![current].status = "WAITING",
                                   ![current].wait_target_pid = target], n)
  /\ UNCHANGED <<next_pid, live, halted>>

\* Mutants: sys_process_kill does not exclude the caller; nobody is woken.
KillableSelf(s) ==
  /\ proc[s].status \notin {"DEAD", "ZOMBIE"} /\ proc[s].pid # 1
  /\ proc[current].uid \in {proc[s].uid, UserUid}
NoWaiters(s) == {}

\* Whom sys_process_kill accepts.  A process of the user may have become root
\* through sudo, which lifts the ownership check.
Killable(s) ==
  /\ proc[s].status \notin {"DEAD", "ZOMBIE"} /\ proc[s].pid # 1
  /\ s # current
  /\ proc[current].uid \in {proc[s].uid, UserUid}

\* wake_parent_if_waiting: the parent, if it waits for s.
Waiters(s) ==
  {p \in Slots \ {s} : /\ proc[p].status = "WAITING"
                       /\ proc[p].pid = proc[s].parent_pid
                       /\ Matches(proc[p].wait_target_pid, proc[s].pid)}

\* sys_process_kill
Kill(s) ==
  LET zombie == [proc[s] EXCEPT !.status = "ZOMBIE", !.p4_table = NoSpace] IN
  /\ ~halted /\ Killable(s)
  /\ live' = AfterRelease(proc, live, s, proc[s].p4_table)
  /\ proc' = [o \in Slots |->
       IF o = s THEN (IF Waiters(s) # {} THEN Dead ELSE zombie)
       ELSE IF o \in Waiters(s)
       THEN [proc[o] EXCEPT !.status = "READY", !.wait_target_pid = AnyPid]
       ELSE proc[o]]
  /\ UNCHANGED <<current, next_pid, halted>>

----------------------------------------------------------------------------
(* Giving and taking the CPU *)

\* schedule and process_preempt_from_interrupt after the current process was
\* put back: the scheduler may also pick the current process again.
PickNext(table) ==
  /\ ~halted
  /\ IF Ready(table) = {} THEN SwitchTo(table, current)
     ELSE \E n \in Ready(table) : SwitchTo(table, n)
  /\ UNCHANGED <<next_pid, live, halted>>

\* sys_yield, FUTEX_WAIT, and a pipe or eventfd call that cannot proceed.
Yield ==
  PickNext([proc EXCEPT ![current].status = IF @ = "RUNNING" THEN "READY" ELSE @])

\* timer_handler while user code runs.
Preempt ==
  /\ proc[current].status = "RUNNING"
  /\ PickNext([proc EXCEPT ![current].status = "READY"])

\* sys_process_pause
Pause(s) ==
  /\ ~halted /\ proc[s].status = "READY" /\ proc[s].pid # 1 /\ s # current
  /\ proc' = [proc EXCEPT ![s].status = "PAUSED"]
  /\ UNCHANGED <<current, next_pid, live, halted>>

\* Mutant of Resumable: a waiting process is accepted.
ResumableAny(s) == proc[s].status \in {"PAUSED", "WAITING"}

Resumable(s) == proc[s].status = "PAUSED"

\* sys_process_resume
Resume(s) ==
  /\ ~halted /\ Resumable(s)
  /\ proc' = [proc EXCEPT ![s].status = "READY"]
  /\ UNCHANGED <<current, next_pid, live, halted>>

----------------------------------------------------------------------------
(* The desktop session; only process 1 gets past the checks of session.c *)

\* begin_user_session
Login ==
  /\ ~halted /\ proc[current].pid = 1 /\ proc[current].uid = LoginUid
  /\ proc' = [proc EXCEPT ![current].uid = UserUid]
  /\ UNCHANGED <<current, next_pid, live, halted>>

\* Mutant of Victims: only children of process 1 are ended.
ChildrenOnly ==
  {s \in Slots \ {current} : Alive(s) /\ proc[s].uid = UserUid /\ proc[s].parent_pid = 1}

\* syscall_terminate_uid_processes
Victims == {s \in Slots \ {current} : Alive(s) /\ proc[s].uid = UserUid}

\* session_logout
Logout ==
  LET table == [s \in Slots |-> IF s \in Victims THEN Dead ELSE proc[s]]
      kept == {table[s].p4_table : s \in Slots}
  IN
  /\ ~halted /\ proc[current].pid = 1 /\ proc[current].uid = UserUid
  /\ live' = live \ ({proc[s].p4_table : s \in Victims} \ kept)
  /\ proc' = [table EXCEPT ![current].uid = LoginUid]
  /\ UNCHANGED <<current, next_pid, halted>>

----------------------------------------------------------------------------

Next ==
  \/ Fork \/ ForkFails \/ Exec \/ RelaunchFails \/ ExitThread \/ ExitProcess
  \/ \E kind \in CloneKinds : Clone(kind)
  \/ \E target \in {AnyPid} \cup 1..MaxPid : Wait4(target)
  \/ \E s \in Slots : Kill(s) \/ Pause(s) \/ Resume(s)
  \/ Yield \/ Preempt
  \/ Login \/ Logout

Spec == Init /\ [][Next]_vars

----------------------------------------------------------------------------
(* Properties *)

Live(s) == proc[s].status \notin {"DEAD", "ZOMBIE"}

\* The CPU executes a process that may execute: no sequence of exits, kills,
\* waits, vforks and logouts leaves current_process pointing to a slot that is
\* free, a zombie or blocked; and no other slot claims to be RUNNING.
CurrentMayRun ==
  /\ ~halted => proc[current].status \in {"RUNNING", "READY", "PAUSED"}
  /\ \A s \in Slots : proc[s].status = "RUNNING" => s = current

\* An address space is destroyed when, and only when, the last process using it
\* lets go of it: threads and vfork children that share the space never run on
\* freed page tables, and none is forgotten.
SpacesAccounted ==
  /\ \A s \in Slots : Live(s) => proc[s].p4_table \in live
  /\ \A a \in live : \E s \in Slots : Alive(s) /\ proc[s].p4_table = a

\* A pid names one process, and process 1 is always there to collect others.
PidsUnique ==
  /\ \A s, r \in Slots : Alive(s) /\ Alive(r) /\ proc[s].pid = proc[r].pid => s = r
  /\ \E s \in Slots : Live(s) /\ proc[s].pid = 1

\* No lost wakeup: a process in wait4 or vfork has a child that is still alive
\* and whose end will wake it.  Programs without CLONE_THREAD; and not a vfork
\* parent whose wait_target_pid an earlier wait4 left behind, since a kill of
\* the vfork child does not reach it.
WaiterHasChild ==
  \A p \in Slots :
    (/\ proc[p].status = "WAITING"
     /\ proc[p].vfork_child_pid = 0 \/ proc[p].wait_target_pid = AnyPid) =>
    \E c \in Slots : /\ Live(c) /\ proc[c].parent_pid = proc[p].pid
                     /\ Matches(proc[p].wait_target_pid, proc[c].pid)

\* Outside a user session no process of the user is left: logout ends all of
\* them, and whatever the login screen starts does not become the user's.
NoUserProcessAtLogin ==
  (\E s \in Slots : proc[s].pid = 1 /\ proc[s].uid = LoginUid) =>
    \A s \in Slots : Alive(s) => proc[s].uid = LoginUid

\* The machine halts only when a process ends that has no parent left, when a
\* thread ends and nothing else can run, or when process 1 itself ends and the
\* shell cannot be started again, whoever else could run: nobody else's exit
\* stops it while a successor is there.
HaltsOnlyWithoutSuccessor ==
  halted =>
    \/ proc[current].status = "DEAD" /\ Ready(proc) = {}
    \/ /\ proc[current].status = "ZOMBIE"
       /\ ~\E p \in Slots : Live(p) /\ proc[p].pid = proc[current].parent_pid
    \/ Live(current) /\ proc[current].pid = 1

\* A zombie keeps its slot until its parent collects it or the session ends.
ZombieKeptForParent ==
  [][\A s \in Slots :
       /\ proc[s].status = "ZOMBIE"
       /\ proc'[s].status # "ZOMBIE" \/ proc'[s].pid # proc[s].pid
       =>
         \/ proc[current].pid = proc[s].parent_pid /\ proc'[s] = Dead
         \/ Logout]_vars

\* A vfork parent stays suspended until its child executes a program or ends,
\* or another child of the parent ends (which wakes it as if it were in wait4).
VforkParentSuspended ==
  [][\A p, c \in Slots :
       (/\ proc[p].status = "WAITING" /\ Live(c)
        /\ proc[c].vfork_parent_pid = proc[p].pid
        /\ proc[p].vfork_child_pid = proc[c].pid
        /\ proc'[p].status # "WAITING") =>
         \/ proc'[c].vfork_parent_pid = 0
         \/ proc'[p].status \in {"DEAD", "ZOMBIE"}
         \/ \E o \in Slots \ {c} :
              /\ Live(o) /\ proc[o].parent_pid = proc[p].pid
              /\ proc'[o].status \in {"DEAD", "ZOMBIE"}]_vars
=============================================================================
