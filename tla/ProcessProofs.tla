--------------------------- MODULE ProcessProofs ---------------------------
(***************************************************************************)
(* Proofs about Process: for any size of the process table, any number of   *)
(* pids and any mix of fork, vfork and threads, the CPU stays with a process *)
(* that may run, address spaces live exactly as long as they are used, pids  *)
(* are unique, logout leaves nothing of the user behind, and the machine     *)
(* stops only when nobody is left to run or the shell cannot be restarted.    *)
(*                                                                         *)
(* None of these is inductive alone.  That the caller of wait4 or exit never *)
(* hands the CPU to itself as its own parent rests on pids growing from      *)
(* parent to child; that collecting a zombie frees no space rests on zombies *)
(* having let go of theirs.  IInv puts them together.                        *)
(***************************************************************************)
EXTENDS Process, TLAPS

\* Pids are handed out in increasing order, and a parent is older than its
\* child; process 1 is no thread.
Numbered ==
  /\ next_pid >= 2
  /\ \A s \in Slots : Alive(s) =>
       /\ 1 <= proc[s].pid /\ proc[s].pid < next_pid
       /\ proc[s].parent_pid < proc[s].pid
       /\ proc[s].pid = 1 => ~proc[s].is_thread

\* A free slot is cleared, and a zombie has let go of its space.
Cleared ==
  \A s \in Slots :
    /\ ~Alive(s) => proc[s].pid = 0 /\ proc[s].p4_table = NoSpace
    /\ proc[s].status = "ZOMBIE" /\ ~halted => proc[s].p4_table = NoSpace

\* The inductive invariant.
IInv ==
  /\ TypeOK /\ Numbered /\ Cleared
  /\ PidsUnique /\ CurrentMayRun /\ SpacesAccounted /\ NoUserProcessAtLogin

USE MaxPidAssumption, SpacesAssumption, UidAssumption

\* A step leaves the identity of the process in slot s alone; it may still
\* block, wake or schedule it.
SameProcess(s) ==
  /\ proc'[s].pid = proc[s].pid
  /\ proc'[s].parent_pid = proc[s].parent_pid
  /\ proc'[s].is_thread = proc[s].is_thread
  /\ proc'[s].uid = proc[s].uid
  /\ proc'[s].p4_table = proc[s].p4_table
  /\ proc'[s].status = "DEAD" <=> proc[s].status = "DEAD"
  /\ proc'[s].status = "ZOMBIE" <=> proc[s].status = "ZOMBIE"

\* A cleared slot is well typed.
LEMMA DeadTyped == Dead \in ProcessT
BY DEF Dead, Entry, ProcessT, Statuses, AnyPid

\* Pids are integers.
LEMMA IntPids ==
  TypeOK => /\ next_pid \in Int
            /\ \A s \in Slots : proc[s].pid \in Int /\ proc[s].parent_pid \in Int
BY DEF TypeOK, ProcessT

\* init_process establishes the invariant.
LEMMA ProcInit == Init => IInv
<1> SUFFICES ASSUME Init PROVE IInv
  OBVIOUS
<1>1. PICK a \in Spaces :
        /\ live = {a}
        /\ proc = [s \in Slots |->
             IF s = current THEN Entry("RUNNING", 1, 0, 1, FALSE, LoginUid, a)
             ELSE Dead]
  BY Zenon DEF Init
<1>2. current \in Slots /\ next_pid = 2 /\ halted = FALSE
  BY DEF Init
<1>3. TypeOK
  <2>1. Entry("RUNNING", 1, 0, 1, FALSE, LoginUid, a) \in ProcessT
    BY DEF Entry, ProcessT, Statuses, AnyPid
  <2>2. proc \in [Slots -> ProcessT]
    BY Zenon, <1>1, <2>1, DeadTyped
  <2>3. next_pid \in 1..(MaxPid + 1) /\ live \subseteq Spaces
    BY <1>1, <1>2
  <2> QED
    BY <1>2, <2>2, <2>3, Zenon DEF TypeOK
<1>4. \A s \in Slots :
        IF s = current
        THEN /\ proc[s].status = "RUNNING" /\ proc[s].pid = 1 /\ proc[s].parent_pid = 0
             /\ proc[s].is_thread = FALSE
             /\ proc[s].uid = LoginUid /\ proc[s].p4_table = a
        ELSE proc[s].status = "DEAD" /\ proc[s].pid = 0 /\ proc[s].p4_table = NoSpace
  BY <1>1, <1>2 DEF Dead, Entry
<1>5. Numbered
  BY <1>2, <1>4 DEF Numbered, Alive
<1>6. Cleared
  BY <1>2, <1>4 DEF Cleared, Alive
<1>7. PidsUnique /\ CurrentMayRun
  BY <1>2, <1>4 DEF PidsUnique, CurrentMayRun, Alive, Live
<1>8. SpacesAccounted /\ NoUserProcessAtLogin
  BY <1>1, <1>2, <1>4 DEF SpacesAccounted, NoUserProcessAtLogin, Alive, Live
<1> QED
  BY <1>3, <1>5, <1>6, <1>7, <1>8 DEF IInv

\* Steps that only block, wake or schedule processes.
LEMMA StatusStep ==
  ASSUME IInv, TypeOK', CurrentMayRun', ~halted, halted' = halted,
         next_pid' = next_pid \/ next_pid' = next_pid + 1, live' = live,
         \A s \in Slots : SameProcess(s)
  PROVE  IInv'
<1>1. Numbered'
  BY IntPids DEF IInv, Numbered, Alive, SameProcess
<1>2. Cleared'
  BY DEF IInv, Cleared, Alive, SameProcess
<1>3. PidsUnique'
  BY DEF IInv, PidsUnique, Alive, Live, SameProcess
<1>4. SpacesAccounted'
  BY DEF IInv, SpacesAccounted, Alive, Live, SameProcess
<1>5. NoUserProcessAtLogin'
  BY DEF IInv, NoUserProcessAtLogin, Alive, SameProcess
<1> QED
  BY <1>1, <1>2, <1>3, <1>4, <1>5 DEF IInv

\* Steps that put a new process into the free slot s.
LEMMA CreationStep ==
  ASSUME IInv, TypeOK', CurrentMayRun', ~halted, halted' = halted,
         next_pid' = next_pid + 1,
         NEW s \in Slots, ~Alive(s),
         proc'[s].status \in {"READY", "RUNNING"}, proc'[s].pid = next_pid,
         proc'[s].parent_pid \in {proc[current].pid, proc[current].parent_pid},
         proc'[s].uid = proc[current].uid, proc'[s].p4_table \in live',
         live \subseteq live', live' \subseteq live \cup {proc'[s].p4_table},
         \A o \in Slots \ {s} : SameProcess(o)
  PROVE  IInv'
<1>1. TypeOK /\ Numbered /\ current \in Slots /\ Alive(current) /\ s # current
  BY DEF IInv, TypeOK, CurrentMayRun, Alive
<1>2. next_pid >= 2 /\ proc[current].pid < next_pid
      /\ proc[current].parent_pid < next_pid
  BY <1>1, IntPids DEF Numbered
<1>3. Numbered'
  BY <1>1, <1>2, IntPids DEF Numbered, Alive, SameProcess
<1>4. Cleared'
  BY DEF IInv, Cleared, Alive, SameProcess
<1>5. PidsUnique'
  BY <1>1, IntPids DEF IInv, PidsUnique, Numbered, Alive, Live, SameProcess
<1>6. SpacesAccounted'
  BY DEF IInv, SpacesAccounted, Alive, Live, SameProcess
<1>7. NoUserProcessAtLogin'
  BY <1>1, <1>2 DEF IInv, NoUserProcessAtLogin, Alive, SameProcess
<1> QED
  BY <1>3, <1>4, <1>5, <1>6, <1>7 DEF IInv

\* Steps that end the process in slot c, which is collected at once or left as
\* a zombie.
LEMMA RemovalStep ==
  ASSUME IInv, TypeOK', CurrentMayRun', ~halted, halted' \in BOOLEAN,
         next_pid' = next_pid,
         NEW c \in Slots, Live(c), proc[c].pid # 1,
         \/ proc'[c] = Dead
         \/ /\ proc'[c].status = "ZOMBIE" /\ proc'[c].pid = proc[c].pid
            /\ proc'[c].parent_pid = proc[c].parent_pid
            /\ proc'[c].uid = proc[c].uid /\ proc'[c].p4_table = NoSpace,
         \A o \in Slots \ {c} : SameProcess(o),
         live' = AfterRelease(proc, live, c, proc[c].p4_table)
  PROVE  IInv'
<1>1. TypeOK /\ Numbered /\ current \in Slots /\ Alive(c)
  BY DEF IInv, TypeOK, Live, Alive
<1>2. /\ proc'[c].status \in {"DEAD", "ZOMBIE"} /\ proc'[c].p4_table = NoSpace
      /\ proc'[c].status = "DEAD" => proc'[c].pid = 0
      /\ proc'[c].status # "DEAD" =>
           /\ proc'[c].pid = proc[c].pid /\ proc'[c].parent_pid = proc[c].parent_pid
           /\ proc'[c].uid = proc[c].uid
  BY DEF Dead, Entry
<1>3. Numbered'
  BY <1>1, <1>2, IntPids DEF Numbered, Alive, SameProcess
<1>4. Cleared'
  BY <1>2 DEF IInv, Cleared, Alive, SameProcess
<1>5. PidsUnique'
  BY <1>1, <1>2 DEF IInv, PidsUnique, Alive, Live, SameProcess
<1>6. SpacesAccounted'
  BY <1>1, <1>2 DEF IInv, SpacesAccounted, AfterRelease, TypeOK, Alive, Live, SameProcess
<1>7. NoUserProcessAtLogin'
  BY <1>1, <1>2 DEF IInv, NoUserProcessAtLogin, Alive, SameProcess
<1> QED
  BY <1>3, <1>4, <1>5, <1>6, <1>7 DEF IInv

----------------------------------------------------------------------------
(* Each action preserves the invariant *)

\* sys_fork.
LEMMA ForkStep == IInv /\ Fork => IInv'
<1> SUFFICES ASSUME IInv, Fork PROVE IInv'
  OBVIOUS
<1> DEFINE child(a) == Entry("READY", next_pid, proc[current].pid, next_pid, FALSE,
                             proc[current].uid, a)
<1>1. PICK s \in Slots, a \in Spaces \ live :
        ~Alive(s) /\ live' = live \cup {a} /\ proc' = [proc EXCEPT ![s] = child(a)]
  BY Zenon DEF Fork
<1>2. /\ ~halted /\ halted' = halted /\ current' = current
      /\ next_pid <= MaxPid /\ next_pid' = next_pid + 1
  BY DEF Fork, TakePid
<1>3. TypeOK /\ CurrentMayRun /\ s # current
  BY <1>1, <1>2 DEF IInv, CurrentMayRun, Alive
<1>4. TypeOK'
  <2>1. proc[current] \in ProcessT /\ next_pid \in 0..MaxPid
    BY <1>2, <1>3 DEF TypeOK
  <2>2. child(a) \in ProcessT
    BY <2>1 DEF Entry, ProcessT, Statuses, AnyPid
  <2> HIDE DEF child
  <2>3. proc' \in [Slots -> ProcessT]
    BY <1>1, <1>3, <2>2 DEF TypeOK
  <2> QED
    BY <1>1, <1>2, <1>3, <2>3 DEF TypeOK
<1>5. proc'[s] = child(a) /\ \A o \in Slots \ {s} : proc'[o] = proc[o]
  BY <1>1, <1>3 DEF TypeOK
<1>6. /\ proc'[s].status = "READY" /\ proc'[s].pid = next_pid
      /\ proc'[s].parent_pid = proc[current].pid
      /\ proc'[s].uid = proc[current].uid /\ proc'[s].p4_table = a
  BY <1>5 DEF Entry
<1>7. CurrentMayRun'
  BY Zenon, <1>2, <1>3, <1>5, <1>6 DEF TypeOK, CurrentMayRun
<1>8. \A o \in Slots \ {s} : SameProcess(o)
  BY <1>5 DEF SameProcess
<1> HIDE DEF child
<1>9. /\ proc'[s].status \in {"READY", "RUNNING"}
      /\ proc'[s].parent_pid \in {proc[current].pid, proc[current].parent_pid}
      /\ proc'[s].p4_table \in live'
      /\ live \subseteq live' /\ live' \subseteq live \cup {proc'[s].p4_table}
  BY <1>1, <1>6
<1> QED
  BY <1>1, <1>2, <1>4, <1>6, <1>7, <1>8, <1>9, CreationStep

\* sys_fork without memory.
LEMMA ForkFailsStep == IInv /\ ForkFails => IInv'
<1> SUFFICES ASSUME IInv, ForkFails PROVE IInv'
  OBVIOUS
<1>1. /\ UNCHANGED <<proc, current, live, halted>> /\ ~halted
      /\ next_pid <= MaxPid /\ next_pid' = next_pid + 1
  BY DEF ForkFails, TakePid
<1>2. TypeOK'
  BY <1>1 DEF IInv, TypeOK
<1>3. CurrentMayRun'
  BY <1>1 DEF IInv, CurrentMayRun
<1>4. \A o \in Slots : SameProcess(o)
  BY <1>1 DEF SameProcess
<1> QED
  BY <1>1, <1>2, <1>3, <1>4, StatusStep

\* The exit of process 1 without a shell to start.
LEMMA RelaunchFailsStep == IInv /\ RelaunchFails => IInv'
<1> SUFFICES ASSUME IInv, RelaunchFails PROVE IInv'
  OBVIOUS
<1>1. UNCHANGED <<proc, current, live, next_pid>> /\ ~halted /\ halted' = TRUE
  BY DEF RelaunchFails, Halt
<1>2. TypeOK'
  BY <1>1 DEF IInv, TypeOK
<1>3. CurrentMayRun'
  BY <1>1 DEF IInv, CurrentMayRun
<1>4. Numbered' /\ Cleared'
  BY Zenon, <1>1 DEF IInv, Numbered, Cleared, Alive
<1>5. PidsUnique' /\ SpacesAccounted' /\ NoUserProcessAtLogin'
  BY Zenon, <1>1 DEF IInv, PidsUnique, SpacesAccounted, NoUserProcessAtLogin, Alive, Live
<1> QED
  BY <1>2, <1>3, <1>4, <1>5 DEF IInv

\* sys_clone, with and without CLONE_VFORK and CLONE_THREAD.
LEMMA CloneStep ==
  ASSUME IInv, NEW kind \in CloneKinds, Clone(kind)
  PROVE  IInv'
<1> DEFINE me == proc[current]
           child == Entry("READY", next_pid,
                IF kind.thread THEN me.parent_pid ELSE me.pid,
                IF kind.thread THEN me.thread_group_id ELSE next_pid,
                kind.thread, me.uid, me.p4_table)
           borrower == [child EXCEPT !.vfork_parent_pid = me.pid]
           lender == [me EXCEPT !.vfork_child_pid = next_pid]
           blocked == [lender EXCEPT !.status = "WAITING"]
<1>1. PICK s \in Slots :
        /\ ~Alive(s)
        /\ IF kind.vfork
           THEN SwitchTo([proc EXCEPT ![s] = borrower,
                    ![current].vfork_child_pid = next_pid,
                    ![current].status = "WAITING"], s)
           ELSE proc' = [proc EXCEPT ![s] = child] /\ UNCHANGED current
  BY Zenon DEF Clone
<1>2. /\ ~halted /\ halted' = halted /\ live' = live
      /\ next_pid <= MaxPid /\ next_pid' = next_pid + 1
  BY Zenon DEF Clone, TakePid
<1>3. TypeOK /\ CurrentMayRun /\ current \in Slots /\ s # current
  BY <1>1, <1>2 DEF IInv, TypeOK, CurrentMayRun, Alive
<1>4. me \in ProcessT /\ next_pid \in 0..MaxPid /\ kind.thread \in BOOLEAN
  BY <1>2, <1>3, CloneKindsAssumption DEF TypeOK
<1>5. child \in ProcessT
  BY <1>4 DEF Entry, ProcessT, Statuses, AnyPid
<1>6. /\ child.status = "READY" /\ child.pid = next_pid
      /\ child.parent_pid \in {me.pid, me.parent_pid}
      /\ child.uid = me.uid /\ child.p4_table = me.p4_table
  BY DEF Entry
<1> HIDE DEF child
<1>7. me.p4_table \in live
  BY <1>2, <1>3 DEF IInv, SpacesAccounted, CurrentMayRun, Live
<1>8. CASE kind.vfork
  <2>1. /\ proc' = [[proc EXCEPT ![s] = borrower,
                    ![current].vfork_child_pid = next_pid,
                    ![current].status = "WAITING"] EXCEPT ![s].status = "RUNNING"]
        /\ current' = s
    BY Zenon, <1>1, <1>8 DEF SwitchTo
  <2>2. proc' = [o \in Slots |-> IF o = s THEN [borrower EXCEPT !.status = "RUNNING"]
                                 ELSE IF o = current THEN blocked ELSE proc[o]]
    BY Zenon, <2>1, <1>3 DEF TypeOK
  <2>3. /\ borrower \in ProcessT /\ borrower.pid = child.pid
        /\ borrower.parent_pid = child.parent_pid /\ borrower.uid = child.uid
        /\ borrower.p4_table = child.p4_table
    BY <1>4, <1>5 DEF ProcessT
  <2>4. /\ lender \in ProcessT /\ lender.pid = me.pid
        /\ lender.parent_pid = me.parent_pid /\ lender.uid = me.uid
        /\ lender.p4_table = me.p4_table /\ lender.is_thread = me.is_thread
    BY <1>4 DEF ProcessT
  <2> HIDE DEF borrower, lender
  <2>5. /\ [borrower EXCEPT !.status = "RUNNING"] \in ProcessT
        /\ blocked \in ProcessT
    BY <2>3, <2>4 DEF ProcessT, Statuses
  <2>6. /\ blocked.status = "WAITING" /\ blocked.pid = lender.pid
        /\ blocked.parent_pid = lender.parent_pid /\ blocked.uid = lender.uid
        /\ blocked.p4_table = lender.p4_table /\ blocked.is_thread = lender.is_thread
    BY <2>4 DEF ProcessT
  <2>7. /\ proc'[s].status = "RUNNING" /\ proc'[s].pid = next_pid
        /\ proc'[s].parent_pid = child.parent_pid
        /\ proc'[s].uid = me.uid /\ proc'[s].p4_table = me.p4_table
    BY <2>2, <2>3, <1>6 DEF ProcessT
  <2> HIDE DEF blocked
  <2>8. proc' \in [Slots -> ProcessT]
    BY <2>2, <2>5, <1>3 DEF TypeOK
  <2>9. proc'[current] = blocked /\ \A o \in Slots \ {s, current} : proc'[o] = proc[o]
    BY <2>2, <1>3
  <2>10. TypeOK'
    BY <1>2, <1>3, <1>4, <2>1, <2>8 DEF TypeOK
  <2>11. CurrentMayRun'
    BY Zenon, <1>3, <2>1, <2>6, <2>7, <2>9 DEF CurrentMayRun
  <2>12. \A o \in Slots \ {s} : SameProcess(o)
    <3>1. SameProcess(current)
      BY <1>2, <1>3, <2>4, <2>6, <2>9 DEF SameProcess, CurrentMayRun
    <3>2. \A o \in Slots \ {s, current} : SameProcess(o)
      BY <2>9 DEF SameProcess
    <3> QED
      BY <3>1, <3>2
  <2>13. /\ proc'[s].status \in {"READY", "RUNNING"}
         /\ proc'[s].parent_pid \in {proc[current].pid, proc[current].parent_pid}
         /\ proc'[s].p4_table \in live'
         /\ live \subseteq live' /\ live' \subseteq live \cup {proc'[s].p4_table}
    BY <1>2, <1>6, <1>7, <2>7
  <2> QED
    BY <1>1, <1>2, <2>7, <2>10, <2>11, <2>12, <2>13, CreationStep
<1>9. CASE ~kind.vfork
  <2>1. proc' = [proc EXCEPT ![s] = child] /\ current' = current
    BY <1>1, <1>9
  <2>2. proc'[s] = child /\ \A o \in Slots \ {s} : proc'[o] = proc[o]
    BY <2>1, <1>3 DEF TypeOK
  <2>3. proc' \in [Slots -> ProcessT]
    BY <2>1, <1>3, <1>5 DEF TypeOK
  <2>4. TypeOK'
    BY <1>2, <1>3, <1>4, <2>1, <2>3 DEF TypeOK
  <2>5. CurrentMayRun'
    BY <1>2, <1>3, <1>6, <2>1, <2>2 DEF CurrentMayRun
  <2>6. \A o \in Slots \ {s} : SameProcess(o)
    BY <2>2 DEF SameProcess
  <2>7. /\ proc'[s].status \in {"READY", "RUNNING"} /\ proc'[s].pid = next_pid
        /\ proc'[s].parent_pid \in {proc[current].pid, proc[current].parent_pid}
        /\ proc'[s].uid = proc[current].uid /\ proc'[s].p4_table \in live'
        /\ live \subseteq live' /\ live' \subseteq live \cup {proc'[s].p4_table}
    BY <1>2, <1>6, <1>7, <2>2
  <2> QED
    BY <1>1, <1>2, <2>4, <2>5, <2>6, <2>7, CreationStep
<1> QED
  BY <1>8, <1>9

\* sys_process_pause.
LEMMA PauseStep == ASSUME IInv, NEW s \in Slots, Pause(s) PROVE IInv'
<1>1. /\ ~halted /\ proc[s].status = "READY" /\ s # current
      /\ proc' = [proc EXCEPT ![s].status = "PAUSED"]
      /\ UNCHANGED <<current, next_pid, live, halted>>
  BY DEF Pause
<1>2. TypeOK /\ CurrentMayRun
  BY DEF IInv
<1>3. TypeOK'
  <2>1. [proc[s] EXCEPT !.status = "PAUSED"] \in ProcessT
    BY <1>2 DEF TypeOK, ProcessT, Statuses
  <2>2. proc' \in [Slots -> ProcessT]
    BY <1>1, <1>2, <2>1 DEF TypeOK
  <2> QED
    BY <1>1, <1>2, <2>2 DEF TypeOK
<1>4. CurrentMayRun' /\ \A o \in Slots : SameProcess(o)
  BY <1>1, <1>2 DEF TypeOK, ProcessT, CurrentMayRun, SameProcess
<1> QED
  BY <1>1, <1>3, <1>4, StatusStep

\* sys_process_resume.
LEMMA ResumeStep == ASSUME IInv, NEW s \in Slots, Resume(s) PROVE IInv'
<1>1. /\ ~halted /\ proc[s].status = "PAUSED"
      /\ proc' = [proc EXCEPT ![s].status = "READY"]
      /\ UNCHANGED <<current, next_pid, live, halted>>
  BY DEF Resume, Resumable
<1>2. TypeOK /\ CurrentMayRun
  BY DEF IInv
<1>3. TypeOK'
  <2>1. [proc[s] EXCEPT !.status = "READY"] \in ProcessT
    BY <1>2 DEF TypeOK, ProcessT, Statuses
  <2>2. proc' \in [Slots -> ProcessT]
    BY <1>1, <1>2, <2>1 DEF TypeOK
  <2> QED
    BY <1>1, <1>2, <2>2 DEF TypeOK
<1>4. CurrentMayRun' /\ \A o \in Slots : SameProcess(o)
  BY <1>1, <1>2 DEF TypeOK, ProcessT, CurrentMayRun, SameProcess
<1> QED
  BY <1>1, <1>3, <1>4, StatusStep

\* The current process was put back as READY or stays PAUSED.
LEMMA PickNextStep ==
  ASSUME IInv, NEW st \in {"READY", "PAUSED"},
         PickNext([proc EXCEPT ![current].status = st])
  PROVE  IInv'
<1> DEFINE table == [proc EXCEPT ![current].status = st]
<1>1. TypeOK /\ CurrentMayRun /\ current \in Slots
  BY DEF IInv, TypeOK
<1>2. table \in [Slots -> ProcessT]
  BY <1>1 DEF TypeOK, ProcessT, Statuses
<1>3. \A o \in Slots : table[o].status = IF o = current THEN st ELSE proc[o].status
  BY <1>1 DEF TypeOK, ProcessT
<1>4. \A o \in Slots :
        /\ table[o].pid = proc[o].pid /\ table[o].parent_pid = proc[o].parent_pid
        /\ table[o].is_thread = proc[o].is_thread /\ table[o].uid = proc[o].uid
        /\ table[o].p4_table = proc[o].p4_table
  BY <1>1 DEF TypeOK, ProcessT
<1>5. ~halted /\ UNCHANGED <<next_pid, live, halted>>
  BY DEF PickNext
<1>6. PICK n \in Slots : /\ n = current \/ table[n].status = "READY"
                         /\ proc' = [table EXCEPT ![n].status = "RUNNING"]
                         /\ current' = n
  BY <1>1 DEF PickNext, SwitchTo, Ready
<1> HIDE DEF table
<1>7. TypeOK'
  <2>1. [table[n] EXCEPT !.status = "RUNNING"] \in ProcessT
    BY <1>2 DEF ProcessT, Statuses
  <2>2. proc' \in [Slots -> ProcessT]
    BY <1>2, <1>6, <2>1
  <2> QED
    BY <1>1, <1>5, <1>6, <2>2 DEF TypeOK
<1>8. \A o \in Slots :
        /\ proc'[o].status = IF o = n THEN "RUNNING" ELSE table[o].status
        /\ proc'[o].pid = table[o].pid /\ proc'[o].parent_pid = table[o].parent_pid
        /\ proc'[o].is_thread = table[o].is_thread /\ proc'[o].uid = table[o].uid
        /\ proc'[o].p4_table = table[o].p4_table
  BY <1>2, <1>6 DEF ProcessT
<1>9. proc[current].status \in {"RUNNING", "READY", "PAUSED"}
  BY <1>1, <1>5 DEF CurrentMayRun
<1>10. CurrentMayRun'
  BY <1>1, <1>3, <1>6, <1>8 DEF CurrentMayRun
<1>11. \A o \in Slots : SameProcess(o)
  BY <1>1, <1>3, <1>4, <1>6, <1>8, <1>9 DEF SameProcess
<1> QED
  BY <1>5, <1>7, <1>10, <1>11, StatusStep

\* schedule.
LEMMA YieldStep == IInv /\ Yield => IInv'
<1> SUFFICES ASSUME IInv, Yield PROVE IInv'
  OBVIOUS
<1> DEFINE st == IF proc[current].status = "RUNNING" THEN "READY"
                 ELSE proc[current].status
<1>1. ~halted
  BY DEF Yield, PickNext
<1>2. st \in {"READY", "PAUSED"}
  BY <1>1 DEF IInv, CurrentMayRun
<1>3. PickNext([proc EXCEPT ![current].status = st])
  BY DEF Yield
<1> HIDE DEF st
<1> QED
  BY Zenon, <1>2, <1>3, PickNextStep

\* The timer interrupt.
LEMMA PreemptStep == IInv /\ Preempt => IInv'
BY PickNextStep DEF Preempt

\* begin_user_session.
LEMMA LoginStep == IInv /\ Login => IInv'
<1> SUFFICES ASSUME IInv, Login PROVE IInv'
  OBVIOUS
<1>1. /\ ~halted /\ proc[current].pid = 1 /\ proc[current].uid = LoginUid
      /\ proc' = [proc EXCEPT ![current].uid = UserUid]
      /\ UNCHANGED <<current, next_pid, live, halted>>
  BY DEF Login
<1>2. TypeOK /\ CurrentMayRun /\ current \in Slots
  BY DEF IInv, TypeOK
<1>3. TypeOK'
  <2>1. [proc[current] EXCEPT !.uid = UserUid] \in ProcessT
    BY <1>2 DEF TypeOK, ProcessT
  <2>2. proc' \in [Slots -> ProcessT]
    BY <1>1, <1>2, <2>1 DEF TypeOK
  <2> QED
    BY <1>1, <1>2, <2>2 DEF TypeOK
<1>4. /\ proc'[current].uid = UserUid
      /\ \A o \in Slots :
           /\ proc'[o].status = proc[o].status /\ proc'[o].pid = proc[o].pid
           /\ proc'[o].parent_pid = proc[o].parent_pid
           /\ proc'[o].is_thread = proc[o].is_thread
           /\ proc'[o].p4_table = proc[o].p4_table
  BY <1>1, <1>2 DEF TypeOK, ProcessT
<1>5. Numbered'
  BY <1>1, <1>4 DEF IInv, Numbered, Alive
<1>6. Cleared' /\ CurrentMayRun'
  BY <1>1, <1>4 DEF IInv, Cleared, CurrentMayRun, Alive
<1>7. PidsUnique'
  BY <1>4 DEF IInv, PidsUnique, Alive, Live
<1>8. SpacesAccounted'
  BY <1>1, <1>4 DEF IInv, SpacesAccounted, Alive, Live
<1>9. NoUserProcessAtLogin'
  BY <1>1, <1>2, <1>4
  DEF IInv, NoUserProcessAtLogin, PidsUnique, CurrentMayRun, Cleared, Alive
<1> QED
  BY <1>3, <1>5, <1>6, <1>7, <1>8, <1>9 DEF IInv

\* session_logout: a space shared with a victim survives only if somebody kept uses it.
LEMMA LogoutStep == IInv /\ Logout => IInv'
<1> SUFFICES ASSUME IInv, Logout PROVE IInv'
  OBVIOUS
<1> DEFINE table == [s \in Slots |-> IF s \in Victims THEN Dead ELSE proc[s]]
           kept == {table[s].p4_table : s \in Slots}
<1>1. /\ ~halted /\ proc[current].pid = 1 /\ proc[current].uid = UserUid
      /\ live' = live \ ({proc[s].p4_table : s \in Victims} \ kept)
      /\ proc' = [table EXCEPT ![current].uid = LoginUid]
      /\ UNCHANGED <<current, next_pid, halted>>
  BY DEF Logout
<1>2. TypeOK /\ CurrentMayRun /\ current \in Slots /\ current \notin Victims
  BY DEF IInv, TypeOK, Victims
<1>3. table \in [Slots -> ProcessT]
  BY <1>2, DeadTyped DEF TypeOK
<1>4. \A o \in Slots :
        IF o \in Victims
        THEN table[o].status = "DEAD" /\ table[o].pid = 0 /\ table[o].p4_table = NoSpace
        ELSE table[o] = proc[o]
  BY DEF Dead, Entry
<1>5. \A a : a \in live' <=>
        a \in live /\ ((\E s \in Victims : proc[s].p4_table = a) =>
                         \E r \in Slots : table[r].p4_table = a)
  BY <1>1
<1> HIDE DEF table
<1>6. TypeOK'
  <2>1. proc' \in [Slots -> ProcessT]
    BY <1>1, <1>2, <1>3 DEF ProcessT
  <2> QED
    BY <1>1, <1>2, <2>1 DEF TypeOK
<1>7. /\ proc'[current].uid = LoginUid
      /\ \A o \in Slots :
           /\ proc'[o].status = table[o].status /\ proc'[o].pid = table[o].pid
           /\ proc'[o].parent_pid = table[o].parent_pid
           /\ proc'[o].is_thread = table[o].is_thread
           /\ proc'[o].p4_table = table[o].p4_table
           /\ o # current => proc'[o].uid = table[o].uid
  BY <1>1, <1>2, <1>3 DEF ProcessT
<1>8. \A o \in Slots : o \in Victims <=> o # current /\ Alive(o) /\ proc[o].uid = UserUid
  BY DEF Victims
<1>9. Numbered'
  BY <1>1, <1>4, <1>7 DEF IInv, Numbered, Alive
<1>10. Cleared'
  BY <1>1, <1>4, <1>7 DEF IInv, Cleared, Alive
<1>11. CurrentMayRun'
  BY <1>1, <1>2, <1>4, <1>7 DEF CurrentMayRun
<1>12. PidsUnique'
  <2>1. proc'[current].status \notin {"DEAD", "ZOMBIE"} /\ proc'[current].pid = 1
    BY <1>1, <1>2, <1>4, <1>7 DEF CurrentMayRun
  <2>2. \A s, r \in Slots : (Alive(s) /\ Alive(r) /\ proc[s].pid = proc[r].pid)' => s = r
    BY <1>4, <1>7 DEF IInv, PidsUnique, Alive
  <2> QED
    BY <1>2, <2>1, <2>2 DEF PidsUnique, Live, Alive
<1>13. SpacesAccounted'
  <2>1. \A s \in Slots : Live(s)' => proc'[s].p4_table \in live'
    BY <1>4, <1>5, <1>7 DEF IInv, SpacesAccounted, Live
  <2>2. ASSUME NEW a \in live' PROVE \E s \in Slots : (Alive(s) /\ proc[s].p4_table = a)'
    <3>1. a \in live /\ a # NoSpace
      BY <1>2, <1>5, <2>2 DEF TypeOK
    <3>2. PICK s \in Slots : Alive(s) /\ proc[s].p4_table = a
      BY <3>1 DEF IInv, SpacesAccounted
    <3>3. CASE s \notin Victims
      BY <1>4, <1>7, <3>2, <3>3 DEF Alive
    <3>4. CASE s \in Victims
      <4>1. PICK r \in Slots : table[r].p4_table = a
        BY <1>5, <2>2, <3>2, <3>4
      <4>2. r \notin Victims /\ proc[r].p4_table = a /\ Alive(r)
        BY <1>4, <3>1, <4>1 DEF IInv, Cleared
      <4> QED
        BY <1>4, <1>7, <4>1, <4>2 DEF Alive
    <3> QED
      BY <3>3, <3>4
  <2> QED
    BY <2>1, <2>2 DEF SpacesAccounted
<1>14. NoUserProcessAtLogin'
  <2>1. \A o \in Slots : proc[o].uid \in {LoginUid, UserUid}
    BY <1>2 DEF TypeOK, ProcessT
  <2> QED
    BY <1>2, <1>4, <1>7, <1>8, <2>1 DEF NoUserProcessAtLogin, Alive
<1> QED
  BY <1>6, <1>9, <1>10, <1>11, <1>12, <1>13, <1>14 DEF IInv

\* A vfork child that lets go of its parent wakes it, and changes nothing else.
LEMMA CompleteVforkEffect ==
  ASSUME NEW table \in [Slots -> ProcessT], NEW c \in Slots
  PROVE  /\ CompleteVfork(table, c) \in [Slots -> ProcessT]
         /\ \A o \in Slots :
              /\ CompleteVfork(table, c)[o].pid = table[o].pid
              /\ CompleteVfork(table, c)[o].parent_pid = table[o].parent_pid
              /\ CompleteVfork(table, c)[o].is_thread = table[o].is_thread
              /\ CompleteVfork(table, c)[o].uid = table[o].uid
              /\ CompleteVfork(table, c)[o].p4_table = table[o].p4_table
              /\ \/ CompleteVfork(table, c)[o].status = table[o].status
                 \/ /\ o # c /\ table[o].status = "WAITING"
                    /\ CompleteVfork(table, c)[o].status = "READY"
<1> DEFINE released(o) == [table[o] EXCEPT !.vfork_child_pid = 0]
           woken(o) == [released(o) EXCEPT
                          !.status = IF @ = "WAITING" THEN "READY" ELSE @]
           done == CompleteVfork(table, c)
<1>1. \A o \in Slots :
        \/ done[o] = table[o]
        \/ done[o] = [table[o] EXCEPT !.vfork_parent_pid = 0]
        \/ o # c /\ done[o] = woken(o)
  <2> SUFFICES ASSUME NEW o \in Slots
               PROVE  \/ done[o] = table[o]
                      \/ done[o] = [table[o] EXCEPT !.vfork_parent_pid = 0]
                      \/ o # c /\ done[o] = woken(o)
    BY Zenon
  <2>1. [table[o] EXCEPT !.vfork_child_pid = 0,
                !.status = IF @ = "WAITING" THEN "READY" ELSE @] = woken(o)
    BY DEF ProcessT
  <2>2. CASE o = c
    <3>1. done[o] = [table[c] EXCEPT !.vfork_parent_pid = 0]
      BY <2>2 DEF CompleteVfork
    <3> HIDE DEF done, woken
    <3> QED
      BY <2>2, <3>1, Zenon
  <2>3. CASE o # c
    <3>1. done[o] = table[o] \/
          done[o] = [table[o] EXCEPT !.vfork_child_pid = 0,
                       !.status = IF @ = "WAITING" THEN "READY" ELSE @]
      BY <2>3, Zenon DEF CompleteVfork
    <3> HIDE DEF done, woken
    <3> QED
      BY <2>1, <2>3, <3>1, Zenon
  <2> QED
    BY <2>2, <2>3
<1>2. done = [o \in Slots |-> done[o]]
  BY DEF CompleteVfork
<1>3. \A o \in Slots :
        LET t == [table[o] EXCEPT !.vfork_parent_pid = 0] IN
        /\ t \in ProcessT /\ t.pid = table[o].pid /\ t.parent_pid = table[o].parent_pid
        /\ t.is_thread = table[o].is_thread /\ t.uid = table[o].uid
        /\ t.p4_table = table[o].p4_table /\ t.status = table[o].status
  BY DEF ProcessT
<1>4. \A o \in Slots :
        /\ released(o) \in ProcessT /\ released(o).pid = table[o].pid
        /\ released(o).parent_pid = table[o].parent_pid
        /\ released(o).is_thread = table[o].is_thread /\ released(o).uid = table[o].uid
        /\ released(o).p4_table = table[o].p4_table
        /\ released(o).status = table[o].status
  BY DEF ProcessT
<1> HIDE DEF released
<1>5. \A o \in Slots :
        /\ woken(o) \in ProcessT /\ woken(o).pid = released(o).pid
        /\ woken(o).parent_pid = released(o).parent_pid
        /\ woken(o).is_thread = released(o).is_thread /\ woken(o).uid = released(o).uid
        /\ woken(o).p4_table = released(o).p4_table
        /\ woken(o).status = IF released(o).status = "WAITING" THEN "READY"
                             ELSE released(o).status
  BY <1>4 DEF ProcessT, Statuses
<1> HIDE DEF woken, done
<1>6. \A o \in Slots : done[o] \in ProcessT
  BY Zenon, <1>1, <1>3, <1>5
<1>7. \A o \in Slots :
        /\ done[o].pid = table[o].pid /\ done[o].parent_pid = table[o].parent_pid
        /\ done[o].is_thread = table[o].is_thread /\ done[o].uid = table[o].uid
        /\ done[o].p4_table = table[o].p4_table
        /\ \/ done[o].status = table[o].status
           \/ o # c /\ table[o].status = "WAITING" /\ done[o].status = "READY"
  <2> SUFFICES ASSUME NEW o \in Slots
               PROVE  /\ done[o].pid = table[o].pid
                      /\ done[o].parent_pid = table[o].parent_pid
                      /\ done[o].is_thread = table[o].is_thread
                      /\ done[o].uid = table[o].uid
                      /\ done[o].p4_table = table[o].p4_table
                      /\ \/ done[o].status = table[o].status
                         \/ /\ o # c /\ table[o].status = "WAITING"
                            /\ done[o].status = "READY"
    OBVIOUS
  <2>1. CASE done[o] = table[o]
    BY <2>1
  <2>2. CASE done[o] = [table[o] EXCEPT !.vfork_parent_pid = 0]
    BY <1>3, <2>2, Zenon
  <2>3. CASE o # c /\ done[o] = woken(o)
    <3>1. /\ done[o].pid = table[o].pid /\ done[o].parent_pid = table[o].parent_pid
          /\ done[o].is_thread = table[o].is_thread /\ done[o].uid = table[o].uid
          /\ done[o].p4_table = table[o].p4_table
      BY <1>4, <1>5, <2>3, Zenon
    <3>2. done[o].status = IF table[o].status = "WAITING" THEN "READY" ELSE table[o].status
      BY <1>4, <1>5, <2>3, Zenon
    <3> QED
      BY <2>3, <3>1, <3>2
  <2> QED
    BY <1>1, <2>1, <2>2, <2>3
<1>8. done \in [Slots -> ProcessT]
  BY <1>2, <1>6
<1> QED
  BY <1>7, <1>8 DEF done

\* Who uses a space does not depend on who waits for whom.
LEMMA SameUsers ==
  ASSUME NEW table, NEW c, NEW a, NEW spaces,
         \A o \in Slots \ {c} : /\ table[o].status = "DEAD" <=> proc[o].status = "DEAD"
                                /\ table[o].p4_table = proc[o].p4_table
  PROVE  AfterRelease(table, spaces, c, a) = AfterRelease(proc, spaces, c, a)
BY DEF AfterRelease

\* sys_process_kill, with a parent that collects the process or without.
LEMMA KillStep == ASSUME IInv, NEW s \in Slots, Kill(s) PROVE IInv'
<1> DEFINE gone == [proc[s] EXCEPT !.status = "ZOMBIE", !.p4_table = NoSpace]
           ended == [proc[s] EXCEPT !.status = "ZOMBIE"]
           zombie == [ended EXCEPT !.p4_table = NoSpace]
           ready(o) == [proc[o] EXCEPT !.status = "READY", !.wait_target_pid = AnyPid]
           woken(o) == [proc[o] EXCEPT !.status = "READY"]
           reset(o) == [woken(o) EXCEPT !.wait_target_pid = AnyPid]
<1>1. /\ ~halted /\ Live(s) /\ proc[s].pid # 1 /\ s # current
      /\ live' = AfterRelease(proc, live, s, proc[s].p4_table)
      /\ UNCHANGED <<current, next_pid, halted>>
  BY Zenon DEF Kill, Killable, Live
<1>2. proc' = [o \in Slots |->
       IF o = s THEN (IF Waiters(s) # {} THEN Dead ELSE gone)
       ELSE IF o \in Waiters(s) THEN ready(o) ELSE proc[o]]
  BY Zenon DEF Kill
<1>3. TypeOK /\ CurrentMayRun /\ current \in Slots
  BY DEF IInv, TypeOK
<1>4. gone = zombie /\ \A o \in Slots : ready(o) = reset(o)
  OBVIOUS
<1>5. \A o \in Waiters(s) : o \in Slots /\ proc[o].status = "WAITING"
  BY DEF Waiters
<1>6. /\ ended \in ProcessT /\ ended.pid = proc[s].pid
      /\ ended.parent_pid = proc[s].parent_pid /\ ended.uid = proc[s].uid
      /\ ended.status = "ZOMBIE"
  BY <1>3 DEF TypeOK, ProcessT, Statuses
<1>7. \A o \in Slots :
        /\ woken(o) \in ProcessT /\ woken(o).pid = proc[o].pid
        /\ woken(o).parent_pid = proc[o].parent_pid
        /\ woken(o).is_thread = proc[o].is_thread /\ woken(o).uid = proc[o].uid
        /\ woken(o).p4_table = proc[o].p4_table /\ woken(o).status = "READY"
  BY <1>3 DEF TypeOK, ProcessT, Statuses
<1> HIDE DEF ended, woken, gone, ready
<1>8. /\ zombie \in ProcessT /\ zombie.pid = ended.pid
      /\ zombie.parent_pid = ended.parent_pid /\ zombie.uid = ended.uid
      /\ zombie.status = ended.status /\ zombie.p4_table = NoSpace
  BY <1>6 DEF ProcessT
<1>9. \A o \in Slots :
        /\ reset(o) \in ProcessT /\ reset(o).pid = woken(o).pid
        /\ reset(o).parent_pid = woken(o).parent_pid
        /\ reset(o).is_thread = woken(o).is_thread /\ reset(o).uid = woken(o).uid
        /\ reset(o).p4_table = woken(o).p4_table /\ reset(o).status = woken(o).status
  BY <1>7 DEF ProcessT, AnyPid
<1> HIDE DEF zombie, reset
<1>10. /\ proc'[s] = Dead \/ proc'[s] = zombie
       /\ \A o \in Slots \ {s} : IF o \in Waiters(s) THEN proc'[o] = reset(o)
                                 ELSE proc'[o] = proc[o]
  BY <1>2, <1>4
<1>11. proc' \in [Slots -> ProcessT]
  BY <1>2, <1>3, <1>4, <1>8, <1>9, DeadTyped DEF TypeOK
<1>12. TypeOK'
  <2>1. live' \subseteq live
    BY <1>1 DEF AfterRelease
  <2> QED
    BY <1>1, <1>3, <1>11, <2>1 DEF TypeOK
<1>13. ASSUME NEW o \in Slots \ {s}
       PROVE  /\ SameProcess(o) /\ proc'[o].status \in {proc[o].status, "READY"}
              /\ o = current => proc'[o] = proc[o]
  <2>1. CASE o \in Waiters(s)
    <3>1. /\ proc'[o].pid = proc[o].pid /\ proc'[o].parent_pid = proc[o].parent_pid
          /\ proc'[o].is_thread = proc[o].is_thread /\ proc'[o].uid = proc[o].uid
          /\ proc'[o].p4_table = proc[o].p4_table /\ proc'[o].status = "READY"
      <4>1. proc'[o] = reset(o) /\ o \in Slots
        BY <1>10, <2>1
      <4> QED
        BY <1>7, <1>9, <4>1, Zenon
    <3>2. proc[o].status = "WAITING" /\ o # current
      BY <1>1, <1>3, <1>5, <2>1 DEF CurrentMayRun
    <3> QED
      BY <3>1, <3>2 DEF SameProcess
  <2>2. CASE o \notin Waiters(s)
    BY <1>10, <2>2 DEF SameProcess
  <2> QED
    BY <2>1, <2>2
<1>14. /\ \/ proc'[s] = Dead
          \/ /\ proc'[s].status = "ZOMBIE" /\ proc'[s].pid = proc[s].pid
             /\ proc'[s].parent_pid = proc[s].parent_pid
             /\ proc'[s].uid = proc[s].uid /\ proc'[s].p4_table = NoSpace
       /\ proc'[s].status # "RUNNING"
  BY <1>6, <1>8, <1>10 DEF Dead, Entry
<1>15. CurrentMayRun'
  BY Zenon, <1>1, <1>3, <1>13, <1>14 DEF CurrentMayRun
<1>16. halted' \in BOOLEAN
  BY <1>12 DEF TypeOK
<1> QED
  BY <1>1, <1>12, <1>13, <1>14, <1>15, <1>16, RemovalStep

\* sys_wait4: a zombie is collected, or the caller blocks and a child runs.
LEMMA Wait4Step ==
  ASSUME IInv, NEW target \in {AnyPid} \cup 1..MaxPid, Wait4(target)
  PROVE  IInv'
<1> DEFINE mine == {s \in Slots : /\ Alive(s)
                                  /\ proc[s].parent_pid = proc[current].pid
                                  /\ Matches(target, proc[s].pid)}
           blocked == [proc[current] EXCEPT !.status = "WAITING"]
           waiter == [blocked EXCEPT !.wait_target_pid = target]
<1>1. TypeOK /\ CurrentMayRun /\ Numbered /\ Cleared /\ current \in Slots
  BY DEF IInv, TypeOK
<1>2. ~halted /\ UNCHANGED <<next_pid, live, halted>>
  BY DEF Wait4
<1>3. CASE \E z \in mine : /\ proc[z].status = "ZOMBIE"
                           /\ proc' = [proc EXCEPT ![z] = Dead] /\ current' = current
  <2>1. PICK z \in Slots : /\ proc[z].status = "ZOMBIE"
                           /\ proc' = [proc EXCEPT ![z] = Dead] /\ current' = current
    BY Zenon, <1>3
  <2>2. /\ proc'[z].status = "DEAD" /\ proc'[z].pid = 0 /\ proc'[z].p4_table = NoSpace
        /\ \A o \in Slots \ {z} : proc'[o] = proc[o]
    BY <1>1, <2>1 DEF TypeOK, Dead, Entry
  <2>3. TypeOK'
    <3>1. proc' \in [Slots -> ProcessT]
      BY <1>1, <2>1, DeadTyped DEF TypeOK
    <3> QED
      BY <1>1, <1>2, <2>1, <3>1 DEF TypeOK
  <2>4. Numbered'
    BY <1>1, <1>2, <2>2 DEF Numbered, Alive
  <2>5. Cleared'
    BY <1>1, <1>2, <2>2 DEF Cleared, Alive
  <2>6. CurrentMayRun'
    BY <1>1, <1>2, <2>1, <2>2 DEF CurrentMayRun
  <2>7. PidsUnique'
    BY <2>1, <2>2 DEF IInv, PidsUnique, Alive, Live
  <2>8. SpacesAccounted'
    BY <1>1, <1>2, <2>1, <2>2 DEF IInv, SpacesAccounted, Cleared, TypeOK, Alive, Live
  <2>9. NoUserProcessAtLogin'
    BY <2>2 DEF IInv, NoUserProcessAtLogin, Alive
  <2> QED
    BY <2>3, <2>4, <2>5, <2>6, <2>7, <2>8, <2>9 DEF IInv
<1>4. CASE \E n \in mine \cap Ready(proc) :
             SwitchTo([proc EXCEPT ![current].status = "WAITING",
                                   ![current].wait_target_pid = target], n)
  <2>1. PICK n \in Slots :
          /\ Alive(n) /\ proc[n].parent_pid = proc[current].pid /\ proc[n].status = "READY"
          /\ proc' = [[proc EXCEPT ![current].status = "WAITING",
                                   ![current].wait_target_pid = target]
                        EXCEPT ![n].status = "RUNNING"]
          /\ current' = n
    BY Zenon, <1>4 DEF SwitchTo, Ready
  <2>2. n # current
    BY <1>1, <2>1, IntPids DEF Numbered
  <2>3. proc' = [o \in Slots |-> IF o = n THEN [proc[n] EXCEPT !.status = "RUNNING"]
                                 ELSE IF o = current THEN waiter ELSE proc[o]]
    BY Zenon, <1>1, <2>1, <2>2 DEF TypeOK
  <2>4. /\ blocked \in ProcessT /\ blocked.pid = proc[current].pid
        /\ blocked.parent_pid = proc[current].parent_pid
        /\ blocked.is_thread = proc[current].is_thread /\ blocked.uid = proc[current].uid
        /\ blocked.p4_table = proc[current].p4_table /\ blocked.status = "WAITING"
    BY <1>1 DEF TypeOK, ProcessT, Statuses
  <2> HIDE DEF blocked
  <2>5. /\ waiter \in ProcessT /\ waiter.pid = blocked.pid
        /\ waiter.parent_pid = blocked.parent_pid
        /\ waiter.is_thread = blocked.is_thread /\ waiter.uid = blocked.uid
        /\ waiter.p4_table = blocked.p4_table /\ waiter.status = "WAITING"
    BY <2>4 DEF ProcessT, AnyPid
  <2> HIDE DEF waiter
  <2>6. /\ [proc[n] EXCEPT !.status = "RUNNING"] \in ProcessT
        /\ proc'[n].status = "RUNNING" /\ proc'[n].pid = proc[n].pid
        /\ proc'[n].parent_pid = proc[n].parent_pid
        /\ proc'[n].is_thread = proc[n].is_thread /\ proc'[n].uid = proc[n].uid
        /\ proc'[n].p4_table = proc[n].p4_table
    BY <1>1, <2>3 DEF TypeOK, ProcessT, Statuses
  <2>7. proc'[current] = waiter /\ \A o \in Slots \ {n, current} : proc'[o] = proc[o]
    BY <1>1, <2>2, <2>3
  <2>8. TypeOK'
    <3>1. proc' \in [Slots -> ProcessT]
      BY <1>1, <2>3, <2>5, <2>6 DEF TypeOK
    <3> QED
      BY <1>1, <1>2, <2>1, <3>1 DEF TypeOK
  <2>9. CurrentMayRun'
    BY Zenon, <1>1, <2>1, <2>5, <2>6, <2>7 DEF CurrentMayRun
  <2>10. \A o \in Slots : SameProcess(o)
    <3>1. SameProcess(current)
      BY <1>1, <1>2, <2>4, <2>5, <2>7 DEF SameProcess, CurrentMayRun
    <3>2. SameProcess(n)
      BY <2>1, <2>6 DEF SameProcess
    <3>3. \A o \in Slots \ {n, current} : SameProcess(o)
      BY <2>7 DEF SameProcess
    <3> QED
      BY <3>1, <3>2, <3>3
  <2> QED
    BY <1>2, <2>8, <2>9, <2>10, StatusStep
<1> QED
  BY Zenon, <1>3, <1>4 DEF Wait4

\* execve: the new space replaces the old one, which others may still use.
LEMMA ExecStep == IInv /\ Exec => IInv'
<1> SUFFICES ASSUME IInv, Exec PROVE IInv'
  OBVIOUS
<1> DEFINE old == proc[current].p4_table
           table(a) == [proc EXCEPT ![current].p4_table = a]
<1>1. PICK a \in Spaces \ live :
        /\ live' = AfterRelease(table(a), live \cup {a}, current, old)
        /\ proc' = CompleteVfork(table(a), current)
  BY DEF Exec
<1>2. ~halted /\ UNCHANGED <<current, next_pid, halted>>
  BY DEF Exec
<1>3. TypeOK /\ CurrentMayRun /\ Numbered /\ Cleared /\ current \in Slots
  BY DEF IInv, TypeOK
<1>4. old \in live
  BY <1>2, <1>3 DEF IInv, SpacesAccounted, CurrentMayRun, Live
<1>5. table(a) \in [Slots -> ProcessT]
  BY <1>3 DEF TypeOK, ProcessT
<1>6. \A o \in Slots :
        /\ table(a)[o].p4_table = IF o = current THEN a ELSE proc[o].p4_table
        /\ table(a)[o].pid = proc[o].pid /\ table(a)[o].parent_pid = proc[o].parent_pid
        /\ table(a)[o].is_thread = proc[o].is_thread /\ table(a)[o].uid = proc[o].uid
        /\ table(a)[o].status = proc[o].status
  BY <1>3 DEF TypeOK, ProcessT
<1> HIDE DEF table
<1>7. live' = AfterRelease(proc, live \cup {a}, current, old)
  <2>1. \A o \in Slots \ {current} :
          /\ table(a)[o].status = "DEAD" <=> proc[o].status = "DEAD"
          /\ table(a)[o].p4_table = proc[o].p4_table
    BY <1>6
  <2>2. AfterRelease(table(a), live \cup {a}, current, old)
          = AfterRelease(proc, live \cup {a}, current, old)
    BY <2>1, SameUsers
  <2> QED
    BY <1>1, <2>2
<1>8. /\ proc' \in [Slots -> ProcessT]
      /\ \A o \in Slots :
           /\ proc'[o].pid = table(a)[o].pid
           /\ proc'[o].parent_pid = table(a)[o].parent_pid
           /\ proc'[o].is_thread = table(a)[o].is_thread
           /\ proc'[o].uid = table(a)[o].uid
           /\ proc'[o].p4_table = table(a)[o].p4_table
           /\ \/ proc'[o].status = table(a)[o].status
              \/ /\ o # current /\ table(a)[o].status = "WAITING"
                 /\ proc'[o].status = "READY"
  BY <1>1, <1>3, <1>5, CompleteVforkEffect
<1>9. \A o \in Slots :
        /\ proc'[o].pid = proc[o].pid /\ proc'[o].parent_pid = proc[o].parent_pid
        /\ proc'[o].is_thread = proc[o].is_thread /\ proc'[o].uid = proc[o].uid
        /\ proc'[o].p4_table = IF o = current THEN a ELSE proc[o].p4_table
        /\ \/ proc'[o].status = proc[o].status
           \/ o # current /\ proc[o].status = "WAITING" /\ proc'[o].status = "READY"
  BY <1>6, <1>8
<1>10. TypeOK'
  <2>1. live' \subseteq live \cup {a}
    BY <1>7 DEF AfterRelease
  <2> QED
    BY <1>2, <1>3, <1>8, <2>1 DEF TypeOK
<1>11. Numbered'
  BY <1>2, <1>3, <1>9 DEF Numbered, Alive
<1>12. CurrentMayRun'
  BY <1>2, <1>3, <1>9 DEF CurrentMayRun
<1>13. Cleared'
  BY <1>2, <1>3, <1>9 DEF Cleared, CurrentMayRun, Alive
<1>14. PidsUnique'
  BY <1>9 DEF IInv, PidsUnique, Alive, Live
<1>15. SpacesAccounted'
  <2>1. \A s \in Slots : Live(s)' => proc'[s].p4_table \in live'
    BY <1>3, <1>4, <1>7, <1>9 DEF IInv, SpacesAccounted, AfterRelease, Live
  <2>2. \A b \in live' : \E s \in Slots : (Alive(s) /\ proc[s].p4_table = b)'
    BY <1>2, <1>3, <1>4, <1>7, <1>9
    DEF IInv, SpacesAccounted, AfterRelease, CurrentMayRun, Alive
  <2> QED
    BY <2>1, <2>2 DEF SpacesAccounted
<1>16. NoUserProcessAtLogin'
  BY <1>9 DEF IInv, NoUserProcessAtLogin, Alive
<1> QED
  BY <1>10, <1>11, <1>12, <1>13, <1>14, <1>15, <1>16 DEF IInv

\* The exit of a thread.
LEMMA ExitThreadStep == IInv /\ ExitThread => IInv'
<1> SUFFICES ASSUME IInv, ExitThread PROVE IInv'
  OBVIOUS
<1> DEFINE me == proc[current]
           done == CompleteVfork(proc, current)
           table == [done EXCEPT ![current] = Dead]
<1>1. /\ ~halted /\ me.is_thread /\ next_pid' = next_pid
      /\ live' = AfterRelease(table, live, current, me.p4_table)
  BY DEF ExitThread
<1>2. TypeOK /\ CurrentMayRun /\ Numbered /\ current \in Slots
  BY DEF IInv, TypeOK
<1>3. Live(current) /\ me.pid # 1
  BY <1>1, <1>2 DEF CurrentMayRun, Numbered, Live, Alive
<1>4. /\ done \in [Slots -> ProcessT]
      /\ \A o \in Slots :
           /\ done[o].pid = proc[o].pid /\ done[o].parent_pid = proc[o].parent_pid
           /\ done[o].is_thread = proc[o].is_thread /\ done[o].uid = proc[o].uid
           /\ done[o].p4_table = proc[o].p4_table
           /\ \/ done[o].status = proc[o].status
              \/ o # current /\ proc[o].status = "WAITING" /\ done[o].status = "READY"
  BY <1>2, CompleteVforkEffect DEF TypeOK
<1>5. \/ proc' = table /\ halted' = TRUE /\ current' = current
      \/ \E n \in Ready(table) : /\ proc' = [table EXCEPT ![n].status = "RUNNING"]
                                 /\ current' = n /\ halted' = halted
  <2>1. Successors(table, me.thread_group_id) \subseteq Ready(table)
    BY DEF Successors
  <2>2. \/ Halt(table)
        \/ \E n \in Successors(table, me.thread_group_id) :
             SwitchTo(table, n) /\ UNCHANGED halted
    BY Zenon DEF ExitThread
  <2> QED
    BY Zenon, <2>1, <2>2 DEF Halt, SwitchTo
<1> HIDE DEF done
<1>6. /\ table \in [Slots -> ProcessT] /\ table[current] = Dead
      /\ \A o \in Slots \ {current} : table[o] = done[o]
  BY <1>2, <1>4, DeadTyped
<1>7. table[current].status = "DEAD"
  BY <1>6 DEF Dead, Entry
<1> HIDE DEF table
<1>8. live' = AfterRelease(proc, live, current, me.p4_table)
  <2>1. \A o \in Slots \ {current} :
          /\ table[o].status = "DEAD" <=> proc[o].status = "DEAD"
          /\ table[o].p4_table = proc[o].p4_table
    BY <1>4, <1>6
  <2>2. AfterRelease(table, live, current, me.p4_table)
          = AfterRelease(proc, live, current, me.p4_table)
    BY <2>1, SameUsers
  <2> QED
    BY <1>1, <2>2
<1>9. live' \subseteq live
  BY <1>8 DEF AfterRelease
<1>10. CASE proc' = table /\ halted' = TRUE /\ current' = current
  <2>1. TypeOK'
    <3>1. halted' \in BOOLEAN
      BY <1>10
    <3> QED
      BY <1>1, <1>2, <1>6, <1>9, <1>10, <3>1 DEF TypeOK
  <2>2. CurrentMayRun'
    BY <1>2, <1>4, <1>6, <1>7, <1>10 DEF CurrentMayRun
  <2>3. \A o \in Slots \ {current} : SameProcess(o)
    BY <1>4, <1>6, <1>10 DEF SameProcess
  <2>4. halted' \in BOOLEAN
    BY <2>1 DEF TypeOK
  <2> QED
    BY Zenon, <1>1, <1>2, <1>3, <1>6, <1>8, <1>10, <2>1, <2>2, <2>3, <2>4, RemovalStep
<1>11. ASSUME NEW n \in Ready(table), proc' = [table EXCEPT ![n].status = "RUNNING"],
              current' = n, halted' = halted
       PROVE  IInv'
  <2>1. n \in Slots /\ n # current /\ table[n].status = "READY"
    BY <1>7, <1>11 DEF Ready
  <2>2. proc' \in [Slots -> ProcessT]
    BY <1>6, <1>11, <2>1 DEF ProcessT, Statuses
  <2>3. /\ proc'[n].status = "RUNNING" /\ proc'[n].pid = table[n].pid
        /\ proc'[n].parent_pid = table[n].parent_pid
        /\ proc'[n].is_thread = table[n].is_thread /\ proc'[n].uid = table[n].uid
        /\ proc'[n].p4_table = table[n].p4_table
        /\ \A o \in Slots \ {n} : proc'[o] = table[o]
    BY <1>6, <1>11, <2>1 DEF ProcessT
  <2>4. TypeOK'
    BY <1>1, <1>2, <1>9, <1>11, <2>1, <2>2 DEF TypeOK
  <2>5. CurrentMayRun'
    BY <1>2, <1>4, <1>6, <1>7, <1>11, <2>1, <2>3 DEF CurrentMayRun
  <2>6. ASSUME NEW o \in Slots \ {current} PROVE SameProcess(o)
    <3>1. /\ proc'[o].pid = table[o].pid
          /\ proc'[o].parent_pid = table[o].parent_pid
          /\ proc'[o].is_thread = table[o].is_thread /\ proc'[o].uid = table[o].uid
          /\ proc'[o].p4_table = table[o].p4_table
          /\ \/ proc'[o].status = table[o].status
             \/ table[o].status = "READY" /\ proc'[o].status = "RUNNING"
      BY <2>1, <2>3
    <3> QED
      BY <1>4, <1>6, <3>1 DEF SameProcess
  <2>7. proc'[current] = Dead /\ halted' \in BOOLEAN
    BY <1>2, <1>6, <2>1, <2>3, <2>4 DEF TypeOK
  <2> QED
    BY <1>1, <1>2, <1>3, <1>8, <2>4, <2>5, <2>6, <2>7, RemovalStep
<1> QED
  BY Zenon, <1>5, <1>10, <1>11

\* The exit of a process: collected by its parent, left as a zombie, or the last.
LEMMA ExitProcessStep == IInv /\ ExitProcess => IInv'
<1> SUFFICES ASSUME IInv, ExitProcess PROVE IInv'
  OBVIOUS
<1> DEFINE me == proc[current]
           table == CompleteVfork(proc, current)
           parents == {p \in Slots : /\ table[p].status # "DEAD"
                                     /\ table[p].pid = me.parent_pid}
           zombie == [table EXCEPT ![current].status = "ZOMBIE"]
           freed == [zombie EXCEPT ![current].p4_table = NoSpace]
<1>1. ~halted /\ me.pid # 1 /\ next_pid' = next_pid
  BY Zenon DEF ExitProcess
<1>2. TypeOK /\ CurrentMayRun /\ Numbered /\ current \in Slots
  BY DEF IInv, TypeOK
<1>3. Live(current) /\ Alive(current)
  BY <1>1, <1>2 DEF CurrentMayRun, Live, Alive
<1>4. /\ table \in [Slots -> ProcessT]
      /\ \A o \in Slots :
           /\ table[o].pid = proc[o].pid /\ table[o].parent_pid = proc[o].parent_pid
           /\ table[o].is_thread = proc[o].is_thread /\ table[o].uid = proc[o].uid
           /\ table[o].p4_table = proc[o].p4_table
           /\ \/ table[o].status = proc[o].status
              \/ o # current /\ proc[o].status = "WAITING" /\ table[o].status = "READY"
  BY <1>2, CompleteVforkEffect DEF TypeOK
<1>5. \/ \E p \in parents :
           /\ table[p].status = "WAITING"
           /\ live' = AfterRelease(table, live, current, me.p4_table)
           /\ proc' = [[table EXCEPT ![current] = Dead, ![p].wait_target_pid = AnyPid]
                         EXCEPT ![p].status = "RUNNING"]
           /\ current' = p /\ halted' = halted
      \/ \E p \in parents :
           /\ table[p].status \notin {"DEAD", "ZOMBIE"}
           /\ live' = AfterRelease(freed, live, current, me.p4_table)
           /\ IF table[p].status \in {"READY", "WAITING"}
              THEN proc' = [[freed EXCEPT ![p].wait_target_pid = AnyPid]
                              EXCEPT ![p].status = "RUNNING"]
              ELSE proc' = freed
           /\ current' = p /\ halted' = halted
      \/ proc' = zombie /\ halted' = TRUE /\ current' = current /\ live' = live
  BY Zenon DEF ExitProcess, SwitchTo, Halt
<1>6. \A p \in parents : p \in Slots /\ p # current /\ table[p].status # "RUNNING"
  <2> SUFFICES ASSUME NEW p \in parents
               PROVE  p \in Slots /\ p # current /\ table[p].status # "RUNNING"
    OBVIOUS
  <2>1. p \in Slots /\ proc[p].pid = me.parent_pid
    BY <1>4
  <2>2. p # current
    BY <1>2, <1>3, <2>1, IntPids DEF Numbered
  <2> QED
    BY <1>2, <1>4, <2>1, <2>2 DEF CurrentMayRun
<1> HIDE DEF table, parents
<1>7. /\ zombie \in [Slots -> ProcessT]
      /\ zombie[current].status = "ZOMBIE" /\ zombie[current].pid = table[current].pid
      /\ zombie[current].parent_pid = table[current].parent_pid
      /\ zombie[current].is_thread = table[current].is_thread
      /\ zombie[current].uid = table[current].uid
      /\ zombie[current].p4_table = table[current].p4_table
      /\ \A o \in Slots \ {current} : zombie[o] = table[o]
  BY <1>2, <1>4 DEF ProcessT, Statuses
<1> HIDE DEF zombie
<1>8. /\ freed \in [Slots -> ProcessT]
      /\ freed[current].status = "ZOMBIE" /\ freed[current].pid = zombie[current].pid
      /\ freed[current].parent_pid = zombie[current].parent_pid
      /\ freed[current].uid = zombie[current].uid
      /\ freed[current].p4_table = NoSpace
      /\ \A o \in Slots \ {current} : freed[o] = zombie[o]
  BY <1>2, <1>7 DEF ProcessT
<1> HIDE DEF freed
<1>9. \A o \in Slots \ {current} :
        /\ table[o].status = "DEAD" <=> proc[o].status = "DEAD"
        /\ table[o].status = "ZOMBIE" <=> proc[o].status = "ZOMBIE"
        /\ table[o].status = "RUNNING" <=> proc[o].status = "RUNNING"
        /\ table[o].p4_table = proc[o].p4_table
  BY <1>4
<1>10. ASSUME NEW p \in parents, table[p].status = "WAITING",
              live' = AfterRelease(table, live, current, me.p4_table),
              proc' = [[table EXCEPT ![current] = Dead, ![p].wait_target_pid = AnyPid]
                         EXCEPT ![p].status = "RUNNING"],
              current' = p, halted' = halted
       PROVE  IInv'
  <2> DEFINE reset == [table[p] EXCEPT !.wait_target_pid = AnyPid]
             running == [reset EXCEPT !.status = "RUNNING"]
  <2>1. p \in Slots /\ p # current
    BY <1>6
  <2>2. proc' = [o \in Slots |-> IF o = current THEN Dead
                                 ELSE IF o = p THEN running ELSE table[o]]
    BY Zenon, <1>2, <1>4, <1>10, <2>1
  <2>3. /\ reset \in ProcessT /\ reset.pid = table[p].pid
        /\ reset.parent_pid = table[p].parent_pid
        /\ reset.is_thread = table[p].is_thread /\ reset.uid = table[p].uid
        /\ reset.p4_table = table[p].p4_table
    BY <1>4, <2>1 DEF ProcessT, AnyPid
  <2> HIDE DEF reset
  <2>4. /\ running \in ProcessT /\ running.pid = reset.pid
        /\ running.parent_pid = reset.parent_pid
        /\ running.is_thread = reset.is_thread /\ running.uid = reset.uid
        /\ running.p4_table = reset.p4_table /\ running.status = "RUNNING"
    BY <2>3 DEF ProcessT, Statuses
  <2> HIDE DEF running
  <2>5. /\ proc' \in [Slots -> ProcessT] /\ proc'[current] = Dead /\ proc'[p] = running
        /\ \A o \in Slots \ {current, p} : proc'[o] = table[o]
    BY <1>2, <1>4, <2>1, <2>2, <2>4, DeadTyped
  <2>6. live' = AfterRelease(proc, live, current, me.p4_table)
    <3>1. AfterRelease(table, live, current, me.p4_table)
            = AfterRelease(proc, live, current, me.p4_table)
      BY <1>9, SameUsers
    <3> QED
      BY <1>10, <3>1
  <2>7. TypeOK'
    <3>1. live' \subseteq live
      BY <2>6 DEF AfterRelease
    <3> QED
      BY <1>1, <1>2, <1>10, <2>1, <2>5, <3>1 DEF TypeOK
  <2>8. CurrentMayRun'
    <3>1. proc'[current].status = "DEAD"
      BY <2>5 DEF Dead, Entry
    <3> QED
      BY <1>2, <1>9, <1>10, <2>1, <2>4, <2>5, <3>1 DEF CurrentMayRun
  <2>9. \A o \in Slots \ {current} : SameProcess(o)
    <3>1. SameProcess(p)
      BY <1>4, <1>9, <1>10, <2>1, <2>3, <2>4, <2>5 DEF SameProcess
    <3>2. \A o \in Slots \ {current, p} : SameProcess(o)
      BY <1>4, <1>9, <2>5 DEF SameProcess
    <3> QED
      BY <3>1, <3>2
  <2>10. halted' \in BOOLEAN
    BY <2>7 DEF TypeOK
  <2> QED
    BY <1>1, <1>2, <1>3, <2>5, <2>6, <2>7, <2>8, <2>9, <2>10, RemovalStep
<1>11. ASSUME NEW p \in parents, table[p].status \notin {"DEAD", "ZOMBIE"},
              live' = AfterRelease(freed, live, current, me.p4_table),
              IF table[p].status \in {"READY", "WAITING"}
              THEN proc' = [[freed EXCEPT ![p].wait_target_pid = AnyPid]
                              EXCEPT ![p].status = "RUNNING"]
              ELSE proc' = freed,
              current' = p, halted' = halted
       PROVE  IInv'
  <2> DEFINE reset == [freed[p] EXCEPT !.wait_target_pid = AnyPid]
             running == [reset EXCEPT !.status = "RUNNING"]
  <2>1. p \in Slots /\ p # current /\ table[p].status # "RUNNING"
    BY <1>6
  <2>2. /\ reset \in ProcessT /\ reset.pid = freed[p].pid
        /\ reset.parent_pid = freed[p].parent_pid
        /\ reset.is_thread = freed[p].is_thread /\ reset.uid = freed[p].uid
        /\ reset.p4_table = freed[p].p4_table
    BY <1>8, <2>1 DEF ProcessT, AnyPid
  <2>3. proc' = [freed EXCEPT ![p] = running] \/
        (table[p].status \notin {"READY", "WAITING"} /\ proc' = freed)
    BY Zenon, <1>8, <1>11, <2>1
  <2> HIDE DEF reset
  <2>4. /\ running \in ProcessT /\ running.pid = reset.pid
        /\ running.parent_pid = reset.parent_pid
        /\ running.is_thread = reset.is_thread /\ running.uid = reset.uid
        /\ running.p4_table = reset.p4_table /\ running.status = "RUNNING"
    BY <2>2 DEF ProcessT, Statuses
  <2> HIDE DEF running
  <2>5. /\ proc' \in [Slots -> ProcessT]
        /\ \A o \in Slots \ {p} : proc'[o] = freed[o]
        /\ \/ proc'[p] = running
           \/ table[p].status \notin {"READY", "WAITING"} /\ proc'[p] = freed[p]
    BY <1>8, <2>1, <2>3, <2>4
  <2>6. freed[p] = table[p] /\ \A o \in Slots \ {current} : freed[o] = table[o]
    BY <1>7, <1>8, <2>1
  <2>7. live' = AfterRelease(proc, live, current, me.p4_table)
    <3>1. \A o \in Slots \ {current} :
            /\ freed[o].status = "DEAD" <=> proc[o].status = "DEAD"
            /\ freed[o].p4_table = proc[o].p4_table
      BY <1>9, <2>6
    <3>2. AfterRelease(freed, live, current, me.p4_table)
            = AfterRelease(proc, live, current, me.p4_table)
      BY <3>1, SameUsers
    <3> QED
      BY <1>11, <3>2
  <2>8. TypeOK'
    <3>1. live' \subseteq live
      BY <2>7 DEF AfterRelease
    <3> QED
      BY <1>1, <1>2, <1>11, <2>1, <2>5, <3>1 DEF TypeOK
  <2>9. proc'[p].status \in {"RUNNING", "PAUSED"}
    <3>1. table[p].status \in Statuses
      BY <1>4, <2>1 DEF ProcessT
    <3> QED
      BY <1>11, <2>1, <2>4, <2>5, <2>6, <3>1 DEF Statuses
  <2>10. CurrentMayRun'
    BY <1>2, <1>8, <1>9, <1>11, <2>1, <2>5, <2>6, <2>9 DEF CurrentMayRun
  <2>11. \A o \in Slots \ {current} : SameProcess(o)
    <3>1. /\ proc'[p].pid = table[p].pid /\ proc'[p].parent_pid = table[p].parent_pid
          /\ proc'[p].is_thread = table[p].is_thread /\ proc'[p].uid = table[p].uid
          /\ proc'[p].p4_table = table[p].p4_table
      BY <2>2, <2>4, <2>5, <2>6
    <3>2. SameProcess(p)
      BY <1>4, <1>9, <1>11, <2>1, <2>9, <3>1 DEF SameProcess
    <3>3. \A o \in Slots \ {current, p} : SameProcess(o)
      BY <1>4, <1>9, <2>5, <2>6 DEF SameProcess
    <3> QED
      BY <3>2, <3>3
  <2>12. /\ proc'[current].status = "ZOMBIE" /\ proc'[current].pid = proc[current].pid
         /\ proc'[current].parent_pid = proc[current].parent_pid
         /\ proc'[current].uid = proc[current].uid /\ proc'[current].p4_table = NoSpace
    BY <1>2, <1>4, <1>7, <1>8, <2>1, <2>5
  <2>13. halted' \in BOOLEAN
    BY <2>8 DEF TypeOK
  <2> QED
    BY <1>1, <1>2, <1>3, <2>7, <2>8, <2>10, <2>11, <2>12, <2>13, RemovalStep
<1>12. CASE proc' = zombie /\ halted' = TRUE /\ current' = current /\ live' = live
  <2>1. \A o \in Slots :
          /\ proc'[o].pid = proc[o].pid /\ proc'[o].parent_pid = proc[o].parent_pid
          /\ proc'[o].is_thread = proc[o].is_thread /\ proc'[o].uid = proc[o].uid
          /\ proc'[o].p4_table = proc[o].p4_table
    BY <1>4, <1>7, <1>12
  <2>2. /\ proc'[current].status = "ZOMBIE"
        /\ \A o \in Slots \ {current} :
             /\ proc'[o].status = "DEAD" <=> proc[o].status = "DEAD"
             /\ proc'[o].status = "ZOMBIE" <=> proc[o].status = "ZOMBIE"
             /\ proc'[o].status = "RUNNING" <=> proc[o].status = "RUNNING"
    BY <1>7, <1>9, <1>12
  <2>3. TypeOK'
    <3>1. halted' \in BOOLEAN
      BY <1>12
    <3> QED
      BY <1>1, <1>2, <1>7, <1>12, <3>1 DEF TypeOK
  <2>4. Numbered'
    BY <1>1, <1>2, <1>3, <2>1, <2>2 DEF Numbered, Alive
  <2>5. Cleared'
    BY <1>2, <1>12, <2>1, <2>2 DEF IInv, Cleared, Alive
  <2>6. CurrentMayRun'
    BY <1>2, <1>12, <2>2 DEF CurrentMayRun
  <2>7. PidsUnique'
    BY <1>1, <1>2, <1>3, <2>1, <2>2 DEF IInv, PidsUnique, Alive, Live
  <2>8. SpacesAccounted'
    BY <1>2, <1>3, <1>12, <2>1, <2>2 DEF IInv, SpacesAccounted, Alive, Live
  <2>9. NoUserProcessAtLogin'
    BY <1>2, <1>3, <2>1, <2>2 DEF IInv, NoUserProcessAtLogin, Alive
  <2> QED
    BY <2>3, <2>4, <2>5, <2>6, <2>7, <2>8, <2>9 DEF IInv
<1> QED
  BY Zenon, <1>5, <1>10, <1>11, <1>12

\* Every step preserves the invariant.
LEMMA ProcNext == IInv /\ [Next]_vars => IInv'
<1> SUFFICES ASSUME IInv, [Next]_vars PROVE IInv'
  OBVIOUS
<1>1. CASE UNCHANGED vars
  BY Zenon, <1>1 DEF vars, IInv, TypeOK, Numbered, Cleared, PidsUnique, CurrentMayRun,
              SpacesAccounted, NoUserProcessAtLogin, Alive, Live
<1>2. CASE Next
  BY <1>2, ForkStep, ForkFailsStep, RelaunchFailsStep, ExecStep, ExitThreadStep, ExitProcessStep,
     CloneStep, Wait4Step, KillStep, PauseStep, ResumeStep, YieldStep, PreemptStep,
     LoginStep, LogoutStep DEF Next
<1> QED
  BY <1>1, <1>2

\* The invariant holds throughout.
LEMMA ProcInvariant == Spec => []IInv
BY ProcInit, ProcNext, PTL DEF Spec

\* The CPU is never left with a process that ended or is blocked, and no second
\* process is marked RUNNING: for any size of process_list, however exits,
\* kills, waits, vforks and logouts follow one another.
THEOREM AlwaysCurrentMayRun == Spec => []CurrentMayRun
<1>1. IInv => CurrentMayRun
  BY DEF IInv
<1> QED
  BY <1>1, ProcInvariant, PTL

\* process_release_address_space destroys a P4 table exactly when its last user
\* lets go, for any number of threads and vfork children that share it.
THEOREM AlwaysSpacesAccounted == Spec => []SpacesAccounted
<1>1. IInv => SpacesAccounted
  BY DEF IInv
<1> QED
  BY <1>1, ProcInvariant, PTL

\* Pids stay unique, and process 1 never ends.
THEOREM AlwaysPidsUnique == Spec => []PidsUnique
<1>1. IInv => PidsUnique
  BY DEF IInv
<1> QED
  BY <1>1, ProcInvariant, PTL

\* session_logout leaves no process of the user behind, however many there were
\* and whoever their parents are.
THEOREM AlwaysNoUserProcessAtLogin == Spec => []NoUserProcessAtLogin
<1>1. IInv => NoUserProcessAtLogin
  BY DEF IInv
<1> QED
  BY <1>1, ProcInvariant, PTL

\* Only the two exits halt, each after it found nobody to run, and the failing
\* relaunch of the shell.
LEMMA HaltStep ==
  IInv /\ HaltsOnlyWithoutSuccessor /\ [Next]_vars => HaltsOnlyWithoutSuccessor'
<1> SUFFICES ASSUME IInv, HaltsOnlyWithoutSuccessor, [Next]_vars
             PROVE  HaltsOnlyWithoutSuccessor'
  OBVIOUS
<1>1. CASE UNCHANGED vars
  BY <1>1 DEF vars, HaltsOnlyWithoutSuccessor, Ready, Live
<1>2. CASE ExitThread
  <2> DEFINE table == [CompleteVfork(proc, current) EXCEPT ![current] = Dead]
             successors == Successors(table, proc[current].thread_group_id)
  <2>1. /\ ~halted
        /\ \/ successors = {} /\ Halt(table)
           \/ (\E n \in successors : SwitchTo(table, n)) /\ UNCHANGED halted
    BY <1>2, Zenon DEF ExitThread
  <2>2. ~halted /\ (halted' => successors = {} /\ proc' = table /\ current' = current)
    <3> HIDE DEF table, successors
    <3> QED
      BY <2>1 DEF Halt
  <2>3. successors = {} => Ready(table) = {}
    BY Zenon DEF Successors
  <2>4. current \in Slots /\ proc \in [Slots -> ProcessT]
    BY DEF IInv, TypeOK
  <2>5. CompleteVfork(proc, current) \in [Slots -> ProcessT]
    BY <2>4, CompleteVforkEffect
  <2>6. table[current] = Dead
    BY <2>4, <2>5
  <2>7. table[current].status = "DEAD"
    BY <2>6 DEF Dead, Entry
  <2> HIDE DEF table, successors
  <2>8. halted' => proc'[current'].status = "DEAD" /\ Ready(proc') = {}
    BY <2>2, <2>3, <2>7
  <2> QED
    BY <2>8 DEF HaltsOnlyWithoutSuccessor, Ready
<1>3. CASE ExitProcess
  <2> DEFINE table == CompleteVfork(proc, current)
             zombie == [table EXCEPT ![current].status = "ZOMBIE"]
  <2>1. ~halted
    BY Zenon, <1>3 DEF ExitProcess
  <2>2. halted' =>
          /\ proc' = zombie /\ current' = current
          /\ \A p \in Slots :
               table[p].status # "DEAD" /\ table[p].pid = proc[current].parent_pid
                 => table[p].status = "ZOMBIE"
    BY Zenon, <1>3, <2>1 DEF ExitProcess, Halt
  <2>3. current \in Slots /\ proc \in [Slots -> ProcessT]
    BY DEF IInv, TypeOK
  <2>4. /\ table \in [Slots -> ProcessT]
        /\ \A o \in Slots : /\ table[o].pid = proc[o].pid
                            /\ table[o].parent_pid = proc[o].parent_pid
    BY <2>3, CompleteVforkEffect
  <2> HIDE DEF table
  <2>5. /\ zombie[current].status = "ZOMBIE"
        /\ zombie[current].parent_pid = table[current].parent_pid
        /\ \A o \in Slots : zombie[o].pid = table[o].pid
        /\ \A o \in Slots \ {current} : zombie[o] = table[o]
    BY <2>3, <2>4 DEF ProcessT
  <2> HIDE DEF zombie
  <2>6. halted' =>
          /\ proc'[current'].status = "ZOMBIE"
          /\ \A p \in Slots : proc'[p].pid = proc'[current'].parent_pid =>
                                proc'[p].status \in {"DEAD", "ZOMBIE"}
    BY <2>2, <2>3, <2>4, <2>5
  <2> QED
    BY <2>6 DEF HaltsOnlyWithoutSuccessor, Live
<1>4. CASE RelaunchFails
  <2>1. proc[current].pid = 1 /\ ~halted /\ UNCHANGED <<proc, current>>
    BY <1>4 DEF RelaunchFails, Halt
  <2>2. Live(current)
    BY <2>1 DEF IInv, CurrentMayRun, Live
  <2> QED
    BY <2>1, <2>2 DEF HaltsOnlyWithoutSuccessor, Live
<1>5. CASE Next /\ ~ExitThread /\ ~ExitProcess /\ ~RelaunchFails
  <2>1. ~halted /\ halted' = halted
    BY Zenon, <1>5 DEF Next, Fork, ForkFails, Exec, Clone, Wait4, Kill, Pause, Resume,
                Yield, Preempt, PickNext, Login, Logout
  <2> QED
    BY <2>1 DEF HaltsOnlyWithoutSuccessor
<1> QED
  BY <1>1, <1>2, <1>3, <1>5, <1>4

\* The machine stops only when a process ended without a live parent, a thread
\* ended and no process was READY, or process 1 ended and its shell could not be
\* started again.
THEOREM AlwaysHaltsOnlyWithoutSuccessor == Spec => []HaltsOnlyWithoutSuccessor
<1>1. Init => HaltsOnlyWithoutSuccessor
  BY DEF Init, HaltsOnlyWithoutSuccessor
<1> QED
  BY <1>1, HaltStep, ProcInvariant, PTL DEF Spec
----------------------------------------------------------------------------
(* What a step does to each slot.  The action properties, and that no parent  *)
(* misses the end of its child, are read off from this.                       *)

\* The process in slot o stays who it is; only process 1 changes its user.
SameIdentity(o) ==
  /\ proc'[o].pid = proc[o].pid
  /\ proc'[o].parent_pid = proc[o].parent_pid
  /\ proc'[o].is_thread = proc[o].is_thread
  /\ proc'[o].uid = proc[o].uid \/ proc[o].pid = 1

\* It waits for what it waited for, and goes on living or being dead.
Undisturbed(o) ==
  /\ SameIdentity(o)
  /\ proc'[o].status = "WAITING" =>
       /\ proc'[o].wait_target_pid = proc[o].wait_target_pid
       /\ proc'[o].vfork_child_pid = proc[o].vfork_child_pid
  /\ proc'[o].status = "DEAD" <=> proc[o].status = "DEAD"
  /\ proc'[o].status = "ZOMBIE" <=> proc[o].status = "ZOMBIE"
  /\ proc'[o].status = "WAITING" <=> proc[o].status = "WAITING"

\* It lives and does not, or no longer, wait.
Active(o) == SameIdentity(o) /\ Live(o) /\ proc'[o].status \notin {"DEAD", "ZOMBIE", "WAITING"}

\* It is a child the current process just made.
Created(o) ==
  /\ ~Alive(o)
  /\ proc'[o].status \in {"READY", "RUNNING"} /\ proc'[o].pid = next_pid
  /\ proc'[o].uid = proc[current].uid

\* It has ended.
Ended(o) ==
  /\ Live(o)
  /\ \/ proc'[o] = Dead
     \/ /\ proc'[o].status = "ZOMBIE" /\ proc'[o].is_thread = proc[o].is_thread
        /\ proc'[o].pid = proc[o].pid /\ proc'[o].parent_pid = proc[o].parent_pid
        /\ proc'[o].uid = proc[o].uid

LEMMA ForkEffect ==
  ASSUME IInv, Fork
  PROVE  \E s \in Slots :
           /\ Created(s) /\ proc'[s].parent_pid = proc[current].pid /\ ~proc'[s].is_thread
           /\ \A o \in Slots \ {s} : Undisturbed(o)
<1> DEFINE child(a) == Entry("READY", next_pid, proc[current].pid, next_pid, FALSE,
                             proc[current].uid, a)
<1>1. PICK s \in Slots, a \in Spaces \ live :
        ~Alive(s) /\ proc' = [proc EXCEPT ![s] = child(a)]
  BY Zenon DEF Fork
<1>2. proc'[s] = child(a) /\ \A o \in Slots \ {s} : proc'[o] = proc[o]
  BY <1>1 DEF IInv, TypeOK
<1>3. /\ proc'[s].status = "READY" /\ proc'[s].pid = next_pid
      /\ proc'[s].parent_pid = proc[current].pid /\ proc'[s].is_thread = FALSE
      /\ proc'[s].uid = proc[current].uid
  BY <1>2 DEF Entry
<1>4. Created(s)
  BY Zenon, <1>1, <1>3 DEF Created
<1>5. \A o \in Slots \ {s} : Undisturbed(o)
  BY <1>2 DEF Undisturbed, SameIdentity
<1> QED
  BY <1>3, <1>4, <1>5

LEMMA CloneEffect ==
  ASSUME IInv, NEW kind \in CloneKinds, Clone(kind)
  PROVE  \E s \in Slots :
           /\ Created(s)
           /\ proc'[s].is_thread = kind.thread
           /\ ~kind.thread => proc'[s].parent_pid = proc[current].pid
           /\ kind.thread => proc'[s].parent_pid = proc[current].parent_pid
           /\ \A o \in Slots \ {s, current} : Undisturbed(o)
           /\ s # current
           /\ \/ Undisturbed(current)
              \/ /\ SameIdentity(current) /\ proc'[current].status = "WAITING"
                 /\ proc'[current].vfork_child_pid = next_pid
<1> DEFINE me == proc[current]
           child == Entry("READY", next_pid,
                IF kind.thread THEN me.parent_pid ELSE me.pid,
                IF kind.thread THEN me.thread_group_id ELSE next_pid,
                kind.thread, me.uid, me.p4_table)
           borrower == [child EXCEPT !.vfork_parent_pid = me.pid]
           lender == [me EXCEPT !.vfork_child_pid = next_pid]
           blocked == [lender EXCEPT !.status = "WAITING"]
<1>1. PICK s \in Slots :
        /\ ~Alive(s)
        /\ IF kind.vfork
           THEN SwitchTo([proc EXCEPT ![s] = borrower,
                    ![current].vfork_child_pid = next_pid,
                    ![current].status = "WAITING"], s)
           ELSE proc' = [proc EXCEPT ![s] = child] /\ UNCHANGED current
  BY Zenon DEF Clone
<1>2. ~halted /\ next_pid <= MaxPid
  BY Zenon DEF Clone, TakePid
<1>3. TypeOK /\ current \in Slots /\ s # current
  BY <1>1, <1>2 DEF IInv, TypeOK, CurrentMayRun, Alive
<1>4. me \in ProcessT /\ next_pid \in 0..MaxPid /\ kind.thread \in BOOLEAN
  BY <1>2, <1>3, CloneKindsAssumption DEF TypeOK
<1>5. child \in ProcessT
  BY <1>4 DEF Entry, ProcessT, Statuses, AnyPid
<1>6. /\ child.status = "READY" /\ child.pid = next_pid
      /\ child.parent_pid = IF kind.thread THEN me.parent_pid ELSE me.pid
      /\ child.uid = me.uid /\ child.is_thread = kind.thread
  BY Zenon DEF Entry
<1> HIDE DEF child
<1>7. CASE kind.vfork
  <2>1. proc' = [[proc EXCEPT ![s] = borrower,
                    ![current].vfork_child_pid = next_pid,
                    ![current].status = "WAITING"] EXCEPT ![s].status = "RUNNING"]
    BY Zenon, <1>1, <1>7 DEF SwitchTo
  <2>2. proc' = [o \in Slots |-> IF o = s THEN [borrower EXCEPT !.status = "RUNNING"]
                                 ELSE IF o = current THEN blocked ELSE proc[o]]
    BY Zenon, <2>1, <1>3 DEF TypeOK
  <2>3. /\ borrower \in ProcessT /\ borrower.pid = child.pid
        /\ borrower.parent_pid = child.parent_pid /\ borrower.uid = child.uid
        /\ borrower.is_thread = child.is_thread
    BY <1>4, <1>5 DEF ProcessT
  <2>4. /\ lender \in ProcessT /\ lender.pid = me.pid
        /\ lender.parent_pid = me.parent_pid /\ lender.uid = me.uid
        /\ lender.is_thread = me.is_thread /\ lender.vfork_child_pid = next_pid
    BY <1>4 DEF ProcessT
  <2> HIDE DEF borrower, lender
  <2>5. /\ blocked.status = "WAITING" /\ blocked.pid = lender.pid
        /\ blocked.parent_pid = lender.parent_pid /\ blocked.uid = lender.uid
        /\ blocked.is_thread = lender.is_thread
        /\ blocked.vfork_child_pid = lender.vfork_child_pid
    BY <2>4 DEF ProcessT
  <2>6. /\ proc'[s].status = "RUNNING" /\ proc'[s].pid = next_pid
        /\ proc'[s].parent_pid = child.parent_pid
        /\ proc'[s].uid = me.uid /\ proc'[s].is_thread = kind.thread
    BY <2>2, <2>3, <1>6 DEF ProcessT
  <2> HIDE DEF blocked
  <2>7. proc'[current] = blocked /\ \A o \in Slots \ {s, current} : proc'[o] = proc[o]
    BY <2>2, <1>3
  <2>8. SameIdentity(current) /\ proc'[current].status = "WAITING"
        /\ proc'[current].vfork_child_pid = next_pid
    BY Zenon, <2>4, <2>5, <2>7 DEF SameIdentity
  <2>9. \A o \in Slots \ {s, current} : Undisturbed(o)
    BY <2>7 DEF Undisturbed, SameIdentity
  <2>10. Created(s)
    BY <1>1, <2>6 DEF Created
  <2> QED
    BY Zenon, <1>3, <1>6, <2>6, <2>8, <2>9, <2>10
<1>8. CASE ~kind.vfork
  <2>1. proc'[s] = child /\ \A o \in Slots \ {s} : proc'[o] = proc[o]
    BY <1>1, <1>3, <1>8 DEF TypeOK
  <2>2. \A o \in Slots \ {s} : Undisturbed(o)
    BY Zenon, <2>1 DEF Undisturbed, SameIdentity
  <2>3. Created(s)
    BY <1>1, <1>6, <2>1 DEF Created
  <2> QED
    BY Zenon, <1>3, <1>6, <2>1, <2>2, <2>3
<1> QED
  BY Zenon, <1>7, <1>8

\* Putting the current process back and choosing another one.
LEMMA PickNextEffect ==
  ASSUME IInv, NEW st \in {"READY", "PAUSED"},
         PickNext([proc EXCEPT ![current].status = st])
  PROVE  \A o \in Slots : Undisturbed(o)
<1> DEFINE table == [proc EXCEPT ![current].status = st]
<1>1. TypeOK /\ CurrentMayRun /\ current \in Slots
  BY DEF IInv, TypeOK
<1>2. table \in [Slots -> ProcessT]
  BY <1>1 DEF TypeOK, ProcessT, Statuses
<1>3. \A o \in Slots : table[o].status = IF o = current THEN st ELSE proc[o].status
  BY <1>1 DEF TypeOK, ProcessT
<1>4. \A o \in Slots :
        /\ table[o].pid = proc[o].pid /\ table[o].parent_pid = proc[o].parent_pid
        /\ table[o].is_thread = proc[o].is_thread /\ table[o].uid = proc[o].uid
        /\ table[o].wait_target_pid = proc[o].wait_target_pid
        /\ table[o].vfork_child_pid = proc[o].vfork_child_pid
  BY <1>1 DEF TypeOK, ProcessT
<1>5. ~halted
  BY DEF PickNext
<1>6. PICK n \in Slots : /\ n = current \/ table[n].status = "READY"
                         /\ proc' = [table EXCEPT ![n].status = "RUNNING"]
  BY <1>1 DEF PickNext, SwitchTo, Ready
<1> HIDE DEF table
<1>7. \A o \in Slots :
        /\ proc'[o].status = IF o = n THEN "RUNNING" ELSE table[o].status
        /\ proc'[o].pid = table[o].pid /\ proc'[o].parent_pid = table[o].parent_pid
        /\ proc'[o].is_thread = table[o].is_thread /\ proc'[o].uid = table[o].uid
        /\ proc'[o].wait_target_pid = table[o].wait_target_pid
        /\ proc'[o].vfork_child_pid = table[o].vfork_child_pid
  BY <1>2, <1>6 DEF ProcessT
<1>8. proc[current].status \in {"RUNNING", "READY", "PAUSED"}
  BY <1>1, <1>5 DEF CurrentMayRun
<1> QED
  BY <1>1, <1>3, <1>4, <1>6, <1>7, <1>8 DEF Undisturbed, SameIdentity

\* Steps that start, end and block nobody.
LEMMA QuietEffect ==
  ASSUME IInv,
         \/ ForkFails \/ RelaunchFails \/ Yield \/ Preempt \/ Login
         \/ \E s \in Slots : Pause(s) \/ Resume(s)
  PROVE  \A o \in Slots : Undisturbed(o)
<1>1. TypeOK /\ CurrentMayRun /\ current \in Slots
  BY DEF IInv, TypeOK
<1>2. CASE ForkFails
  BY <1>2 DEF ForkFails, Undisturbed, SameIdentity
<1>3. CASE RelaunchFails
  BY <1>3 DEF RelaunchFails, Halt, Undisturbed, SameIdentity
<1>4. CASE Yield
  <2> DEFINE st == IF proc[current].status = "RUNNING" THEN "READY"
                   ELSE proc[current].status
  <2>1. ~halted
    BY <1>4 DEF Yield, PickNext
  <2>2. st \in {"READY", "PAUSED"}
    BY <1>1, <2>1 DEF CurrentMayRun
  <2>3. PickNext([proc EXCEPT ![current].status = st])
    BY <1>4 DEF Yield
  <2> HIDE DEF st
  <2> QED
    BY Zenon, <2>2, <2>3, PickNextEffect
<1>5. CASE Preempt
  BY <1>5, PickNextEffect DEF Preempt
<1>6. CASE Login
  BY <1>1, <1>6 DEF Login, TypeOK, ProcessT, Undisturbed, SameIdentity
<1>7. ASSUME NEW s \in Slots, Pause(s) PROVE \A o \in Slots : Undisturbed(o)
  BY <1>1, <1>7 DEF Pause, TypeOK, ProcessT, Undisturbed, SameIdentity
<1>8. ASSUME NEW s \in Slots, Resume(s) PROVE \A o \in Slots : Undisturbed(o)
  BY <1>1, <1>8 DEF Resume, Resumable, TypeOK, ProcessT, Undisturbed, SameIdentity
<1> QED
  BY <1>2, <1>4, <1>5, <1>6, <1>7, <1>8, <1>3

LEMMA Wait4Effect ==
  ASSUME IInv, NEW target \in {AnyPid} \cup 1..MaxPid, Wait4(target)
  PROVE  \/ \E z \in Slots :
              /\ proc[z].status = "ZOMBIE" /\ proc[z].parent_pid = proc[current].pid
              /\ proc'[z] = Dead
              /\ \A o \in Slots \ {z} : Undisturbed(o)
         \/ \E n \in Slots \ {current} :
              /\ Live(n) /\ proc[n].parent_pid = proc[current].pid
              /\ Matches(target, proc[n].pid)
              /\ \A o \in Slots \ {current} : Undisturbed(o)
              /\ SameIdentity(current) /\ proc'[current].status = "WAITING"
              /\ proc'[current].wait_target_pid = target
<1> DEFINE mine == {s \in Slots : /\ Alive(s)
                                  /\ proc[s].parent_pid = proc[current].pid
                                  /\ Matches(target, proc[s].pid)}
           blocked == [proc[current] EXCEPT !.status = "WAITING"]
           waiter == [blocked EXCEPT !.wait_target_pid = target]
<1>1. TypeOK /\ Numbered /\ current \in Slots
  BY DEF IInv, TypeOK
<1>2. CASE \E z \in mine : /\ proc[z].status = "ZOMBIE"
                           /\ proc' = [proc EXCEPT ![z] = Dead] /\ current' = current
  <2>1. PICK z \in Slots : /\ proc[z].status = "ZOMBIE" /\ proc[z].parent_pid = proc[current].pid
                           /\ proc' = [proc EXCEPT ![z] = Dead]
    BY Zenon, <1>2
  <2>2. proc'[z] = Dead /\ \A o \in Slots \ {z} : proc'[o] = proc[o]
    BY <1>1, <2>1 DEF TypeOK
  <2>3. \A o \in Slots \ {z} : Undisturbed(o)
    BY <2>2 DEF Undisturbed, SameIdentity
  <2> QED
    BY Zenon, <2>1, <2>2, <2>3
<1>3. CASE \E n \in mine \cap Ready(proc) :
             SwitchTo([proc EXCEPT ![current].status = "WAITING",
                                   ![current].wait_target_pid = target], n)
  <2>1. PICK n \in Slots :
          /\ Alive(n) /\ proc[n].parent_pid = proc[current].pid /\ proc[n].status = "READY"
          /\ Matches(target, proc[n].pid)
          /\ proc' = [[proc EXCEPT ![current].status = "WAITING",
                                   ![current].wait_target_pid = target]
                        EXCEPT ![n].status = "RUNNING"]
    BY Zenon, <1>3 DEF SwitchTo, Ready
  <2>2. n # current
    BY <1>1, <2>1, IntPids DEF Numbered
  <2>3. proc' = [o \in Slots |-> IF o = n THEN [proc[n] EXCEPT !.status = "RUNNING"]
                                 ELSE IF o = current THEN waiter ELSE proc[o]]
    BY Zenon, <1>1, <2>1, <2>2 DEF TypeOK
  <2>4. /\ blocked \in ProcessT /\ blocked.pid = proc[current].pid
        /\ blocked.parent_pid = proc[current].parent_pid
        /\ blocked.is_thread = proc[current].is_thread /\ blocked.uid = proc[current].uid
        /\ blocked.status = "WAITING"
    BY <1>1 DEF TypeOK, ProcessT, Statuses
  <2> HIDE DEF blocked
  <2>5. /\ waiter.pid = blocked.pid /\ waiter.parent_pid = blocked.parent_pid
        /\ waiter.is_thread = blocked.is_thread /\ waiter.uid = blocked.uid
        /\ waiter.status = "WAITING" /\ waiter.wait_target_pid = target
    BY <2>4 DEF ProcessT, AnyPid
  <2> HIDE DEF waiter
  <2>6. /\ proc'[n].status = "RUNNING" /\ proc'[n].pid = proc[n].pid
        /\ proc'[n].parent_pid = proc[n].parent_pid
        /\ proc'[n].is_thread = proc[n].is_thread /\ proc'[n].uid = proc[n].uid
        /\ proc'[n].wait_target_pid = proc[n].wait_target_pid
        /\ proc'[n].vfork_child_pid = proc[n].vfork_child_pid
    BY <1>1, <2>3 DEF TypeOK, ProcessT, Statuses
  <2>7. proc'[current] = waiter /\ \A o \in Slots \ {n, current} : proc'[o] = proc[o]
    BY <1>1, <2>2, <2>3
  <2>8. Undisturbed(n) /\ \A o \in Slots \ {n, current} : Undisturbed(o)
    BY Zenon, <2>1, <2>6, <2>7 DEF Undisturbed, SameIdentity
  <2>9. SameIdentity(current) /\ proc'[current].status = "WAITING"
        /\ proc'[current].wait_target_pid = target
    BY Zenon, <2>4, <2>5, <2>7 DEF SameIdentity
  <2> QED
    BY <2>1, <2>2, <2>8, <2>9 DEF Live
<1> QED
  BY Zenon, <1>2, <1>3 DEF Wait4

\* session_logout: processes of the user are gone, the others undisturbed.
LEMMA LogoutEffect ==
  ASSUME IInv, Logout
  PROVE  /\ \A o \in Slots : (o \in Victims /\ proc'[o] = Dead) \/ (o \notin Victims /\ Undisturbed(o))
         /\ current \notin Victims /\ proc[current].pid = 1
<1> DEFINE table == [s \in Slots |-> IF s \in Victims THEN Dead ELSE proc[s]]
<1>1. proc[current].pid = 1 /\ proc' = [table EXCEPT ![current].uid = LoginUid]
  BY DEF Logout
<1>2. TypeOK /\ current \in Slots /\ current \notin Victims
  BY DEF IInv, TypeOK, Victims
<1>3. table \in [Slots -> ProcessT]
  BY <1>2, DeadTyped DEF TypeOK
<1>4. \A o \in Slots : IF o \in Victims THEN table[o] = Dead ELSE table[o] = proc[o]
  OBVIOUS
<1> HIDE DEF table
<1>5. /\ \A o \in Slots \ {current} : proc'[o] = table[o]
      /\ proc'[current].status = table[current].status /\ proc'[current].pid = table[current].pid
      /\ proc'[current].parent_pid = table[current].parent_pid
      /\ proc'[current].is_thread = table[current].is_thread
      /\ proc'[current].wait_target_pid = table[current].wait_target_pid
      /\ proc'[current].vfork_child_pid = table[current].vfork_child_pid
  BY <1>1, <1>2, <1>3 DEF ProcessT
<1>6. Undisturbed(current)
  BY <1>1, <1>2, <1>4, <1>5 DEF Undisturbed, SameIdentity
<1>7. \A o \in Slots \ {current} : o \notin Victims => Undisturbed(o)
  BY Zenon, <1>4, <1>5 DEF Undisturbed, SameIdentity
<1> QED
  BY <1>1, <1>2, <1>4, <1>5, <1>6, <1>7

\* A vfork child that lets go of its parent leaves what others wait for alone;
\* nobody is left waiting for it.
LEMMA CompleteVforkLinks ==
  ASSUME NEW table \in [Slots -> ProcessT], NEW c \in Slots
  PROVE  /\ CompleteVfork(table, c)[c].vfork_parent_pid = 0
         /\ \A o \in Slots :
              \/ CompleteVfork(table, c)[o] = table[o]
              \/ o = c /\ CompleteVfork(table, c)[o] = [table[c] EXCEPT !.vfork_parent_pid = 0]
              \/ /\ o # c /\ table[o].status # "DEAD" /\ table[o].vfork_child_pid = table[c].pid
                 /\ CompleteVfork(table, c)[o].status # "WAITING"
<1> DEFINE released(o) == [table[o] EXCEPT !.vfork_child_pid = 0]
           woken(o) == [released(o) EXCEPT
                          !.status = IF @ = "WAITING" THEN "READY" ELSE @]
           done == CompleteVfork(table, c)
<1>1. done[c] = [table[c] EXCEPT !.vfork_parent_pid = 0]
  BY DEF CompleteVfork
<1>2. done[c].vfork_parent_pid = 0
  <2> HIDE DEF done
  <2> QED
    BY <1>1 DEF ProcessT
<1>3. ASSUME NEW o \in Slots, o # c
      PROVE  \/ done[o] = table[o]
             \/ /\ table[o].status # "DEAD" /\ table[o].vfork_child_pid = table[c].pid
                /\ done[o].status # "WAITING"
  <2>1. [table[o] EXCEPT !.vfork_child_pid = 0,
                !.status = IF @ = "WAITING" THEN "READY" ELSE @] = woken(o)
    BY DEF ProcessT
  <2>2. \/ done[o] = table[o]
        \/ /\ table[o].status # "DEAD" /\ table[o].vfork_child_pid = table[c].pid
           /\ done[o] = [table[o] EXCEPT !.vfork_child_pid = 0,
                         !.status = IF @ = "WAITING" THEN "READY" ELSE @]
    BY <1>3, Zenon DEF CompleteVfork
  <2>3. released(o) \in ProcessT
    BY DEF ProcessT
  <2> HIDE DEF released
  <2>4. woken(o).status # "WAITING"
    BY <2>3 DEF ProcessT
  <2> HIDE DEF woken, done
  <2> QED
    BY Zenon, <2>1, <2>2, <2>4
<1> HIDE DEF done
<1>4. \A o \in Slots :
        \/ done[o] = table[o]
        \/ o = c /\ done[o] = [table[c] EXCEPT !.vfork_parent_pid = 0]
        \/ /\ o # c /\ table[o].status # "DEAD" /\ table[o].vfork_child_pid = table[c].pid
           /\ done[o].status # "WAITING"
  BY <1>1, <1>3
<1> QED
  BY <1>2, <1>4 DEF done

\* What a vfork child that lets go does to a slot of the table.
VforkDone(table, c, o) ==
  LET done == CompleteVfork(table, c) IN
  /\ done[o].pid = table[o].pid /\ done[o].parent_pid = table[o].parent_pid
  /\ done[o].is_thread = table[o].is_thread /\ done[o].uid = table[o].uid
  /\ \/ /\ done[o].status = table[o].status
        /\ done[o].status = "WAITING" =>
             /\ done[o].wait_target_pid = table[o].wait_target_pid
             /\ done[o].vfork_child_pid = table[o].vfork_child_pid
     \/ /\ o # c /\ table[o].status = "WAITING" /\ done[o].status = "READY"
        /\ table[o].vfork_child_pid = table[c].pid

LEMMA VforkDoneAll ==
  ASSUME NEW table \in [Slots -> ProcessT], NEW c \in Slots
  PROVE  \A o \in Slots : VforkDone(table, c, o)
<1> SUFFICES ASSUME NEW o \in Slots PROVE VforkDone(table, c, o)
  OBVIOUS
<1> DEFINE done == CompleteVfork(table, c)
<1>1. /\ done[o].pid = table[o].pid /\ done[o].parent_pid = table[o].parent_pid
      /\ done[o].is_thread = table[o].is_thread /\ done[o].uid = table[o].uid
      /\ \/ done[o].status = table[o].status
         \/ o # c /\ table[o].status = "WAITING" /\ done[o].status = "READY"
  BY CompleteVforkEffect
<1>2. \/ done[o] = table[o]
      \/ o = c /\ done[o] = [table[c] EXCEPT !.vfork_parent_pid = 0]
      \/ o # c /\ table[o].vfork_child_pid = table[c].pid /\ done[o].status # "WAITING"
  BY CompleteVforkLinks
<1> HIDE DEF done
<1>3. o = c /\ done[o] = [table[c] EXCEPT !.vfork_parent_pid = 0] =>
        /\ done[o].wait_target_pid = table[o].wait_target_pid
        /\ done[o].vfork_child_pid = table[o].vfork_child_pid
  BY DEF ProcessT
<1>4. \/ /\ done[o].status = table[o].status
         /\ done[o].status = "WAITING" =>
              /\ done[o].wait_target_pid = table[o].wait_target_pid
              /\ done[o].vfork_child_pid = table[o].vfork_child_pid
      \/ /\ o # c /\ table[o].status = "WAITING" /\ done[o].status = "READY"
         /\ table[o].vfork_child_pid = table[c].pid
  <2>1. CASE done[o] = table[o]
    BY <2>1
  <2>2. CASE o = c
    BY <1>1, <1>2, <1>3, <2>2
  <2>3. CASE o # c /\ table[o].vfork_child_pid = table[c].pid /\ done[o].status # "WAITING"
    BY <1>1, <2>3
  <2> QED
    BY <1>2, <2>1, <2>2, <2>3
<1> QED
  BY Zenon, <1>1, <1>4 DEF VforkDone, done

\* execve: the caller no longer borrows, and whoever lent to it goes on.
LEMMA ExecEffect ==
  ASSUME IInv, Exec
  PROVE  /\ proc'[current].vfork_parent_pid = 0
         /\ \A o \in Slots :
              \/ Undisturbed(o)
              \/ o # current /\ Active(o) /\ proc[o].vfork_child_pid = proc[current].pid
<1> DEFINE table(a) == [proc EXCEPT ![current].p4_table = a]
<1>1. PICK a \in Spaces : proc' = CompleteVfork(table(a), current)
  BY DEF Exec
<1>2. TypeOK /\ current \in Slots
  BY DEF IInv, TypeOK
<1>3. table(a) \in [Slots -> ProcessT]
  BY <1>2 DEF TypeOK, ProcessT
<1>4. \A o \in Slots :
        /\ table(a)[o].pid = proc[o].pid /\ table(a)[o].parent_pid = proc[o].parent_pid
        /\ table(a)[o].is_thread = proc[o].is_thread /\ table(a)[o].uid = proc[o].uid
        /\ table(a)[o].status = proc[o].status
        /\ table(a)[o].wait_target_pid = proc[o].wait_target_pid
        /\ table(a)[o].vfork_child_pid = proc[o].vfork_child_pid
  BY <1>2 DEF TypeOK, ProcessT
<1> HIDE DEF table
<1>5. /\ proc'[current].vfork_parent_pid = 0
      /\ \A o \in Slots : VforkDone(table(a), current, o)
  BY Zenon, <1>1, <1>2, <1>3, CompleteVforkLinks, VforkDoneAll
<1>6. ASSUME NEW o \in Slots
      PROVE  \/ Undisturbed(o)
             \/ o # current /\ Active(o) /\ proc[o].vfork_child_pid = proc[current].pid
  <2>1. /\ proc'[o].pid = proc[o].pid /\ proc'[o].parent_pid = proc[o].parent_pid
        /\ proc'[o].is_thread = proc[o].is_thread /\ proc'[o].uid = proc[o].uid
        /\ \/ /\ proc'[o].status = proc[o].status
              /\ proc'[o].status = "WAITING" =>
                   /\ proc'[o].wait_target_pid = proc[o].wait_target_pid
                   /\ proc'[o].vfork_child_pid = proc[o].vfork_child_pid
           \/ /\ o # current /\ proc[o].status = "WAITING" /\ proc'[o].status = "READY"
              /\ proc[o].vfork_child_pid = proc[current].pid
    <3>1. /\ proc'[o].pid = table(a)[o].pid /\ proc'[o].parent_pid = table(a)[o].parent_pid
          /\ proc'[o].is_thread = table(a)[o].is_thread /\ proc'[o].uid = table(a)[o].uid
          /\ \/ /\ proc'[o].status = table(a)[o].status
                /\ proc'[o].status = "WAITING" =>
                     /\ proc'[o].wait_target_pid = table(a)[o].wait_target_pid
                     /\ proc'[o].vfork_child_pid = table(a)[o].vfork_child_pid
             \/ /\ o # current /\ table(a)[o].status = "WAITING" /\ proc'[o].status = "READY"
                /\ table(a)[o].vfork_child_pid = table(a)[current].pid
      BY Zenon, <1>1, <1>5 DEF VforkDone
    <3> QED
      BY Zenon, <1>2, <1>4, <3>1
  <2> QED
    BY Zenon, <2>1 DEF Undisturbed, Active, SameIdentity, Live
<1> QED
  BY <1>5, <1>6

\* The exit of a thread.
LEMMA ExitThreadEffect ==
  ASSUME IInv, ExitThread
  PROVE  /\ proc'[current] = Dead /\ proc[current].is_thread /\ Live(current)
         /\ \A o \in Slots \ {current} :
              \/ Undisturbed(o)
              \/ Active(o) /\ proc[o].vfork_child_pid = proc[current].pid
<1> DEFINE me == proc[current]
           done == CompleteVfork(proc, current)
           table == [done EXCEPT ![current] = Dead]
<1>1. ~halted /\ me.is_thread
  BY DEF ExitThread
<1>2. TypeOK /\ CurrentMayRun /\ current \in Slots /\ proc \in [Slots -> ProcessT]
  BY DEF IInv, TypeOK
<1>3. Live(current)
  BY <1>1, <1>2 DEF CurrentMayRun, Live
<1>4. done \in [Slots -> ProcessT] /\ \A o \in Slots : VforkDone(proc, current, o)
  BY <1>2, CompleteVforkEffect, VforkDoneAll
<1>5. \/ proc' = table
      \/ \E n \in Ready(table) : proc' = [table EXCEPT ![n].status = "RUNNING"]
  <2>1. Successors(table, me.thread_group_id) \subseteq Ready(table)
    BY DEF Successors
  <2>2. \/ Halt(table)
        \/ \E n \in Successors(table, me.thread_group_id) : SwitchTo(table, n)
    BY Zenon DEF ExitThread
  <2> QED
    BY Zenon, <2>1, <2>2 DEF Halt, SwitchTo
<1>6. \A o \in Slots :
        /\ done[o].pid = proc[o].pid /\ done[o].parent_pid = proc[o].parent_pid
        /\ done[o].is_thread = proc[o].is_thread /\ done[o].uid = proc[o].uid
        /\ \/ /\ done[o].status = proc[o].status
              /\ done[o].status = "WAITING" =>
                   /\ done[o].wait_target_pid = proc[o].wait_target_pid
                   /\ done[o].vfork_child_pid = proc[o].vfork_child_pid
           \/ /\ o # current /\ proc[o].status = "WAITING" /\ done[o].status = "READY"
              /\ proc[o].vfork_child_pid = proc[current].pid
  BY Zenon, <1>4 DEF VforkDone
<1> HIDE DEF done
<1>7. /\ table \in [Slots -> ProcessT] /\ table[current] = Dead
      /\ \A o \in Slots \ {current} : table[o] = done[o]
  BY <1>2, <1>4, DeadTyped
<1>8. table[current].status = "DEAD"
  BY <1>7 DEF Dead, Entry
<1> HIDE DEF table
<1>9. /\ proc'[current] = Dead
      /\ \A o \in Slots \ {current} :
           /\ proc'[o].pid = table[o].pid /\ proc'[o].parent_pid = table[o].parent_pid
           /\ proc'[o].is_thread = table[o].is_thread /\ proc'[o].uid = table[o].uid
           /\ \/ proc'[o] = table[o]
              \/ table[o].status = "READY" /\ proc'[o].status = "RUNNING"
  <2>1. CASE proc' = table
    BY <1>7, <2>1
  <2>2. CASE \E n \in Ready(table) : proc' = [table EXCEPT ![n].status = "RUNNING"]
    <3>1. PICK n \in Slots : table[n].status = "READY" /\ proc' = [table EXCEPT ![n].status = "RUNNING"]
      BY Zenon, <2>2 DEF Ready
    <3>2. n # current
      BY <1>8, <3>1
    <3>3. /\ \A o \in Slots \ {n} : proc'[o] = table[o]
          /\ proc'[n].status = "RUNNING"
          /\ proc'[n].pid = table[n].pid /\ proc'[n].parent_pid = table[n].parent_pid
          /\ proc'[n].is_thread = table[n].is_thread /\ proc'[n].uid = table[n].uid
      BY <1>7, <3>1 DEF ProcessT
    <3> QED
      BY <1>2, <1>7, <3>1, <3>2, <3>3
  <2> QED
    BY <1>5, <2>1, <2>2
<1>10. ASSUME NEW o \in Slots \ {current}
       PROVE  \/ Undisturbed(o)
              \/ Active(o) /\ proc[o].vfork_child_pid = proc[current].pid
  <2>1. SameIdentity(o)
    BY <1>6, <1>7, <1>9 DEF SameIdentity
  <2> QED
    BY <1>6, <1>7, <1>9, <2>1 DEF Undisturbed, Active, Live
<1> QED
  BY Zenon, <1>1, <1>3, <1>9, <1>10

\* sys_process_kill: the parent that waits for the victim collects it.
LEMMA KillEffect ==
  ASSUME IInv, NEW s \in Slots, Kill(s)
  PROVE  /\ Ended(s)
         /\ \A o \in Slots \ {s} :
              \/ o \notin Waiters(s) /\ Undisturbed(o)
              \/ o \in Waiters(s) /\ Active(o) /\ proc'[s] = Dead
<1> DEFINE gone == [proc[s] EXCEPT !.status = "ZOMBIE", !.p4_table = NoSpace]
           ended == [proc[s] EXCEPT !.status = "ZOMBIE"]
           zombie == [ended EXCEPT !.p4_table = NoSpace]
           ready(o) == [proc[o] EXCEPT !.status = "READY", !.wait_target_pid = AnyPid]
           woken(o) == [proc[o] EXCEPT !.status = "READY"]
           reset(o) == [woken(o) EXCEPT !.wait_target_pid = AnyPid]
<1>1. Live(s)
  BY Zenon DEF Kill, Killable, Live
<1>2. proc' = [o \in Slots |->
       IF o = s THEN (IF Waiters(s) # {} THEN Dead ELSE gone)
       ELSE IF o \in Waiters(s) THEN ready(o) ELSE proc[o]]
  BY Zenon DEF Kill
<1>3. TypeOK
  BY DEF IInv
<1>4. gone = zombie /\ \A o \in Slots : ready(o) = reset(o)
  OBVIOUS
<1>5. \A o \in Waiters(s) : o \in Slots /\ proc[o].status = "WAITING"
  BY DEF Waiters
<1>6. /\ ended \in ProcessT /\ ended.pid = proc[s].pid
      /\ ended.parent_pid = proc[s].parent_pid /\ ended.uid = proc[s].uid
      /\ ended.is_thread = proc[s].is_thread /\ ended.status = "ZOMBIE"
  BY <1>3 DEF TypeOK, ProcessT, Statuses
<1>7. \A o \in Slots :
        /\ woken(o) \in ProcessT /\ woken(o).pid = proc[o].pid
        /\ woken(o).parent_pid = proc[o].parent_pid
        /\ woken(o).is_thread = proc[o].is_thread /\ woken(o).uid = proc[o].uid
        /\ woken(o).status = "READY"
  BY <1>3 DEF TypeOK, ProcessT, Statuses
<1> HIDE DEF ended, woken, gone, ready
<1>8. /\ zombie.pid = ended.pid /\ zombie.parent_pid = ended.parent_pid
      /\ zombie.uid = ended.uid /\ zombie.is_thread = ended.is_thread
      /\ zombie.status = ended.status
  BY <1>6 DEF ProcessT
<1>9. \A o \in Slots :
        /\ reset(o).pid = woken(o).pid /\ reset(o).parent_pid = woken(o).parent_pid
        /\ reset(o).is_thread = woken(o).is_thread /\ reset(o).uid = woken(o).uid
        /\ reset(o).status = woken(o).status
  BY <1>7 DEF ProcessT, AnyPid
<1> HIDE DEF zombie, reset
<1>10. /\ proc'[s] = Dead \/ (proc'[s] = zombie /\ Waiters(s) = {})
       /\ \A o \in Slots \ {s} : IF o \in Waiters(s) THEN proc'[o] = reset(o)
                                 ELSE proc'[o] = proc[o]
  BY <1>2, <1>4
<1>11. Ended(s)
  BY Zenon, <1>1, <1>6, <1>8, <1>10 DEF Ended
<1>12. ASSUME NEW o \in Slots \ {s}
       PROVE  \/ o \notin Waiters(s) /\ Undisturbed(o)
              \/ o \in Waiters(s) /\ Active(o) /\ proc'[s] = Dead
  <2>1. CASE o \in Waiters(s)
    <3>1. /\ proc'[o].pid = proc[o].pid /\ proc'[o].parent_pid = proc[o].parent_pid
          /\ proc'[o].is_thread = proc[o].is_thread /\ proc'[o].uid = proc[o].uid
          /\ proc'[o].status = "READY"
      <4>1. proc'[o] = reset(o) /\ o \in Slots
        BY <1>10, <2>1
      <4> QED
        BY <1>7, <1>9, <4>1, Zenon
    <3>2. proc[o].status = "WAITING" /\ proc'[s] = Dead
      BY <1>5, <1>10, <2>1
    <3> QED
      BY Zenon, <2>1, <3>1, <3>2 DEF Active, SameIdentity, Live
  <2>2. CASE o \notin Waiters(s)
    BY Zenon, <1>10, <2>2 DEF Undisturbed, SameIdentity
  <2> QED
    BY <2>1, <2>2
<1> QED
  BY <1>11, <1>12

\* The exit of a process: its parent, if it lives, is not left waiting.
LEMMA ExitProcessEffect ==
  ASSUME IInv, ExitProcess
  PROVE  /\ Ended(current) /\ proc'[current].vfork_parent_pid = 0
         /\ \A o \in Slots \ {current} :
              /\ \/ Undisturbed(o)
                 \/ /\ Active(o)
                    /\ \/ proc[o].vfork_child_pid = proc[current].pid
                       \/ proc[o].pid = proc[current].parent_pid
              /\ Live(o) /\ proc[o].pid = proc[current].parent_pid => Active(o)
<1> DEFINE me == proc[current]
           table == CompleteVfork(proc, current)
           parents == {p \in Slots : /\ table[p].status # "DEAD"
                                     /\ table[p].pid = me.parent_pid}
           zombie == [table EXCEPT ![current].status = "ZOMBIE"]
           freed == [zombie EXCEPT ![current].p4_table = NoSpace]
<1>1. ~halted
  BY Zenon DEF ExitProcess
<1>2. TypeOK /\ CurrentMayRun /\ Numbered /\ PidsUnique /\ current \in Slots /\ proc \in [Slots -> ProcessT]
  BY DEF IInv, TypeOK
<1>3. Live(current) /\ Alive(current)
  BY <1>1, <1>2 DEF CurrentMayRun, Live, Alive
<1>4. table \in [Slots -> ProcessT]
  BY <1>2, CompleteVforkEffect
<1>5. table[current].vfork_parent_pid = 0
  BY Zenon, <1>2, CompleteVforkLinks
<1>6. \A o \in Slots :
        /\ table[o].pid = proc[o].pid /\ table[o].parent_pid = proc[o].parent_pid
        /\ table[o].is_thread = proc[o].is_thread /\ table[o].uid = proc[o].uid
        /\ \/ /\ table[o].status = proc[o].status
              /\ table[o].status = "WAITING" =>
                   /\ table[o].wait_target_pid = proc[o].wait_target_pid
                   /\ table[o].vfork_child_pid = proc[o].vfork_child_pid
           \/ /\ o # current /\ proc[o].status = "WAITING" /\ table[o].status = "READY"
              /\ proc[o].vfork_child_pid = proc[current].pid
  <2>1. \A o \in Slots : VforkDone(proc, current, o)
    BY <1>2, VforkDoneAll
  <2> QED
    BY Zenon, <2>1 DEF VforkDone
<1>7. \/ \E p \in parents :
           /\ table[p].status = "WAITING"
           /\ proc' = [[table EXCEPT ![current] = Dead, ![p].wait_target_pid = AnyPid]
                         EXCEPT ![p].status = "RUNNING"]
      \/ \E p \in parents :
           /\ table[p].status \notin {"DEAD", "ZOMBIE"}
           /\ IF table[p].status \in {"READY", "WAITING"}
              THEN proc' = [[freed EXCEPT ![p].wait_target_pid = AnyPid]
                              EXCEPT ![p].status = "RUNNING"]
              ELSE proc' = freed
      \/ proc' = zombie /\ \A p \in parents : table[p].status = "ZOMBIE"
  BY Zenon DEF ExitProcess, SwitchTo, Halt
<1>8. \A p \in parents : p \in Slots /\ p # current /\ proc[p].pid = me.parent_pid /\ Alive(p)
  <2> SUFFICES ASSUME NEW p \in parents
               PROVE  p \in Slots /\ p # current /\ proc[p].pid = me.parent_pid /\ Alive(p)
    BY Zenon
  <2>1. p \in Slots /\ proc[p].pid = me.parent_pid /\ Alive(p)
    BY Zenon, <1>6 DEF Alive
  <2>2. p # current
    BY <1>2, <1>3, <2>1, IntPids DEF Numbered
  <2> QED
    BY Zenon, <2>1, <2>2
<1>9. \A o \in Slots : Live(o) /\ proc[o].pid = me.parent_pid => o \in parents /\ table[o].status # "ZOMBIE"
  BY Zenon, <1>6 DEF Live
<1>10. \A o, p \in parents : o = p
  BY Zenon, <1>2, <1>8 DEF PidsUnique
<1> HIDE DEF table, parents
<1>11. /\ zombie \in [Slots -> ProcessT]
       /\ zombie[current].status = "ZOMBIE" /\ zombie[current].pid = table[current].pid
       /\ zombie[current].parent_pid = table[current].parent_pid
       /\ zombie[current].is_thread = table[current].is_thread
       /\ zombie[current].uid = table[current].uid
       /\ zombie[current].vfork_parent_pid = table[current].vfork_parent_pid
       /\ \A o \in Slots \ {current} : zombie[o] = table[o]
  BY <1>2, <1>4 DEF ProcessT, Statuses
<1> HIDE DEF zombie
<1>12. /\ freed \in [Slots -> ProcessT]
       /\ freed[current].status = "ZOMBIE" /\ freed[current].pid = zombie[current].pid
       /\ freed[current].parent_pid = zombie[current].parent_pid
       /\ freed[current].is_thread = zombie[current].is_thread
       /\ freed[current].uid = zombie[current].uid
       /\ freed[current].vfork_parent_pid = zombie[current].vfork_parent_pid
       /\ \A o \in Slots \ {current} : freed[o] = zombie[o]
  BY <1>2, <1>11 DEF ProcessT
<1> HIDE DEF freed
<1>13. /\ freed[current].status = "ZOMBIE" /\ freed[current].pid = me.pid
       /\ freed[current].parent_pid = me.parent_pid
       /\ freed[current].is_thread = me.is_thread /\ freed[current].uid = me.uid
       /\ freed[current].vfork_parent_pid = 0
       /\ \A o \in Slots \ {current} : freed[o] = table[o] /\ zombie[o] = table[o]
  BY <1>5, <1>2, <1>6, <1>11, <1>12
<1>14. Dead.vfork_parent_pid = 0
  BY Zenon DEF Dead, Entry
\* A slot that the exit takes over from the table.
<1>15. ASSUME NEW o \in Slots \ {current}, proc'[o] = table[o]
       PROVE  Undisturbed(o) \/ (Active(o) /\ proc[o].vfork_child_pid = proc[current].pid)
  <2>1. SameIdentity(o)
    BY <1>6, <1>15 DEF SameIdentity
  <2> QED
    BY <1>6, <1>15, <2>1 DEF Undisturbed, Active, Live
<1>16. ASSUME NEW p \in parents, table[p].status = "WAITING",
              proc' = [[table EXCEPT ![current] = Dead, ![p].wait_target_pid = AnyPid]
                         EXCEPT ![p].status = "RUNNING"]
       PROVE  /\ proc'[current] = Dead
              /\ \A o \in Slots \ {current, p} : proc'[o] = table[o]
              /\ Active(p)
  <2> DEFINE reset == [table[p] EXCEPT !.wait_target_pid = AnyPid]
             running == [reset EXCEPT !.status = "RUNNING"]
  <2>1. p \in Slots /\ p # current /\ current \in Slots
    BY <1>2, <1>8
  <2>2. proc' = [o \in Slots |-> IF o = current THEN Dead
                                 ELSE IF o = p THEN running ELSE table[o]]
    <3> DEFINE collected == [table EXCEPT ![current] = Dead, ![p].wait_target_pid = AnyPid]
    <3>1. /\ collected = [o \in Slots |-> collected[o]]
          /\ collected[current] = Dead /\ collected[p] = reset
          /\ \A o \in Slots \ {current, p} : collected[o] = table[o]
      BY Zenon, <1>4, <2>1
    <3> HIDE DEF collected, reset
    <3>2. proc' = [collected EXCEPT ![p].status = "RUNNING"]
      BY <1>16 DEF collected
    <3> QED
      BY <2>1, <3>1, <3>2
  <2>3. /\ reset \in ProcessT /\ reset.pid = table[p].pid
        /\ reset.parent_pid = table[p].parent_pid
        /\ reset.is_thread = table[p].is_thread /\ reset.uid = table[p].uid
    BY <1>4, <2>1 DEF ProcessT, AnyPid
  <2> HIDE DEF reset
  <2>4. /\ running.pid = reset.pid /\ running.parent_pid = reset.parent_pid
        /\ running.is_thread = reset.is_thread /\ running.uid = reset.uid
        /\ running.status = "RUNNING"
    BY <2>3 DEF ProcessT, Statuses
  <2> HIDE DEF running
  <2>5. /\ proc'[current] = Dead /\ proc'[p] = running
        /\ \A o \in Slots \ {current, p} : proc'[o] = table[o]
    BY <1>2, <2>1, <2>2
  <2>6. SameIdentity(p)
    BY Zenon, <1>6, <2>1, <2>3, <2>4, <2>5 DEF SameIdentity
  <2>7. Live(p)
    BY <1>6, <1>16, <2>1 DEF Live
  <2> QED
    BY <2>4, <2>5, <2>6, <2>7 DEF Active
<1>17. ASSUME NEW p \in parents, table[p].status \notin {"DEAD", "ZOMBIE"},
              IF table[p].status \in {"READY", "WAITING"}
              THEN proc' = [[freed EXCEPT ![p].wait_target_pid = AnyPid]
                              EXCEPT ![p].status = "RUNNING"]
              ELSE proc' = freed
       PROVE  /\ proc'[current] = freed[current]
              /\ \A o \in Slots \ {current, p} : proc'[o] = table[o]
              /\ Active(p)
  <2> DEFINE reset == [freed[p] EXCEPT !.wait_target_pid = AnyPid]
             running == [reset EXCEPT !.status = "RUNNING"]
  <2>1. p \in Slots /\ p # current
    BY <1>8
  <2>2. /\ reset \in ProcessT /\ reset.pid = freed[p].pid
        /\ reset.parent_pid = freed[p].parent_pid
        /\ reset.is_thread = freed[p].is_thread /\ reset.uid = freed[p].uid
    BY <1>12, <2>1 DEF ProcessT, AnyPid
  <2>3. proc' = [freed EXCEPT ![p] = running] \/
        (table[p].status \notin {"READY", "WAITING"} /\ proc' = freed)
    BY Zenon, <1>12, <1>17, <2>1
  <2> HIDE DEF reset
  <2>4. /\ running.pid = reset.pid /\ running.parent_pid = reset.parent_pid
        /\ running.is_thread = reset.is_thread /\ running.uid = reset.uid
        /\ running.status = "RUNNING"
    BY <2>2 DEF ProcessT, Statuses
  <2> HIDE DEF running
  <2>5. /\ \A o \in Slots \ {p} : proc'[o] = freed[o]
        /\ \/ proc'[p] = running
           \/ table[p].status \notin {"READY", "WAITING"} /\ proc'[p] = freed[p]
    BY Zenon, <1>12, <2>1, <2>3
  <2>6. freed[p] = table[p]
    BY <1>13, <2>1
  <2>7. SameIdentity(p)
    BY <1>6, <2>1, <2>2, <2>4, <2>5, <2>6 DEF SameIdentity
  <2>8. Live(p)
    BY <1>6, <1>17, <2>1 DEF Live
  <2>9. proc'[p].status \notin {"DEAD", "ZOMBIE", "WAITING"}
    BY <1>17, <2>4, <2>5, <2>6
  <2>10. proc'[current] = freed[current] /\ \A o \in Slots \ {current, p} : proc'[o] = table[o]
    BY Zenon, <1>2, <1>13, <2>1, <2>5
  <2> QED
    BY Zenon, <2>7, <2>8, <2>9, <2>10 DEF Active
<1>18. CASE proc' = zombie /\ \A p \in parents : table[p].status = "ZOMBIE"
  <2>1. \A o \in Slots : ~(Live(o) /\ proc[o].pid = me.parent_pid)
    BY Zenon, <1>9, <1>18
  <2>2. \A o \in Slots \ {current} : proc'[o] = table[o]
    BY <1>13, <1>18
  <2>3. Ended(current) /\ proc'[current].vfork_parent_pid = 0
    BY Zenon, <1>5, <1>2, <1>3, <1>6, <1>11, <1>18 DEF Ended
  <2> QED
    BY Zenon, <1>15, <2>1, <2>2, <2>3
<1>19. ASSUME NEW p \in parents, Active(p),
              proc'[current] = Dead \/ proc'[current] = freed[current],
              \A o \in Slots \ {current, p} : proc'[o] = table[o]
       PROVE  /\ Ended(current) /\ proc'[current].vfork_parent_pid = 0
              /\ \A o \in Slots \ {current} :
                   /\ \/ Undisturbed(o)
                      \/ /\ Active(o)
                         /\ \/ proc[o].vfork_child_pid = proc[current].pid
                            \/ proc[o].pid = proc[current].parent_pid
                   /\ Live(o) /\ proc[o].pid = proc[current].parent_pid => Active(o)
  <2>1. Ended(current) /\ proc'[current].vfork_parent_pid = 0
    BY Zenon, <1>3, <1>13, <1>14, <1>19 DEF Ended
  <2>2. p \in Slots /\ proc[p].pid = me.parent_pid
    BY Zenon, <1>8
  <2>3. \A o \in Slots : Live(o) /\ proc[o].pid = me.parent_pid => o = p
    BY Zenon, <1>9, <1>10
  <2> QED
    BY Zenon, <1>15, <1>19, <2>1, <2>2, <2>3
<1> QED
  BY Zenon, <1>7, <1>16, <1>17, <1>18, <1>19

\* The current process lives, and does not wait, while the machine runs.
LEMMA CurrentLives ==
  ASSUME IInv, ~halted
  PROVE  /\ current \in Slots /\ Live(current) /\ Alive(current)
         /\ proc[current].status # "WAITING"
BY DEF IInv, TypeOK, CurrentMayRun, Live, Alive

LEMMA RunsUntilHalted == Next => ~halted
BY Zenon DEF Next, Fork, ForkFails, RelaunchFails, Exec, ExitThread, ExitProcess, Clone, Wait4,
       Kill, Pause, Resume, Yield, Preempt, PickNext, Login, Logout

\* A slot of Next in terms of the effects above.
LEMMA ZombieStep ==
  ASSUME IInv, Next, NEW s \in Slots, proc[s].status = "ZOMBIE",
         proc'[s].status # "ZOMBIE" \/ proc'[s].pid # proc[s].pid
  PROVE  (proc[current].pid = proc[s].parent_pid /\ proc'[s] = Dead) \/ Logout
<1>1. s # current
  BY CurrentLives, RunsUntilHalted DEF Live
<1>2. ~Undisturbed(s)
  BY DEF Undisturbed, SameIdentity
<1>3. ~Created(s) /\ ~Active(s) /\ ~Ended(s)
  BY DEF Created, Active, Ended, Alive, Live
<1>4. ~Fork
  BY Zenon, <1>2, <1>3, ForkEffect
<1>5. ~\E kind \in CloneKinds : Clone(kind)
  BY Zenon, <1>1, <1>2, <1>3, CloneEffect
<1>6. ~(ForkFails \/ RelaunchFails \/ Yield \/ Preempt \/ Login
        \/ \E o \in Slots : Pause(o) \/ Resume(o))
  BY Zenon, <1>2, QuietEffect
<1>7. ~Exec
  BY <1>2, <1>3, ExecEffect
<1>8. ~ExitThread
  BY <1>1, <1>2, <1>3, ExitThreadEffect
<1>9. ~ExitProcess
  BY Zenon, <1>1, <1>2, <1>3, ExitProcessEffect
<1>10. ~\E o \in Slots : Kill(o)
  BY Zenon, <1>2, <1>3, KillEffect
<1>11. ASSUME NEW target \in {AnyPid} \cup 1..MaxPid, Wait4(target)
       PROVE  proc[current].pid = proc[s].parent_pid /\ proc'[s] = Dead
  BY Zenon, <1>1, <1>2, <1>11, Wait4Effect
<1> QED
  BY Zenon, <1>4, <1>5, <1>6, <1>7, <1>8, <1>9, <1>10, <1>11 DEF Next

\* A zombie keeps its slot, and its pid, until its parent collects it in
\* sys_wait4 or the session ends: for any size of the process table.
THEOREM ZombieKeptUntilCollected == Spec => ZombieKeptForParent
<1>1. IInv /\ [Next]_vars =>
        [\A s \in Slots :
          /\ proc[s].status = "ZOMBIE"
          /\ proc'[s].status # "ZOMBIE" \/ proc'[s].pid # proc[s].pid
          => \/ proc[current].pid = proc[s].parent_pid /\ proc'[s] = Dead
             \/ Logout]_vars
  BY ZombieStep
<1> QED
  BY <1>1, ProcInvariant, PTL DEF Spec, ZombieKeptForParent

\* Who wakes a process that lent its space to a vfork child.
LEMMA VforkStep ==
  ASSUME IInv, Next, NEW p \in Slots, NEW c \in Slots,
         proc[p].status = "WAITING", Live(c), proc[p].vfork_child_pid = proc[c].pid,
         proc'[p].status # "WAITING"
  PROVE  \/ proc'[c].vfork_parent_pid = 0
         \/ proc'[p].status \in {"DEAD", "ZOMBIE"}
         \/ \E o \in Slots \ {c} :
              /\ Live(o) /\ proc[o].parent_pid = proc[p].pid
              /\ proc'[o].status \in {"DEAD", "ZOMBIE"}
<1>1. p # current /\ current \in Slots /\ Live(current)
  BY Zenon, CurrentLives, RunsUntilHalted
<1>2. ~Undisturbed(p) /\ ~Created(p)
  BY Zenon DEF Undisturbed, Created, Alive
<1>3. \A o \in Slots : Live(o) /\ proc[o].pid = proc[c].pid => o = c
  BY DEF IInv, PidsUnique, Live, Alive
<1>4. Dead.vfork_parent_pid = 0 /\ Dead.status = "DEAD"
  BY Zenon DEF Dead, Entry
<1>5. \A o \in Slots : Ended(o) => proc'[o].status \in {"DEAD", "ZOMBIE"}
  BY Zenon, <1>4 DEF Ended
<1>6. ~Fork
  BY <1>2, ForkEffect
<1>7. ~\E kind \in CloneKinds : Clone(kind)
  BY Zenon, <1>1, <1>2, CloneEffect
<1>8. ~(ForkFails \/ RelaunchFails \/ Yield \/ Preempt \/ Login
        \/ \E o \in Slots : Pause(o) \/ Resume(o))
  BY Zenon, <1>2, QuietEffect
<1>9. ~\E target \in {AnyPid} \cup 1..MaxPid : Wait4(target)
  BY Zenon, <1>1, <1>2, Wait4Effect
<1>10. CASE Exec
  <2>1. proc[p].vfork_child_pid = proc[current].pid
    BY Zenon, <1>2, <1>10, ExecEffect
  <2>2. c = current
    BY <1>1, <1>3, <2>1
  <2> QED
    BY Zenon, <1>10, <2>2, ExecEffect
<1>11. CASE ExitThread
  <2>1. proc[p].vfork_child_pid = proc[current].pid
    BY Zenon, <1>1, <1>2, <1>11, ExitThreadEffect
  <2>2. c = current
    BY <1>1, <1>3, <2>1
  <2> QED
    BY Zenon, <1>4, <1>11, <2>2, ExitThreadEffect
<1>12. CASE ExitProcess
  <2>1. proc'[current].vfork_parent_pid = 0 /\ proc'[current].status \in {"DEAD", "ZOMBIE"}
    BY Zenon, <1>1, <1>5, <1>12, ExitProcessEffect
  <2>2. proc[p].vfork_child_pid = proc[current].pid \/ proc[p].pid = proc[current].parent_pid
    BY Zenon, <1>1, <1>2, <1>12, ExitProcessEffect
  <2>3. c = current \/ (c # current /\ proc[p].pid = proc[current].parent_pid)
    BY Zenon, <1>1, <1>3, <2>2
  <2> QED
    BY <1>1, <2>1, <2>3
<1>13. ASSUME NEW s \in Slots, Kill(s)
       PROVE  \/ proc'[c].vfork_parent_pid = 0
              \/ proc'[p].status \in {"DEAD", "ZOMBIE"}
              \/ \E o \in Slots \ {c} :
                   /\ Live(o) /\ proc[o].parent_pid = proc[p].pid
                   /\ proc'[o].status \in {"DEAD", "ZOMBIE"}
  <2>1. Ended(s) /\ Live(s) /\ proc'[s].status \in {"DEAD", "ZOMBIE"}
    BY Zenon, <1>5, <1>13, KillEffect DEF Ended
  <2>2. p = s \/ (p \in Waiters(s) /\ proc'[s] = Dead)
    BY Zenon, <1>2, <1>13, KillEffect
  <2>3. p \in Waiters(s) => proc[p].pid = proc[s].parent_pid
    BY DEF Waiters
  <2> QED
    BY Zenon, <1>4, <2>1, <2>2, <2>3
<1>14. CASE Logout
  BY <1>2, <1>4, <1>14, LogoutEffect
<1> QED
  BY Zenon, <1>6, <1>7, <1>8, <1>9, <1>10, <1>11, <1>12, <1>13, <1>14 DEF Next

\* A vfork parent stays suspended until its child executes a program or ends, or
\* another of its children ends: for any size of the process table.
THEOREM VforkParentStaysSuspended == Spec => VforkParentSuspended
<1>1. IInv /\ [Next]_vars =>
        [\A p, c \in Slots :
          (/\ proc[p].status = "WAITING" /\ Live(c)
           /\ proc[c].vfork_parent_pid = proc[p].pid
           /\ proc[p].vfork_child_pid = proc[c].pid
           /\ proc'[p].status # "WAITING") =>
            \/ proc'[c].vfork_parent_pid = 0
            \/ proc'[p].status \in {"DEAD", "ZOMBIE"}
            \/ \E o \in Slots \ {c} :
                 /\ Live(o) /\ proc[o].parent_pid = proc[p].pid
                 /\ proc'[o].status \in {"DEAD", "ZOMBIE"}]_vars
  BY VforkStep
<1> QED
  BY <1>1, ProcInvariant, PTL DEF Spec, VforkParentSuspended

----------------------------------------------------------------------------
(* No lost wakeup, for programs that do not use CLONE_THREAD: the end of a    *)
(* thread is announced to nobody.                                             *)

ProcessesOnly == \A kind \in CloneKinds : ~kind.thread

NoThreads == \A s \in Slots : Alive(s) => ~proc[s].is_thread

\* A process belongs to the user its parent belongs to, unless that is process
\* 1, so that a logout does not take the children of a process it spares.
UserInherited ==
  \A p, c \in Slots :
    (/\ Alive(p) /\ Alive(c) /\ proc[c].parent_pid = proc[p].pid
     /\ proc[p].pid # 1) => proc[c].uid = proc[p].uid

FamilyInv == NoThreads /\ UserInherited /\ WaiterHasChild

NewChild(o) ==
  /\ Created(o) /\ proc'[o].parent_pid = proc[current].pid /\ ~proc'[o].is_thread
  /\ SameIdentity(current) /\ Alive(current) /\ current \in Slots

\* Steps after which every process is an old one or a new child of the caller.
LEMMA KinStep ==
  ASSUME IInv, NoThreads, UserInherited,
         \A o \in Slots : (Alive(o))' => (SameIdentity(o) /\ Alive(o)) \/ NewChild(o)
  PROVE  NoThreads' /\ UserInherited'
<1>1. NoThreads'
  BY Zenon DEF NoThreads, SameIdentity, NewChild, Alive
<1>2. TypeOK /\ Numbered /\ PidsUnique
  BY DEF IInv
<1>3. ASSUME NEW p \in Slots, NEW c \in Slots,
             (Alive(p))', (Alive(c))', proc'[c].parent_pid = proc'[p].pid, proc'[p].pid # 1
      PROVE  proc'[c].uid = proc'[p].uid
  <2>1. CASE SameIdentity(p) /\ Alive(p) /\ SameIdentity(c) /\ Alive(c)
    <3>1. proc[c].parent_pid = proc[p].pid /\ proc[p].pid # 1
      BY Zenon, <1>3, <2>1 DEF SameIdentity
    <3>2. proc[c].uid = proc[p].uid
      BY Zenon, <2>1, <3>1 DEF UserInherited
    <3>3. proc[c].pid # 1
      BY <1>2, <2>1, <3>1, IntPids DEF Numbered
    <3> QED
      BY Zenon, <2>1, <3>1, <3>2, <3>3 DEF SameIdentity
  <2>2. CASE NewChild(p)
    <3>1. proc'[p].pid = next_pid /\ proc[current].pid < next_pid
      BY Zenon, <1>2, <2>2 DEF NewChild, Created, Numbered
    <3>2. CASE NewChild(c)
      BY <1>2, <1>3, <3>1, <3>2, IntPids DEF NewChild
    <3>3. CASE SameIdentity(c) /\ Alive(c)
      <4>1. proc[c].parent_pid < next_pid
        BY <1>2, <3>3, IntPids DEF Numbered
      <4> QED
        BY <1>2, <1>3, <3>1, <3>3, <4>1, IntPids DEF SameIdentity
    <3> QED
      BY Zenon, <1>3, <3>2, <3>3
  <2>3. CASE SameIdentity(p) /\ Alive(p) /\ NewChild(c)
    <3>1. proc[p].pid = proc[current].pid
      BY Zenon, <1>3, <2>3 DEF NewChild, SameIdentity
    <3>2. p = current
      BY Zenon, <1>2, <2>3, <3>1 DEF PidsUnique, NewChild
    <3> QED
      BY Zenon, <1>3, <2>3, <3>2 DEF NewChild, Created, SameIdentity
  <2> QED
    BY <1>3, <2>1, <2>2, <2>3
<1>4. UserInherited'
  BY Zenon, <1>3 DEF UserInherited
<1> QED
  BY <1>1, <1>4

\* A child p waits for that will announce its end.
Awaited(p, c) ==
  /\ Live(c) /\ proc[c].parent_pid = proc[p].pid
  /\ Matches(proc[p].wait_target_pid, proc[c].pid)

\* Steps that end a process only if nobody goes on waiting for it.
LEMMA WaitersStep ==
  ASSUME WaiterHasChild,
         \A p \in Slots : proc'[p].status = "WAITING" =>
           \/ Undisturbed(p)
           \/ proc'[p].vfork_child_pid # 0 /\ proc'[p].wait_target_pid # AnyPid
           \/ \E c \in Slots : Awaited(p, c)',
         \A p, c \in Slots :
           (/\ Undisturbed(p) /\ proc[p].status = "WAITING" /\ Awaited(p, c)) =>
             SameIdentity(c) /\ (Live(c))'
  PROVE  WaiterHasChild'
<1> SUFFICES ASSUME NEW p \in Slots, proc'[p].status = "WAITING",
                    proc'[p].vfork_child_pid = 0 \/ proc'[p].wait_target_pid = AnyPid
             PROVE  \E c \in Slots : Awaited(p, c)'
  BY Zenon DEF WaiterHasChild, Awaited
<1>1. CASE Undisturbed(p)
  <2>1. /\ proc[p].status = "WAITING" /\ proc'[p].pid = proc[p].pid
        /\ proc'[p].wait_target_pid = proc[p].wait_target_pid
        /\ proc'[p].vfork_child_pid = proc[p].vfork_child_pid
    BY Zenon, <1>1 DEF Undisturbed, SameIdentity
  <2>2. PICK c \in Slots : /\ Live(c) /\ proc[c].parent_pid = proc[p].pid
                           /\ Matches(proc[p].wait_target_pid, proc[c].pid)
    <3>1. proc[p].vfork_child_pid = 0 \/ proc[p].wait_target_pid = AnyPid
      BY Zenon, <2>1
    <3> QED
      BY Zenon, <2>1, <3>1 DEF WaiterHasChild
  <2>3. SameIdentity(c) /\ (Live(c))'
    BY Zenon, <1>1, <2>1, <2>2 DEF Awaited
  <2>4. Awaited(p, c)'
    BY Zenon, <2>1, <2>2, <2>3 DEF Awaited, SameIdentity, Matches
  <2> QED
    BY Zenon, <2>4
<1> QED
  BY Zenon, <1>1

\* A slot left alone holds the same process, as alive as before.
LEMMA UndisturbedLives ==
  ASSUME NEW o, Undisturbed(o)
  PROVE  SameIdentity(o) /\ (Alive(o) <=> (Alive(o))') /\ (Live(o) <=> (Live(o))')
BY Zenon DEF Undisturbed, Alive, Live

\* Steps that start, end and block nobody.
LEMMA QuietFamily ==
  ASSUME IInv, FamilyInv, \A o \in Slots : Undisturbed(o)
  PROVE  FamilyInv'
<1>1. NoThreads' /\ UserInherited'
  BY KinStep, UndisturbedLives DEF FamilyInv
<1>2. WaiterHasChild'
  <2>1. \A p, c \in Slots : Awaited(p, c) => SameIdentity(c) /\ (Live(c))'
    BY Zenon, UndisturbedLives DEF Awaited
  <2> QED
    BY Zenon, <2>1, WaitersStep DEF FamilyInv
<1> QED
  BY <1>1, <1>2 DEF FamilyInv

\* sys_fork and sys_clone: a vfork parent waits for the child it just made.
LEMMA CreationFamily ==
  ASSUME IInv, FamilyInv, ~halted,
         NEW s \in Slots, s # current, Created(s),
         proc'[s].parent_pid = proc[current].pid, ~proc'[s].is_thread,
         \A o \in Slots \ {s, current} : Undisturbed(o),
         \/ Undisturbed(current)
         \/ /\ SameIdentity(current) /\ proc'[current].status = "WAITING"
            /\ proc'[current].vfork_child_pid = next_pid
  PROVE  FamilyInv'
<1>1. current \in Slots /\ Live(current) /\ Alive(current) /\ proc[current].status # "WAITING"
  BY Zenon, CurrentLives
<1>2. SameIdentity(current)
  BY Zenon DEF Undisturbed
<1>3. NewChild(s)
  BY Zenon, <1>1, <1>2 DEF NewChild
<1>4. NoThreads' /\ UserInherited'
  BY Zenon, <1>1, <1>2, <1>3, KinStep, UndisturbedLives DEF FamilyInv
<1>5. ~Alive(s) /\ (Live(s))' /\ ~Live(s)
  BY Zenon DEF Created, Alive, Live
<1>6. proc'[current].status \notin {"DEAD", "ZOMBIE"}
  BY Zenon, <1>1 DEF Live, Undisturbed
<1>7. ASSUME NEW p \in Slots, NEW c \in Slots, Awaited(p, c)
      PROVE  SameIdentity(c) /\ (Live(c))'
  <2>1. Live(c) /\ c # s
    BY Zenon, <1>5, <1>7 DEF Awaited
  <2> QED
    BY Zenon, <1>2, <1>6, <2>1, UndisturbedLives DEF Live
<1>8. ASSUME NEW p \in Slots, proc'[p].status = "WAITING"
      PROVE  \/ Undisturbed(p)
             \/ proc'[p].vfork_child_pid # 0 /\ proc'[p].wait_target_pid # AnyPid
             \/ \E c \in Slots : Awaited(p, c)'
  <2>1. p # s
    BY Zenon, <1>8 DEF Created
  <2>2. CASE p = current /\ ~Undisturbed(p)
    <3>1. (Live(s))' /\ proc'[s].parent_pid = proc'[p].pid
      BY Zenon, <1>2, <1>5, <2>2 DEF SameIdentity
    <3>2. proc'[p].vfork_child_pid # 0
      BY <2>2, IntPids DEF IInv, Numbered
    <3>3. proc'[p].wait_target_pid = AnyPid => Awaited(p, s)'
      BY Zenon, <3>1 DEF Awaited, Matches
    <3> QED
      BY Zenon, <3>2, <3>3
  <2> QED
    BY Zenon, <2>1, <2>2
<1>9. WaiterHasChild'
  BY Zenon, <1>7, <1>8, WaitersStep DEF FamilyInv
<1> QED
  BY <1>4, <1>9 DEF FamilyInv

LEMMA ForkFamily == ASSUME IInv, FamilyInv, Fork PROVE FamilyInv'
<1>1. PICK s \in Slots :
        /\ Created(s) /\ proc'[s].parent_pid = proc[current].pid /\ ~proc'[s].is_thread
        /\ \A o \in Slots \ {s} : Undisturbed(o)
  BY Zenon, ForkEffect
<1>2. ~halted
  BY DEF Fork
<1>3. current \in Slots /\ s # current
  BY Zenon, <1>1, <1>2, CurrentLives DEF Created
<1> QED
  BY Zenon, <1>1, <1>2, <1>3, CreationFamily

LEMMA CloneFamily ==
  ASSUME ProcessesOnly, IInv, FamilyInv, NEW kind \in CloneKinds, Clone(kind)
  PROVE  FamilyInv'
<1>1. ~kind.thread
  BY DEF ProcessesOnly
<1>2. PICK s \in Slots :
        /\ Created(s) /\ proc'[s].is_thread = kind.thread
        /\ proc'[s].parent_pid = proc[current].pid
        /\ \A o \in Slots \ {s, current} : Undisturbed(o)
        /\ s # current
        /\ \/ Undisturbed(current)
           \/ /\ SameIdentity(current) /\ proc'[current].status = "WAITING"
              /\ proc'[current].vfork_child_pid = next_pid
  BY Zenon, <1>1, CloneEffect
<1>3. ~halted
  BY Zenon DEF Clone
<1> QED
  BY Zenon, <1>1, <1>2, <1>3, CreationFamily

LEMMA Wait4Family ==
  ASSUME IInv, FamilyInv, NEW target \in {AnyPid} \cup 1..MaxPid, Wait4(target)
  PROVE  FamilyInv'
<1>1. current \in Slots /\ Live(current) /\ Alive(current) /\ proc[current].status # "WAITING"
  BY CurrentLives DEF Wait4
<1>2. ASSUME NEW z \in Slots, proc[z].status = "ZOMBIE", proc'[z] = Dead,
             \A o \in Slots \ {z} : Undisturbed(o)
      PROVE  FamilyInv'
  <2>1. proc'[z].status = "DEAD" /\ ~Live(z)
    BY <1>2 DEF Dead, Entry, Live
  <2>2. NoThreads' /\ UserInherited'
    BY Zenon, <1>2, <2>1, KinStep, UndisturbedLives DEF FamilyInv, Alive
  <2>3. \A p, c \in Slots : Awaited(p, c) => SameIdentity(c) /\ (Live(c))'
    BY Zenon, <1>2, <2>1, UndisturbedLives DEF Awaited
  <2>4. WaiterHasChild'
    BY Zenon, <1>2, <2>1, <2>3, WaitersStep DEF FamilyInv
  <2> QED
    BY <2>2, <2>4 DEF FamilyInv
<1>3. ASSUME NEW n \in Slots \ {current}, Live(n), proc[n].parent_pid = proc[current].pid,
             Matches(target, proc[n].pid), \A o \in Slots \ {current} : Undisturbed(o),
             SameIdentity(current), proc'[current].status = "WAITING",
             proc'[current].wait_target_pid = target
      PROVE  FamilyInv'
  <2>1. NoThreads' /\ UserInherited'
    BY Zenon, <1>1, <1>3, KinStep, UndisturbedLives DEF FamilyInv
  <2>2. \A p, c \in Slots : Awaited(p, c) => SameIdentity(c) /\ (Live(c))'
    <3> SUFFICES ASSUME NEW p \in Slots, NEW c \in Slots, Awaited(p, c)
                 PROVE  SameIdentity(c) /\ (Live(c))'
      OBVIOUS
    <3>1. CASE c = current
      BY Zenon, <1>3, <3>1 DEF Live
    <3>2. CASE c # current
      BY Zenon, <1>3, <3>2, UndisturbedLives DEF Awaited
    <3> QED
      BY <3>1, <3>2
  <2>3. ASSUME NEW p \in Slots, p = current PROVE Awaited(p, n)'
    BY Zenon, <1>3, <2>3, UndisturbedLives DEF Awaited, SameIdentity, Matches
  <2>4. WaiterHasChild'
    BY Zenon, <1>3, <2>2, <2>3, WaitersStep DEF FamilyInv
  <2> QED
    BY <2>1, <2>4 DEF FamilyInv
<1> QED
  BY Zenon, <1>2, <1>3, Wait4Effect

\* Steps of which nobody is left waiting for the process in slot e, the only
\* one that may end.
LEMMA EndFamily ==
  ASSUME IInv, FamilyInv, NEW e \in Slots,
         Ended(e) \/ Undisturbed(e) \/ Active(e),
         \A o \in Slots \ {e} : Undisturbed(o) \/ Active(o),
         Ended(e) => \A o \in Slots : Awaited(o, e) /\ proc[o].status = "WAITING" => Active(o)
  PROVE  FamilyInv'
<1>1. \A o \in Slots : Active(o) => SameIdentity(o) /\ Alive(o) /\ (Live(o))' /\ proc'[o].status # "WAITING"
  BY Zenon DEF Active, Live, Alive
<1>2. Ended(e) => /\ Alive(e) /\ proc'[e].status # "WAITING"
                  /\ (Alive(e))' => SameIdentity(e)
  <2>1. Dead.status = "DEAD"
    BY Zenon DEF Dead, Entry
  <2> QED
    BY Zenon, <2>1 DEF Ended, SameIdentity, Alive, Live
<1>3. NoThreads' /\ UserInherited'
  BY Zenon, <1>1, <1>2, KinStep, UndisturbedLives DEF FamilyInv
<1>4. ASSUME NEW p \in Slots, NEW c \in Slots, Undisturbed(p), proc[p].status = "WAITING", Awaited(p, c)
      PROVE  SameIdentity(c) /\ (Live(c))'
  <2>1. ~Active(p)
    BY Zenon, <1>4 DEF Active, Undisturbed
  <2>2. c = e => ~Ended(c)
    BY Zenon, <1>4, <2>1
  <2> QED
    BY Zenon, <1>1, <1>4, <2>2, UndisturbedLives DEF Awaited
<1>5. WaiterHasChild'
  BY Zenon, <1>1, <1>2, <1>4, WaitersStep DEF FamilyInv
<1> QED
  BY Zenon, <1>3, <1>5 DEF FamilyInv

LEMMA ExecFamily == ASSUME IInv, FamilyInv, Exec PROVE FamilyInv'
<1>1. current \in Slots
  BY DEF IInv, TypeOK
<1>2. /\ Undisturbed(current)
      /\ \A o \in Slots : Undisturbed(o) \/ Active(o)
  BY Zenon, <1>1, ExecEffect
<1>3. ~Ended(current)
  <2>1. Dead.status = "DEAD"
    BY Zenon DEF Dead, Entry
  <2> QED
    BY Zenon, <1>2, <2>1 DEF Ended, Undisturbed, Live
<1> QED
  BY Zenon, <1>1, <1>2, <1>3, EndFamily

\* The thread that would end unannounced does not exist.
LEMMA ExitThreadFamily == ASSUME IInv, FamilyInv, ExitThread PROVE FamilyInv'
<1>1. current \in Slots /\ Alive(current)
  BY Zenon, CurrentLives DEF ExitThread
<1> QED
  BY Zenon, <1>1, ExitThreadEffect DEF FamilyInv, NoThreads

LEMMA ExitProcessFamily == ASSUME IInv, FamilyInv, ExitProcess PROVE FamilyInv'
<1>1. current \in Slots /\ Alive(current) /\ proc[current].status # "WAITING"
  BY Zenon, CurrentLives DEF ExitProcess
<1>2. /\ Ended(current)
      /\ \A o \in Slots \ {current} :
           /\ Undisturbed(o) \/ Active(o)
           /\ Live(o) /\ proc[o].pid = proc[current].parent_pid => Active(o)
  BY Zenon, ExitProcessEffect
<1>3. ASSUME NEW o \in Slots, Awaited(o, current), proc[o].status = "WAITING"
      PROVE  Active(o)
  <2>1. o # current /\ Live(o) /\ proc[o].pid = proc[current].parent_pid
    BY Zenon, <1>1, <1>3 DEF Awaited, Live
  <2> QED
    BY Zenon, <1>2, <2>1
<1> QED
  BY Zenon, <1>1, <1>2, <1>3, EndFamily

LEMMA KillFamily == ASSUME IInv, FamilyInv, NEW s \in Slots, Kill(s) PROVE FamilyInv'
<1>1. /\ Ended(s)
      /\ \A o \in Slots \ {s} :
           /\ Undisturbed(o) \/ Active(o)
           /\ o \in Waiters(s) => Active(o)
  BY KillEffect
<1>2. ASSUME NEW o \in Slots, Awaited(o, s), proc[o].status = "WAITING"
      PROVE  Active(o)
  <2>1. o # s
    <3>1. Alive(s) /\ proc[s].parent_pid = proc[o].pid
      BY Zenon, <1>2 DEF Awaited, Live, Alive
    <3>2. proc[s].parent_pid < proc[s].pid
      BY Zenon, <3>1 DEF IInv, Numbered
    <3> QED
      BY <3>1, <3>2, IntPids DEF IInv
  <2>2. o \in Waiters(s)
    BY Zenon, <1>2, <2>1 DEF Awaited, Waiters
  <2> QED
    BY <1>1, <2>1, <2>2
<1> QED
  BY Zenon, <1>1, <1>2, EndFamily

\* session_logout takes the whole of a family or nothing of it.
LEMMA LogoutFamily == ASSUME IInv, FamilyInv, Logout PROVE FamilyInv'
<1>1. /\ \A o \in Slots : (o \in Victims /\ proc'[o] = Dead) \/ (o \notin Victims /\ Undisturbed(o))
      /\ proc[current].pid = 1
  BY LogoutEffect
<1>2. current \in Slots /\ Alive(current) /\ proc[current].status # "WAITING"
  BY CurrentLives DEF Logout
<1>3. Dead.status = "DEAD"
  BY DEF Dead, Entry
<1>4. NoThreads' /\ UserInherited'
  BY Zenon, <1>1, <1>3, KinStep, UndisturbedLives DEF FamilyInv, Alive
<1>5. ASSUME NEW p \in Slots, NEW c \in Slots, Undisturbed(p), proc[p].status = "WAITING", Awaited(p, c)
      PROVE  SameIdentity(c) /\ (Live(c))'
  <2>1. p # current /\ Alive(p) /\ Live(c) /\ Alive(c) /\ proc[c].parent_pid = proc[p].pid
    BY Zenon, <1>2, <1>5 DEF Awaited, Alive, Live
  <2>2. proc[p].pid # 1
    BY Zenon, <1>1, <1>2, <2>1 DEF IInv, PidsUnique
  <2>3. proc[c].uid = proc[p].uid
    BY Zenon, <2>1, <2>2 DEF FamilyInv, UserInherited
  <2>4. p \notin Victims
    BY Zenon, <1>1, <1>3, <1>5 DEF Undisturbed
  <2>5. c \notin Victims
    BY Zenon, <2>1, <2>3, <2>4 DEF Victims
  <2> QED
    BY Zenon, <1>1, <2>1, <2>5, UndisturbedLives
<1>6. WaiterHasChild'
  BY Zenon, <1>1, <1>3, <1>5, WaitersStep DEF FamilyInv
<1> QED
  BY <1>4, <1>6 DEF FamilyInv

LEMMA FamilyInit == Init => FamilyInv
<1> SUFFICES ASSUME Init PROVE FamilyInv
  OBVIOUS
<1>1. PICK a \in Spaces :
        proc = [s \in Slots |->
          IF s = current THEN Entry("RUNNING", 1, 0, 1, FALSE, LoginUid, a) ELSE Dead]
  BY Zenon DEF Init
<1>2. \A s \in Slots :
        /\ s = current => proc[s].status = "RUNNING" /\ ~proc[s].is_thread
        /\ s # current => proc[s].status = "DEAD"
  BY Zenon, <1>1 DEF Entry, Dead
<1> QED
  BY Zenon, <1>2 DEF FamilyInv, NoThreads, UserInherited, WaiterHasChild, Alive

LEMMA FamilyNext ==
  ASSUME ProcessesOnly, IInv, FamilyInv, [Next]_vars
  PROVE  FamilyInv'
<1>1. CASE UNCHANGED vars
  BY Zenon, <1>1 DEF vars, FamilyInv, NoThreads, UserInherited, WaiterHasChild, Alive, Live, Matches
<1>2. CASE \/ ForkFails \/ RelaunchFails \/ Yield \/ Preempt \/ Login
           \/ \E s \in Slots : Pause(s) \/ Resume(s)
  BY <1>2, QuietEffect, QuietFamily
<1>3. CASE Fork
  BY <1>3, ForkFamily
<1>4. CASE \E kind \in CloneKinds : Clone(kind)
  BY <1>4, CloneFamily
<1>5. CASE \E target \in {AnyPid} \cup 1..MaxPid : Wait4(target)
  BY <1>5, Wait4Family
<1>6. CASE Exec
  BY <1>6, ExecFamily
<1>7. CASE ExitThread
  BY <1>7, ExitThreadFamily
<1>8. CASE ExitProcess
  BY <1>8, ExitProcessFamily
<1>9. CASE \E s \in Slots : Kill(s)
  BY <1>9, KillFamily
<1>10. CASE Logout
  BY <1>10, LogoutFamily
<1> QED
  BY <1>1, <1>2, <1>3, <1>4, <1>5, <1>6, <1>7, <1>8, <1>9, <1>10 DEF Next

\* No lost wakeup, for any size of the process table and any number of forks,
\* vforks, waits, kills and logouts: whoever is blocked in sys_wait4, or in a
\* vfork that no earlier wait4 left its target with, has a child alive whose end
\* wakes it.
THEOREM AlwaysWaiterHasChild == ASSUME ProcessesOnly PROVE Spec => []WaiterHasChild
<1>1. IInv /\ FamilyInv /\ [Next]_vars => FamilyInv'
  BY FamilyNext
<1>2. FamilyInv => WaiterHasChild
  BY DEF FamilyInv
<1> QED
  BY <1>1, <1>2, FamilyInit, ProcInvariant, PTL DEF Spec
=============================================================================
