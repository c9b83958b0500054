----------------------------- MODULE Scheduler -----------------------------
(***************************************************************************)
(* Which READY process gets the CPU (kernel/process.c), and the thermal    *)
(* policy that slows processes down (kernel/thermal.c).                    *)
(*                                                                         *)
(* process_select_next_ready scans the table once, from the slot after the *)
(* current one.  During a thermal emergency a process that is not essential *)
(* is chosen on every fourth scan that reaches it, or when nothing else is *)
(* READY.                                                                  *)
(***************************************************************************)
EXTENDS Integers, FiniteSets

CONSTANTS
  N,             \* slots of process_list (MAX_PROCESSES); slot 0 is process 1
  PassedCap      \* bound: the history passed counts no further; BoundedBypass
                 \* needs at least 4 * (N - 1), ReadyRuns needs no history

ASSUME NAssumption == N \in Nat /\ N >= 2
ASSUME BoundsAssumption == PassedCap \in Nat

Procs == 0..(N - 1)
Statuses == {"DEAD", "READY", "RUNNING", "WAITING", "PAUSED"}

\* What thermal_sample_now reads: throttling, critical or above the emergency
\* limit; between the limits; below the clear limit; no temperature.
Readings == {"hot", "warm", "cool", "unknown"}

VARIABLES
  status,        \* process_t.status
  throttled,     \* process_t.thermal_throttled
  phase,         \* process_t.thermal_skip_phase
  essential,     \* process_is_thermal_essential of the process's command
  emergency,     \* g_emergency_active, and g_thermal_policy_active after it
  current,       \* current_process
  in_wait,       \* the current process waits in the kernel, with sti; hlt
  renamed,       \* history: processes that executed a command since the last sample
  passed         \* history: choices that passed over i since it last ran,
                 \* became READY, or saw a direct switch or a change of policy

vars == <<status, throttled, phase, essential, emergency, current, in_wait, renamed,
          passed>>

TypeOK ==
  /\ status \in [Procs -> Statuses]
  /\ throttled \in [Procs -> BOOLEAN]
  /\ phase \in [Procs -> 0..3]
  /\ essential \in [Procs -> BOOLEAN]
  /\ emergency \in BOOLEAN
  /\ current \in Procs
  /\ in_wait \in BOOLEAN
  /\ renamed \subseteq Procs
  /\ passed \in [Procs -> 0..PassedCap]

Init ==
  /\ status = [i \in Procs |-> IF i = 0 THEN "RUNNING" ELSE "DEAD"]
  /\ throttled = [i \in Procs |-> FALSE]
  /\ phase = [i \in Procs |-> 0]
  /\ essential = [i \in Procs |-> i = 0]
  /\ emergency = FALSE
  /\ current = 0
  /\ in_wait = FALSE
  /\ renamed = {}
  /\ passed = [i \in Procs |-> 0]

----------------------------------------------------------------------------
(* process_select_next_ready *)

\* Mutant of Rank: every scan starts at slot 0.
RankFromZero(i) == i

\* The position of slot i in a scan that starts after the current process,
\* which comes last itself.
Rank(i) == (i - current - 1) % N

First(S) == CHOOSE i \in S : \A j \in S : Rank(i) <= Rank(j)

\* The candidates the scan stops at: a throttled one when its phase wraps.
Eligible(ready, slow) == {i \in ready : i \in slow => phase[i] = 3}


\* thermal_skip_phase on a scan that reaches the process.
Advance(f) == (f + 1) % 4

Chosen(ready, slow) ==
  IF Eligible(ready, slow) # {} THEN First(Eligible(ready, slow)) ELSE First(ready)

\* The candidates the scan reached: their phase advances if they are throttled.
Scanned(ready, slow) ==
  IF Eligible(ready, slow) # {}
  THEN {i \in ready : Rank(i) <= Rank(Chosen(ready, slow))}
  ELSE ready

----------------------------------------------------------------------------
(* The thermal policy *)

\* The emergency begins when it is hot and ends only on a cool reading.
EmergencyAfter(reading) ==
  IF emergency THEN reading # "cool" ELSE reading = "hot"

\* Mutant of SlowUnder: essential processes are throttled as well.
SlowUnderAll(policy) == {i \in Procs : policy /\ status[i] # "DEAD"}

\* process_update_thermal_policy
SlowUnder(policy) ==
  {i \in Procs : policy /\ ~essential[i] /\ status[i] # "DEAD"}

----------------------------------------------------------------------------
(* Steps *)

\* The candidates of a scan: the current process is put back if it was RUNNING.
Ready ==
  {i \in Procs : status[i] = "READY" \/ (i = current /\ status[i] = "RUNNING")}

Successor(slow) == IF Ready = {} THEN current ELSE Chosen(Ready, slow)

\* The processes a choice passes over, under an unchanged policy for them.
PassedOver(slow) ==
  {i \in Ready \ {Successor(slow), current} : throttled[i] <=> i \in slow}

\* The next process is chosen with the processes in slow throttled.
Reschedule(slow) ==
  /\ status' = [i \in Procs |-> IF i = Successor(slow) THEN "RUNNING"
                                ELSE IF i \in Ready THEN "READY" ELSE status[i]]
  /\ throttled' = [i \in Procs |-> i \in slow]
  /\ phase' = [i \in Procs |->
       IF i \notin slow THEN 0
       ELSE IF i \in Scanned(Ready, slow) THEN Advance(phase[i]) ELSE phase[i]]
  /\ passed' = [i \in Procs |->
       IF i \notin PassedOver(slow) THEN 0
       ELSE IF passed[i] < PassedCap THEN passed[i] + 1 ELSE PassedCap]
  /\ current' = Successor(slow)
  /\ UNCHANGED <<essential, in_wait>>

Slow == {i \in Procs : throttled[i]}

\* process_preempt_from_interrupt acts only on user code of a RUNNING process.
Preemptible == ~in_wait /\ status[current] = "RUNNING"

\* timer_handler while user code runs, between two samples of the temperature.
Tick ==
  /\ Preemptible
  /\ Reschedule(Slow)
  /\ UNCHANGED <<emergency, renamed>>

\* timer_handler on a tick that samples the temperature (once a second): the
\* new policy is in force when the next process is chosen.
SampleTick(reading) ==
  /\ Preemptible
  /\ emergency' = EmergencyAfter(reading)
  /\ renamed' = {}
  /\ Reschedule(SlowUnder(EmergencyAfter(reading)))

\* The same tick while the kernel waits inside a system call (tty_read,
\* nanosleep, the thermal gate), or while a process that is not RUNNING has the
\* CPU: nothing is preempted.
SampleInKernel(reading) ==
  LET slow == SlowUnder(EmergencyAfter(reading)) IN
  /\ ~Preemptible
  /\ emergency' = EmergencyAfter(reading)
  /\ renamed' = {}
  /\ throttled' = [i \in Procs |-> i \in slow]
  /\ phase' = [i \in Procs |-> IF i \in slow THEN phase[i] ELSE 0]
  /\ passed' = [i \in Procs |-> IF throttled[i] <=> i \in slow THEN passed[i] ELSE 0]
  /\ UNCHANGED <<status, essential, current, in_wait>>

\* tty_read, nanosleep and the thermal gate wait inside the call, without
\* schedule: nobody else runs before the call returns, and nothing says when
\* tty_read does.
Wait ==
  /\ ~in_wait /\ in_wait' = TRUE
  /\ UNCHANGED <<status, throttled, phase, essential, emergency, current, renamed, passed>>

Return ==
  /\ in_wait /\ in_wait' = FALSE
  /\ UNCHANGED <<status, throttled, phase, essential, emergency, current, renamed, passed>>

\* schedule, from sys_yield and from calls that cannot proceed.
Yield ==
  /\ ~in_wait
  /\ Reschedule(Slow)
  /\ UNCHANGED <<emergency, renamed>>

\* sys_fork and sys_clone into the first free slot: the child has its parent's
\* command.  Process 1 is essential whatever its command.
Spawn(i) ==
  /\ ~in_wait
  /\ status[i] = "DEAD" /\ \A j \in Procs : j < i => status[j] # "DEAD"
  /\ status' = [status EXCEPT ![i] = "READY"]
  /\ \E command \in IF current = 0 THEN BOOLEAN ELSE {essential[current]} :
       /\ essential' = [essential EXCEPT ![i] = command]
       /\ throttled' = [throttled EXCEPT ![i] = emergency /\ ~command]
  /\ phase' = [phase EXCEPT ![i] = 0]
  /\ passed' = [passed EXCEPT ![i] = 0]
  /\ renamed' = renamed \ {i}
  /\ UNCHANGED <<emergency, current, in_wait>>

\* execve gives the process another command; the policy notices on the next
\* sample.
Exec ==
  /\ ~in_wait /\ current # 0
  /\ essential' = [essential EXCEPT ![current] = ~@]
  /\ renamed' = renamed \cup {current}
  /\ UNCHANGED <<status, throttled, phase, emergency, current, in_wait, passed>>

\* The current process stops with status st and gives the CPU to process n:
\* wait4 and vfork to a READY child, exit to the parent.  A PAUSED parent gets
\* the CPU too, and stays PAUSED.
Handoff(n, st) ==
  /\ ~in_wait
  /\ n # current /\ status[n] \in {"READY", "WAITING", "PAUSED"}
  /\ st = "WAITING" => status[n] = "READY"
  /\ st = "DEAD" => current # 0
  /\ status' = [status EXCEPT ![current] = st,
                         ![n] = IF @ = "PAUSED" THEN @ ELSE "RUNNING"]
  /\ throttled' = [throttled EXCEPT ![current] = @ /\ st # "DEAD"]
  /\ phase' = [phase EXCEPT ![current] = IF st = "DEAD" THEN 0 ELSE @]
  /\ current' = n
  /\ passed' = [i \in Procs |-> 0]
  /\ UNCHANGED <<essential, emergency, in_wait, renamed>>

\* sys_process_resume, and a kill that wakes the parent of its victim.
Wake(i) ==
  /\ ~in_wait /\ status[i] \in {"PAUSED", "WAITING"}
  /\ status' = [status EXCEPT ![i] = "READY"]
  /\ UNCHANGED <<throttled, phase, essential, emergency, current, in_wait, renamed, passed>>

\* sys_process_pause
Pause(i) ==
  /\ ~in_wait /\ i # 0 /\ i # current /\ status[i] = "READY"
  /\ status' = [status EXCEPT ![i] = "PAUSED"]
  /\ passed' = [passed EXCEPT ![i] = 0]
  /\ UNCHANGED <<throttled, phase, essential, emergency, current, in_wait, renamed>>

\* sys_process_kill, and the collection of the zombie.
Kill(i) ==
  /\ ~in_wait /\ i # 0 /\ i # current /\ status[i] # "DEAD"
  /\ status' = [status EXCEPT ![i] = "DEAD"]
  /\ throttled' = [throttled EXCEPT ![i] = FALSE]
  /\ phase' = [phase EXCEPT ![i] = 0]
  /\ passed' = [passed EXCEPT ![i] = 0]
  /\ UNCHANGED <<essential, emergency, current, in_wait, renamed>>

Next ==
  \/ Tick \/ Wait \/ Return \/ Yield \/ Exec
  \/ \E reading \in Readings : SampleTick(reading) \/ SampleInKernel(reading)
  \/ \E i \in Procs : Spawn(i) \/ Wake(i) \/ Pause(i) \/ Kill(i)
  \/ \E n \in Procs, st \in {"WAITING", "DEAD"} : Handoff(n, st)

Spec == Init /\ [][Next]_vars

\* Interrupts are enabled in user code: the timer strikes it again and again if
\* it runs again and again.
FairSpec == Spec /\ SF_vars(Tick)

----------------------------------------------------------------------------
(* Properties *)

\* The throttle marks follow the policy: during an emergency exactly the
\* processes that are not essential are slowed down, and otherwise nobody, save
\* that execve changes the command of a process and leaves its mark as it was
\* until the next sample.  Process 1 is never slowed down.
ThrottledOnlyInEmergency ==
  \A i \in Procs :
    /\ throttled[i] => emergency /\ i # 0
    /\ i \notin renamed => (throttled[i] <=> emergency /\ ~essential[i] /\ status[i] # "DEAD")

\* Bounded waiting: while nothing is handed over directly, a READY process that
\* is not throttled runs after at most N - 2 others, and a throttled one in the
\* fourth round of the table at the latest.
BoundedBypass ==
  \A i \in Procs : passed[i] <= IF throttled[i] THEN 4 * (N - 1) - 1 ELSE N - 2

\* What the kernel does not see to: that user code runs at all, which a process
\* in tty_read prevents for as long as no key is pressed and a PAUSED process
\* with the CPU for as long as it pleases; and that processes stop handing the
\* CPU to each other past the others.
UserCodeRuns == []<>Preemptible
HandoffsEnd == <>[][~ \E n \in Procs, st \in {"WAITING", "DEAD"} : Handoff(n, st)]_vars

=============================================================================
