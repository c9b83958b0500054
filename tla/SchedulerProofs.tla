-------------------------- MODULE SchedulerProofs --------------------------
(***************************************************************************)
(* Proofs about the scheduler, for every size of the process table.  The   *)
(* inductive invariant adds, to the number of choices that passed a        *)
(* process over, its distance from the start of the next scan: a choice    *)
(* made before the process is reached shortens the distance, and one made  *)
(* behind it advances its phase, which pays for a whole round.             *)
(***************************************************************************)
EXTENDS Scheduler, WellFoundedInduction, TLAPS

\* Where slot i comes in a scan that starts after slot c.
Dist(c, i) == IF i > c THEN i - c - 1 ELSE i - c - 1 + N

\* The rounds of the table the process may still have to wait for.
Allowance(f) ==
  IF f = 0 THEN 0 ELSE IF f = 1 THEN N - 1 ELSE IF f = 2 THEN 2 * (N - 1) ELSE 3 * (N - 1)

\* History is kept only of processes that wait for the CPU, and phases only of
\* throttled ones.
Counted ==
  \A i \in Procs :
    /\ (i = current \/ status[i] # "READY") => passed[i] = 0
    /\ ~throttled[i] => phase[i] = 0

WaitBounded ==
  \A i \in Procs : i # current => passed[i] + Dist(current, i) <= N - 2 + Allowance(phase[i])

\* Process 1 lives and stays essential, and the CPU is never given to a free slot.
RootEssential ==
  /\ essential[0] = TRUE /\ status[0] # "DEAD"
  /\ status[current] # "DEAD"

IInv == TypeOK /\ Counted /\ WaitBounded /\ RootEssential /\ ThrottledOnlyInEmergency

----------------------------------------------------------------------------
(* The scan *)

\* A set of numbers has a least one.
LEMMA LeastNatural ==
  ASSUME NEW S, S \subseteq Nat, S # {}
  PROVE  \E x \in S : \A y \in S : x <= y
<1> DEFINE R == {ss \in Nat \X Nat : ss[1] < ss[2]}
<1>1. IsWellFoundedOn(R, Nat)
  BY NatLessThanWellFounded, Zenon DEF OpToRel
<1>2. PICK x \in S : \A y \in S : ~(<<y, x>> \in R)
  <2> HIDE DEF R
  <2> QED BY <1>1, WFMin
<1>3. ASSUME NEW y \in S PROVE x <= y
  <2>1. x \in Nat /\ y \in Nat
    OBVIOUS
  <2>2. y < x => <<y, x>> \in R
    BY <2>1
  <2> QED BY <1>2, <2>1, <2>2
<1> QED BY <1>3

\* Rank counts slots from the one after the current process, going round.
LEMMA RankIsDist ==
  ASSUME TypeOK, NEW i \in Procs
  PROVE  Rank(i) = Dist(current, i) /\ Rank(i) \in 0 .. N - 1
<1>1. N \in Nat /\ N >= 2 /\ i \in 0 .. N - 1 /\ current \in 0 .. N - 1
  BY NAssumption DEF TypeOK, Procs
<1>2. CASE i > current
  <2>1. i - current - 1 \in 0 .. N - 1
    BY <1>1, <1>2
  <2>2. (i - current - 1) % N = i - current - 1
    BY <1>1, <2>1
  <2> QED BY <1>2, <2>1, <2>2 DEF Rank, Dist
<1>3. CASE ~(i > current)
  <2> DEFINE d == i - current - 1
  <2>1. d \in Int /\ d + N \in 0 .. N - 1
    BY <1>1, <1>3
  <2>2. d % N = d + N
    <3> HIDE DEF d
    <3> QED BY <1>1, <2>1
  <2> QED BY <1>3, <2>1, <2>2 DEF Rank, Dist
<1> QED BY <1>2, <1>3

\* The scan stops at the first of its candidates.
LEMMA FirstIsFirst ==
  ASSUME TypeOK, NEW S, S \subseteq Procs, S # {}
  PROVE  First(S) \in S /\ \A j \in S : Rank(First(S)) <= Rank(j)
<1> DEFINE Ranks == {Rank(i) : i \in S}
<1>1. Ranks \subseteq Nat /\ Ranks # {}
  BY RankIsDist
<1>2. PICK r \in Ranks : \A y \in Ranks : r <= y
  BY <1>1, LeastNatural
<1>3. PICK i \in S : r = Rank(i)
  BY <1>2
<1>4. \A j \in S : Rank(i) <= Rank(j)
  BY <1>2, <1>3
<1>5. \E k \in S : \A j \in S : Rank(k) <= Rank(j)
  BY <1>4
<1> QED BY <1>5 DEF First

\* What a choice does to a candidate i it passes over: either the chosen process
\* comes before i, or i was throttled, its phase has not wrapped, and the scan
\* reached it.
LEMMA ChoiceFacts ==
  ASSUME TypeOK, NEW slow, Ready # {}
  PROVE  /\ Successor(slow) \in Ready
         /\ \A i \in Ready \ {Successor(slow)} :
               \/ /\ Rank(Successor(slow)) < Rank(i)
                  /\ i \in slow /\ i \in Scanned(Ready, slow) => phase[i] # 3
               \/ i \in slow /\ phase[i] # 3 /\ i \in Scanned(Ready, slow)
<1> DEFINE E == Eligible(Ready, slow)
           c == Successor(slow)
<1>1. Ready \subseteq Procs /\ E \subseteq Ready
  BY DEF Ready, Eligible
<1>2. c = IF E # {} THEN First(E) ELSE First(Ready)
  BY DEF Successor, Chosen
<1>3. ASSUME NEW i \in Procs, NEW j \in Procs, Rank(i) = Rank(j)
      PROVE  i = j
  <2>1. Dist(current, i) = Dist(current, j)
    BY <1>3, RankIsDist
  <2>2. N \in Nat /\ current \in 0 .. N - 1 /\ i \in 0 .. N - 1 /\ j \in 0 .. N - 1
    BY NAssumption DEF TypeOK, Procs
  <2> QED BY <2>1, <2>2 DEF Dist
<1>4. \A i \in Procs : Rank(i) \in Int
  BY RankIsDist
<1>5. CASE E = {}
  <2>1. c \in Ready
    BY <1>1, <1>2, <1>5, FirstIsFirst
  <2>2. \A i \in Ready : i \in slow /\ phase[i] # 3
    BY <1>5 DEF Eligible
  <2>3. Scanned(Ready, slow) = Ready
    BY <1>5 DEF Scanned
  <2> QED BY <2>1, <2>2, <2>3
<1>6. CASE E # {}
  <2>1. c \in E /\ \A j \in E : Rank(c) <= Rank(j)
    BY <1>1, <1>2, <1>6, FirstIsFirst
  <2>2. c = Chosen(Ready, slow)
    BY DEF Successor
  <2>3. Scanned(Ready, slow) = {i \in Ready : Rank(i) <= Rank(c)}
    BY <1>6, <2>2 DEF Scanned
  <2> HIDE DEF c
  <2>4. ASSUME NEW i \in Ready, i # c
        PROVE  \/ Rank(c) < Rank(i) /\ i \notin Scanned(Ready, slow)
               \/ i \in slow /\ phase[i] # 3 /\ i \in Scanned(Ready, slow)
    <3>1. Rank(i) # Rank(c) /\ Rank(i) \in Int /\ Rank(c) \in Int
      BY <1>1, <1>3, <1>4, <2>1, <2>4
    <3>2. CASE Rank(c) < Rank(i)
      BY <2>3, <3>1, <3>2
    <3>3. CASE Rank(i) < Rank(c)
      <4>1. i \notin E
        BY <2>1, <3>1, <3>3
      <4>2. i \in slow /\ phase[i] # 3
        BY <4>1 DEF Eligible
      <4> QED BY <2>3, <3>1, <3>3, <4>2
    <3> QED BY <3>1, <3>2, <3>3
  <2> QED BY <1>1, <2>1, <2>4 DEF c
<1> QED BY <1>5, <1>6

\* Choosing a process that comes before i brings i nearer by at least one.
LEMMA NearerAfter ==
  ASSUME TypeOK, NEW i \in Procs, NEW c \in Procs, Rank(c) < Rank(i)
  PROVE  Dist(c, i) \in Int /\ Dist(c, i) <= Dist(current, i) - 1
<1>1. N \in Nat /\ current \in 0 .. N - 1 /\ i \in 0 .. N - 1 /\ c \in 0 .. N - 1
  BY NAssumption DEF TypeOK, Procs
<1>2. Dist(current, c) < Dist(current, i)
  BY RankIsDist
<1> QED BY <1>1, <1>2 DEF Dist

\* No other process is further away than the whole table.
LEMMA FarthestIs ==
  ASSUME NEW i \in Procs, NEW c \in Procs, i # c
  PROVE  Dist(c, i) \in 0 .. N - 2
BY NAssumption DEF Procs, Dist

----------------------------------------------------------------------------
(* Steps *)

\* A choice keeps the types, the histories and the bound.
LEMMA RescheduleStep ==
  ASSUME TypeOK, Counted, WaitBounded, NEW slow, slow \subseteq Procs, Reschedule(slow),
         emergency' \in BOOLEAN, renamed' \subseteq Procs
  PROVE  TypeOK' /\ Counted' /\ WaitBounded'
<1> DEFINE c == Successor(slow)
<1>1. Ready \subseteq Procs
  BY DEF Ready
<1>2. c \in Procs
  BY <1>1, ChoiceFacts DEF Successor, TypeOK
<1>3. ASSUME NEW i \in Procs
      PROVE  /\ passed[i] \in Nat /\ phase[i] \in 0 .. 3 /\ throttled[i] \in BOOLEAN
             /\ phase'[i] \in 0 .. 3
             /\ passed'[i] \in 0 .. PassedCap /\ passed'[i] <= passed[i] + 1
  <2>1. passed[i] \in 0 .. PassedCap /\ phase[i] \in 0 .. 3 /\ throttled[i] \in BOOLEAN
    BY DEF TypeOK
  <2>2. Advance(phase[i]) \in 0 .. 3
    BY <2>1 DEF Advance
  <2>3. phase'[i] \in 0 .. 3
    BY <2>1, <2>2 DEF Reschedule
  <2>4. passed'[i] \in 0 .. PassedCap /\ passed'[i] <= passed[i] + 1
    BY <2>1, BoundsAssumption DEF Reschedule
  <2> QED BY <2>1, <2>3, <2>4, BoundsAssumption
<1>4. TypeOK'
  <2>1. status' \in [Procs -> Statuses]
    BY DEF Reschedule, TypeOK, Statuses
  <2>2. throttled' \in [Procs -> BOOLEAN]
    BY DEF Reschedule
  <2>3. phase' = [i \in Procs |-> phase'[i]] /\ passed' = [i \in Procs |-> passed'[i]]
    BY DEF Reschedule
  <2>4. phase' \in [Procs -> 0 .. 3] /\ passed' \in [Procs -> 0 .. PassedCap]
    BY <1>3, <2>3
  <2>5. current' \in Procs /\ UNCHANGED <<essential, in_wait>>
    BY <1>2 DEF Reschedule
  <2> QED BY <2>1, <2>2, <2>4, <2>5 DEF TypeOK
<1>5. Counted'
  <2> SUFFICES ASSUME NEW i \in Procs
               PROVE  /\ (i = current' \/ status'[i] # "READY") => passed'[i] = 0
                      /\ ~throttled'[i] => phase'[i] = 0
    BY DEF Counted
  <2>1. ~throttled'[i] => phase'[i] = 0
    BY DEF Reschedule
  <2>2. (i = current' \/ status'[i] # "READY") => i \notin PassedOver(slow)
    BY DEF Reschedule, PassedOver
  <2>3. i \notin PassedOver(slow) => passed'[i] = 0
    BY DEF Reschedule
  <2> QED BY <2>1, <2>2, <2>3
<1>6. WaitBounded'
  <2> SUFFICES ASSUME NEW i \in Procs, i # c
               PROVE  passed'[i] + Dist(c, i) <= N - 2 + Allowance(phase'[i])
    BY DEF WaitBounded, Reschedule, Dist, Allowance
  <2> HIDE DEF c
  <2>1. Dist(c, i) \in 0 .. N - 2 /\ N \in Nat
    BY <1>2, FarthestIs, NAssumption
  <2>2. ASSUME NEW f \in 0 .. 3
        PROVE  /\ Allowance(f) \in Nat
               /\ f # 3 => Allowance(f + 1) = Allowance(f) + N - 1 /\ Advance(f) = f + 1
    BY <2>2, NAssumption DEF Allowance, Advance
  <2>3. CASE i \notin PassedOver(slow)
    <3>1. passed'[i] = 0
      BY <2>3 DEF Reschedule
    <3>2. Allowance(phase'[i]) \in Nat
      BY <1>3, <2>2
    <3> QED BY <2>1, <3>1, <3>2
  <2>4. CASE i \in PassedOver(slow)
    <3>1. /\ i \in Ready /\ i # current /\ Ready # {}
          /\ throttled[i] <=> i \in slow
      BY <2>4 DEF PassedOver
    <3>2. passed[i] + Dist(current, i) <= N - 2 + Allowance(phase[i])
      BY <3>1 DEF WaitBounded
    <3>3. /\ Dist(current, i) \in 0 .. N - 2
          /\ passed[i] \in Nat /\ passed'[i] \in Nat /\ passed'[i] <= passed[i] + 1
          /\ phase[i] \in 0 .. 3 /\ Allowance(phase[i]) \in Nat
      BY <1>3, <2>2, <3>1, FarthestIs, BoundsAssumption DEF TypeOK
    <3>4. i \notin slow => phase[i] = 0 /\ phase'[i] = 0
      BY <3>1 DEF Counted, Reschedule
    <3>5. i \in slow => phase'[i] = IF i \in Scanned(Ready, slow) THEN Advance(phase[i]) ELSE phase[i]
      BY DEF Reschedule
    <3>6. CASE i \in slow /\ phase[i] # 3 /\ i \in Scanned(Ready, slow)
      <4>1. Allowance(phase'[i]) = Allowance(phase[i]) + N - 1
        BY <2>2, <3>3, <3>5, <3>6
      <4> QED BY <2>1, <3>2, <3>3, <4>1
    <3>7. CASE ~(i \in slow /\ phase[i] # 3 /\ i \in Scanned(Ready, slow))
      <4>1. /\ Rank(c) < Rank(i)
            /\ i \in slow => i \notin Scanned(Ready, slow)
        BY <3>1, <3>7, ChoiceFacts DEF c
      <4>2. phase'[i] = phase[i]
        BY <3>4, <3>5, <4>1
      <4>3. Dist(c, i) <= Dist(current, i) - 1
        BY <1>2, <4>1, NearerAfter
      <4> QED BY <2>1, <3>2, <3>3, <4>2, <4>3
    <3> QED BY <3>6, <3>7
  <2> QED BY <2>3, <2>4
<1> QED BY <1>4, <1>5, <1>6

\* The new policy spares essential processes, so process 1, and throttles nobody
\* once the emergency is over.
LEMMA PolicyStep ==
  ASSUME TypeOK, RootEssential, NEW policy \in BOOLEAN
  PROVE  /\ SlowUnder(policy) \subseteq Procs
         /\ \A i \in SlowUnder(policy) : policy /\ i # 0
         /\ \A i \in Procs : i \in SlowUnder(policy) <=> policy /\ ~essential[i] /\ status[i] # "DEAD"
BY DEF SlowUnder, RootEssential

LEMMA EmergencyAfterIsBoolean ==
  ASSUME NEW reading PROVE EmergencyAfter(reading) \in BOOLEAN
BY DEF EmergencyAfter

\* Process 1 stays where it is when the next process is chosen, which is a live
\* one; and who was alive is alive.
LEMMA RescheduleRoot ==
  ASSUME TypeOK, RootEssential, NEW slow, Reschedule(slow)
  PROVE  /\ RootEssential'
         /\ \A i \in Procs : (status'[i] = "DEAD") <=> (status[i] = "DEAD")
<1>1. 0 \in Procs /\ current \in Procs
  BY NAssumption DEF Procs, TypeOK
<1>2. Successor(slow) \in Procs /\ status[Successor(slow)] # "DEAD"
  <2>1. CASE Ready = {}
    BY <1>1, <2>1 DEF Successor, RootEssential
  <2>2. CASE Ready # {}
    BY <2>2, ChoiceFacts DEF Ready
  <2> QED BY <2>1, <2>2
<1>3. ASSUME NEW i \in Procs PROVE (status'[i] = "DEAD") <=> (status[i] = "DEAD")
  <2>1. i \in Ready => status[i] # "DEAD"
    BY DEF Ready
  <2> QED BY <1>2, <2>1 DEF Reschedule
<1>4. current' = Successor(slow) /\ essential' = essential
  BY DEF Reschedule
<1> QED BY <1>1, <1>2, <1>3, <1>4 DEF RootEssential

\* timer_handler and schedule without a new sample.
LEMMA SchedulingStep == IInv /\ (Tick \/ Yield) => IInv'
<1> SUFFICES ASSUME IInv, Reschedule(Slow), UNCHANGED <<emergency, renamed>> PROVE IInv'
  BY DEF Tick, Yield
<1>1. Slow \subseteq Procs /\ emergency' \in BOOLEAN /\ renamed' \subseteq Procs
  BY DEF Slow, IInv, TypeOK
<1>2. TypeOK' /\ Counted' /\ WaitBounded'
  BY <1>1, RescheduleStep DEF IInv, TypeOK
<1>3. RootEssential' /\ \A i \in Procs : (status'[i] = "DEAD") <=> (status[i] = "DEAD")
  BY RescheduleRoot DEF IInv
<1>4. ThrottledOnlyInEmergency'
  <2>1. \A i \in Procs : throttled'[i] <=> throttled[i]
    BY DEF Reschedule, Slow
  <2>2. essential' = essential
    BY DEF Reschedule
  <2> QED BY <1>3, <2>1, <2>2 DEF IInv, ThrottledOnlyInEmergency
<1> QED BY <1>2, <1>3, <1>4 DEF IInv

\* timer_handler with a new sample.
LEMMA SampleTickStep ==
  ASSUME NEW reading \in Readings PROVE IInv /\ SampleTick(reading) => IInv'
<1> SUFFICES ASSUME IInv, SampleTick(reading) PROVE IInv'
  OBVIOUS
<1> DEFINE slow == SlowUnder(EmergencyAfter(reading))
<1>1. /\ slow \subseteq Procs
      /\ \A i \in slow : EmergencyAfter(reading) /\ i # 0
      /\ \A i \in Procs :
           i \in slow <=> EmergencyAfter(reading) /\ ~essential[i] /\ status[i] # "DEAD"
  BY PolicyStep, EmergencyAfterIsBoolean DEF IInv
<1>2. Reschedule(slow) /\ emergency' = EmergencyAfter(reading) /\ renamed' = {}
  BY DEF SampleTick
<1>3. emergency' \in BOOLEAN /\ renamed' \subseteq Procs
  BY <1>2, EmergencyAfterIsBoolean
<1> HIDE DEF slow
<1>4. TypeOK' /\ Counted' /\ WaitBounded'
  BY <1>1, <1>2, <1>3, RescheduleStep DEF IInv
<1>5. RootEssential' /\ \A i \in Procs : (status'[i] = "DEAD") <=> (status[i] = "DEAD")
  BY <1>2, RescheduleRoot DEF IInv
<1>6. ThrottledOnlyInEmergency'
  <2>1. \A i \in Procs : throttled'[i] <=> i \in slow
    BY <1>2 DEF Reschedule
  <2>2. essential' = essential
    BY <1>2 DEF Reschedule
  <2> QED BY <1>1, <1>2, <1>5, <2>1, <2>2 DEF ThrottledOnlyInEmergency
<1> QED BY <1>4, <1>5, <1>6 DEF IInv

\* A new sample while nothing is preempted.
LEMMA SampleInKernelStep ==
  ASSUME NEW reading \in Readings PROVE IInv /\ SampleInKernel(reading) => IInv'
<1> SUFFICES ASSUME IInv, SampleInKernel(reading) PROVE IInv'
  OBVIOUS
<1> DEFINE slow == SlowUnder(EmergencyAfter(reading))
<1>1. /\ slow \subseteq Procs
      /\ \A i \in slow : EmergencyAfter(reading) /\ i # 0
      /\ \A i \in Procs :
           i \in slow <=> EmergencyAfter(reading) /\ ~essential[i] /\ status[i] # "DEAD"
  BY PolicyStep, EmergencyAfterIsBoolean DEF IInv
<1>2. /\ emergency' = EmergencyAfter(reading) /\ renamed' = {}
      /\ throttled' = [i \in Procs |-> i \in slow]
      /\ phase' = [i \in Procs |-> IF i \in slow THEN phase[i] ELSE 0]
      /\ passed' = [i \in Procs |-> IF throttled[i] <=> i \in slow THEN passed[i] ELSE 0]
      /\ UNCHANGED <<status, essential, current, in_wait>>
  BY DEF SampleInKernel
<1>3. emergency' \in BOOLEAN
  BY <1>2, EmergencyAfterIsBoolean
<1> HIDE DEF slow
<1>4. ASSUME NEW i \in Procs
      PROVE  /\ phase[i] \in 0 .. 3 /\ phase'[i] \in 0 .. 3
             /\ passed[i] \in 0 .. PassedCap /\ passed'[i] \in 0 .. PassedCap
             /\ (passed'[i] = passed[i] /\ phase'[i] = phase[i]) \/ passed'[i] = 0
             /\ passed[i] = 0 => passed'[i] = 0
             /\ ~throttled'[i] => phase'[i] = 0
  <2>1. /\ phase[i] \in 0 .. 3 /\ passed[i] \in 0 .. PassedCap /\ 0 \in 0 .. PassedCap
        /\ throttled[i] \in BOOLEAN
    BY BoundsAssumption DEF IInv, TypeOK
  <2>2. /\ throttled'[i] <=> i \in slow
        /\ i \in slow => phase'[i] = phase[i]
        /\ i \notin slow => phase'[i] = 0
        /\ (throttled[i] <=> i \in slow) => passed'[i] = passed[i]
        /\ ~(throttled[i] <=> i \in slow) => passed'[i] = 0
    BY <1>2
  <2>3. ~throttled[i] => phase[i] = 0
    BY DEF IInv, Counted
  <2> QED BY <2>1, <2>2, <2>3
<1>5. TypeOK'
  <2>1. throttled' \in [Procs -> BOOLEAN]
    BY <1>2
  <2>2. phase' = [i \in Procs |-> phase'[i]] /\ passed' = [i \in Procs |-> passed'[i]]
    BY <1>2
  <2>3. phase' \in [Procs -> 0 .. 3] /\ passed' \in [Procs -> 0 .. PassedCap]
    BY <1>4, <2>2
  <2> QED BY <1>2, <1>3, <2>1, <2>3 DEF IInv, TypeOK
<1>6. Counted'
  BY <1>2, <1>4 DEF IInv, Counted
<1>7. WaitBounded'
  <2> SUFFICES ASSUME NEW i \in Procs, i # current
               PROVE  passed'[i] + Dist(current, i) <= N - 2 + Allowance(phase'[i])
    BY <1>2 DEF WaitBounded, Dist, Allowance
  <2>1. passed[i] + Dist(current, i) <= N - 2 + Allowance(phase[i])
    BY DEF IInv, WaitBounded
  <2>2. Dist(current, i) \in 0 .. N - 2 /\ N \in Nat
    BY FarthestIs, NAssumption DEF IInv, TypeOK
  <2>3. Allowance(phase'[i]) \in Nat
    BY <1>4, NAssumption DEF Allowance
  <2> QED BY <1>4, <2>1, <2>2, <2>3
<1>8. RootEssential'
  BY <1>2 DEF IInv, RootEssential
<1>9. ThrottledOnlyInEmergency'
  <2>1. \A i \in Procs : throttled'[i] <=> i \in slow
    BY <1>2
  <2> QED BY <1>1, <1>2, <2>1 DEF ThrottledOnlyInEmergency
<1> QED BY <1>5, <1>6, <1>7, <1>8, <1>9 DEF IInv

\* Waiting in the kernel and the return from it concern nobody's turn.
LEMMA WaitStep == IInv /\ (Wait \/ Return) => IInv'
<1> SUFFICES ASSUME IInv, in_wait' \in BOOLEAN,
                    UNCHANGED <<status, throttled, phase, essential, emergency, current, renamed, passed>>
             PROVE  IInv'
  BY DEF Wait, Return
<1> QED
  BY DEF IInv, TypeOK, Counted, WaitBounded, RootEssential, ThrottledOnlyInEmergency, Dist, Allowance

\* A step that keeps the current process, and changes at most the phase and the
\* history of processes it resets, keeps the bound.
LEMMA QuietStep ==
  ASSUME IInv, TypeOK', current' = current,
         \A i \in Procs : \/ phase'[i] = phase[i] /\ passed'[i] = passed[i]
                          \/ passed'[i] = 0
  PROVE  WaitBounded'
<1> SUFFICES ASSUME NEW i \in Procs, i # current
             PROVE  passed'[i] + Dist(current, i) <= N - 2 + Allowance(phase'[i])
  BY DEF WaitBounded, Dist, Allowance
<1>1. passed[i] + Dist(current, i) <= N - 2 + Allowance(phase[i])
  BY DEF IInv, WaitBounded
<1>2. Dist(current, i) \in 0 .. N - 2 /\ N \in Nat /\ N >= 2
  BY FarthestIs, NAssumption DEF IInv, TypeOK
<1>3. phase'[i] \in 0 .. 3
  BY DEF TypeOK
<1>4. Allowance(phase'[i]) \in Nat
  BY <1>2, <1>3 DEF Allowance
<1> QED BY <1>1, <1>2, <1>4

LEMMA SpawnStep ==
  ASSUME NEW i \in Procs PROVE IInv /\ Spawn(i) => IInv'
<1> SUFFICES ASSUME IInv, Spawn(i) PROVE IInv'
  OBVIOUS
<1>1. PICK command \in IF current = 0 THEN BOOLEAN ELSE {essential[current]} :
        /\ essential' = [essential EXCEPT ![i] = command]
        /\ throttled' = [throttled EXCEPT ![i] = emergency /\ ~command]
  BY DEF Spawn
<1>2. /\ status' = [status EXCEPT ![i] = "READY"]
      /\ phase' = [phase EXCEPT ![i] = 0] /\ passed' = [passed EXCEPT ![i] = 0]
      /\ UNCHANGED <<emergency, current, in_wait>> /\ status[i] = "DEAD"
      /\ renamed' = renamed \ {i}
  BY DEF Spawn
<1>3. i # 0
  BY <1>2 DEF IInv, RootEssential
<1>4. TypeOK'
  <2>1. (emergency /\ ~command) \in BOOLEAN /\ command \in BOOLEAN
    BY DEF IInv, TypeOK
  <2>2. throttled' \in [Procs -> BOOLEAN] /\ essential' \in [Procs -> BOOLEAN]
    BY <1>1, <2>1 DEF IInv, TypeOK
  <2>3. status' \in [Procs -> Statuses]
    BY <1>2 DEF IInv, TypeOK, Statuses
  <2>4. phase' \in [Procs -> 0 .. 3] /\ passed' \in [Procs -> 0 .. PassedCap]
    BY <1>2, BoundsAssumption DEF IInv, TypeOK
  <2> QED BY <1>2, <2>2, <2>3, <2>4 DEF IInv, TypeOK
<1>5. Counted'
  BY <1>1, <1>2 DEF IInv, TypeOK, Counted
<1>6. WaitBounded'
  BY <1>2, <1>4, QuietStep DEF IInv, TypeOK
<1>7. RootEssential'
  BY <1>1, <1>2, <1>3, NAssumption DEF IInv, TypeOK, RootEssential, Procs
<1>8. ThrottledOnlyInEmergency'
  <2>1. throttled'[i] <=> emergency /\ ~essential'[i]
    BY <1>1 DEF IInv, TypeOK
  <2>2. \A j \in Procs \ {i} : /\ throttled'[j] = throttled[j] /\ essential'[j] = essential[j]
                               /\ status'[j] = status[j]
    BY <1>1, <1>2 DEF IInv, TypeOK
  <2>3. status'[i] = "READY"
    BY <1>2 DEF IInv, TypeOK
  <2> QED BY <1>2, <1>3, <2>1, <2>2, <2>3 DEF IInv, ThrottledOnlyInEmergency
<1> QED BY <1>4, <1>5, <1>6, <1>7, <1>8 DEF IInv

LEMMA ExecStep == IInv /\ Exec => IInv'
<1> SUFFICES ASSUME IInv, Exec PROVE IInv'
  OBVIOUS
<1>1. /\ current # 0 /\ essential' = [essential EXCEPT ![current] = ~essential[current]]
      /\ UNCHANGED <<status, throttled, phase, emergency, current, in_wait, passed>>
      /\ renamed' = renamed \cup {current}
  BY DEF Exec
<1>2. essential' \in [Procs -> BOOLEAN]
  BY <1>1 DEF IInv, TypeOK
<1>3. TypeOK'
  BY <1>1, <1>2 DEF IInv, TypeOK
<1>4. RootEssential'
  BY <1>1, NAssumption DEF IInv, TypeOK, RootEssential, Procs
<1>5. Counted' /\ WaitBounded'
  BY <1>1 DEF IInv, Counted, WaitBounded, Dist, Allowance
<1>6. ThrottledOnlyInEmergency'
  <2>1. \A j \in Procs \ {current} : essential'[j] = essential[j]
    BY <1>1 DEF IInv, TypeOK
  <2> QED BY <1>1, <2>1 DEF IInv, ThrottledOnlyInEmergency
<1> QED BY <1>3, <1>4, <1>5, <1>6 DEF IInv

LEMMA HandoffStep ==
  ASSUME NEW n \in Procs, NEW st \in {"WAITING", "DEAD"} PROVE IInv /\ Handoff(n, st) => IInv'
<1> SUFFICES ASSUME IInv, Handoff(n, st) PROVE IInv'
  OBVIOUS
<1>1. /\ status' = [status EXCEPT ![current] = st, ![n] = IF @ = "PAUSED" THEN @ ELSE "RUNNING"]
      /\ throttled' = [throttled EXCEPT ![current] = @ /\ st # "DEAD"]
      /\ phase' = [phase EXCEPT ![current] = IF st = "DEAD" THEN 0 ELSE @]
      /\ current' = n
      /\ passed' = [i \in Procs |-> 0]
      /\ UNCHANGED <<essential, emergency, in_wait, renamed>>
      /\ n # current /\ status[n] # "DEAD" /\ (st = "DEAD" => current # 0)
  BY DEF Handoff
<1>2. current \in Procs
  BY DEF IInv, TypeOK
<1>3. TypeOK'
  <2>1. throttled' \in [Procs -> BOOLEAN]
    <3>1. (throttled[current] /\ st # "DEAD") \in BOOLEAN
      OBVIOUS
    <3> QED BY <1>1, <3>1 DEF IInv, TypeOK
  <2>2. status' \in [Procs -> Statuses]
    BY <1>1 DEF IInv, TypeOK, Statuses
  <2>3. phase' \in [Procs -> 0 .. 3]
    BY <1>1 DEF IInv, TypeOK
  <2>4. passed' \in [Procs -> 0 .. PassedCap]
    BY <1>1, BoundsAssumption
  <2> QED BY <1>1, <2>1, <2>2, <2>3, <2>4 DEF IInv, TypeOK
<1>4. Counted'
  <2>1. \A i \in Procs : passed'[i] = 0
    BY <1>1
  <2>2. ASSUME NEW i \in Procs, ~throttled'[i] PROVE phase'[i] = 0
    <3>1. CASE i = current /\ st = "DEAD"
      BY <1>1, <3>1 DEF IInv, TypeOK
    <3>2. CASE ~(i = current /\ st = "DEAD")
      <4>1. throttled'[i] = throttled[i] /\ phase'[i] = phase[i]
        BY <1>1, <3>2 DEF IInv, TypeOK
      <4> QED BY <2>2, <4>1 DEF IInv, Counted
    <3> QED BY <3>1, <3>2
  <2> QED BY <2>1, <2>2 DEF Counted
<1>5. WaitBounded'
  <2> SUFFICES ASSUME NEW i \in Procs, i # n
               PROVE  passed'[i] + Dist(n, i) <= N - 2 + Allowance(phase'[i])
    BY <1>1 DEF WaitBounded, Dist, Allowance
  <2>1. Dist(n, i) \in 0 .. N - 2 /\ N \in Nat /\ N >= 2
    BY FarthestIs, NAssumption
  <2>2. phase'[i] \in 0 .. 3
    BY <1>3 DEF TypeOK
  <2>3. Allowance(phase'[i]) \in Nat
    BY <2>1, <2>2 DEF Allowance
  <2> QED BY <1>1, <2>1, <2>3
<1>6. RootEssential'
  <2>1. 0 \in Procs /\ status \in [Procs -> Statuses]
    BY NAssumption DEF Procs, IInv, TypeOK
  <2>2. status'[0] # "DEAD"
    BY <1>1, <1>2, <2>1 DEF IInv, RootEssential
  <2>3. status'[n] # "DEAD"
    BY <1>1, <1>2, <2>1
  <2> QED BY <1>1, <2>2, <2>3 DEF IInv, RootEssential
<1>7. ThrottledOnlyInEmergency'
  <2>1. status[current] # "DEAD" /\ throttled \in [Procs -> BOOLEAN] /\ status \in [Procs -> Statuses]
    BY DEF IInv, RootEssential, TypeOK
  <2>2. /\ throttled'[current] <=> throttled[current] /\ st # "DEAD"
        /\ status'[current] = st
    BY <1>1, <1>2, <2>1
  <2>3. \A i \in Procs \ {current} : throttled'[i] = throttled[i]
    BY <1>1, <2>1
  <2>4. \A i \in Procs \ {current} : (status'[i] = "DEAD") <=> (status[i] = "DEAD")
    BY <1>1, <2>1
  <2> QED BY <1>1, <1>2, <2>1, <2>2, <2>3, <2>4 DEF IInv, ThrottledOnlyInEmergency
<1> QED BY <1>3, <1>4, <1>5, <1>6, <1>7 DEF IInv

LEMMA WakeStep ==
  ASSUME NEW i \in Procs PROVE IInv /\ Wake(i) => IInv'
<1> SUFFICES ASSUME IInv, Wake(i) PROVE IInv'
  OBVIOUS
<1>1. /\ status[i] \in {"PAUSED", "WAITING"} /\ status' = [status EXCEPT ![i] = "READY"]
      /\ UNCHANGED <<throttled, phase, essential, emergency, current, in_wait, renamed, passed>>
  BY DEF Wake
<1>2. TypeOK'
  BY <1>1 DEF IInv, TypeOK, Statuses
<1>3. Counted' /\ RootEssential'
  BY <1>1, NAssumption DEF IInv, TypeOK, Counted, RootEssential, Procs
<1>4. WaitBounded'
  BY <1>1 DEF IInv, WaitBounded, Dist, Allowance
<1>5. ThrottledOnlyInEmergency'
  <2>1. \A j \in Procs : (status'[j] = "DEAD") <=> (status[j] = "DEAD")
    BY <1>1 DEF IInv, TypeOK
  <2> QED BY <1>1, <2>1 DEF IInv, ThrottledOnlyInEmergency
<1> QED BY <1>2, <1>3, <1>4, <1>5 DEF IInv

LEMMA PauseStep ==
  ASSUME NEW i \in Procs PROVE IInv /\ Pause(i) => IInv'
<1> SUFFICES ASSUME IInv, Pause(i) PROVE IInv'
  OBVIOUS
<1>1. /\ status' = [status EXCEPT ![i] = "PAUSED"] /\ passed' = [passed EXCEPT ![i] = 0]
      /\ UNCHANGED <<throttled, phase, essential, emergency, current, in_wait, renamed>>
      /\ i # 0 /\ i # current /\ status[i] = "READY"
  BY DEF Pause
<1>2. TypeOK'
  BY <1>1, BoundsAssumption DEF IInv, TypeOK, Statuses
<1>3. Counted' /\ RootEssential'
  BY <1>1, NAssumption DEF IInv, TypeOK, Counted, RootEssential, Procs
<1>4. WaitBounded'
  BY <1>1, <1>2, QuietStep DEF IInv, TypeOK
<1>5. ThrottledOnlyInEmergency'
  <2>1. \A j \in Procs : (status'[j] = "DEAD") <=> (status[j] = "DEAD")
    BY <1>1 DEF IInv, TypeOK
  <2> QED BY <1>1, <2>1 DEF IInv, ThrottledOnlyInEmergency
<1> QED BY <1>2, <1>3, <1>4, <1>5 DEF IInv

LEMMA KillStep ==
  ASSUME NEW i \in Procs PROVE IInv /\ Kill(i) => IInv'
<1> SUFFICES ASSUME IInv, Kill(i) PROVE IInv'
  OBVIOUS
<1>1. /\ status' = [status EXCEPT ![i] = "DEAD"] /\ throttled' = [throttled EXCEPT ![i] = FALSE]
      /\ phase' = [phase EXCEPT ![i] = 0] /\ passed' = [passed EXCEPT ![i] = 0]
      /\ UNCHANGED <<essential, emergency, current, in_wait, renamed>> /\ i # 0 /\ i # current
  BY DEF Kill
<1>2. TypeOK'
  <2>1. status' \in [Procs -> Statuses] /\ throttled' \in [Procs -> BOOLEAN]
    BY <1>1 DEF IInv, TypeOK, Statuses
  <2>2. phase' \in [Procs -> 0 .. 3] /\ passed' \in [Procs -> 0 .. PassedCap]
    BY <1>1, BoundsAssumption DEF IInv, TypeOK
  <2> QED BY <1>1, <2>1, <2>2 DEF IInv, TypeOK
<1>3. Counted'
  BY <1>1 DEF IInv, TypeOK, Counted
<1>4. RootEssential'
  BY <1>1, NAssumption DEF IInv, TypeOK, RootEssential, Procs
<1>5. WaitBounded'
  BY <1>1, <1>2, QuietStep DEF IInv, TypeOK
<1>6. ThrottledOnlyInEmergency'
  <2>1. throttled'[i] = FALSE /\ status'[i] = "DEAD"
    BY <1>1 DEF IInv, TypeOK
  <2>2. \A j \in Procs \ {i} : throttled'[j] = throttled[j] /\ status'[j] = status[j]
    BY <1>1 DEF IInv, TypeOK
  <2> QED BY <1>1, <2>1, <2>2 DEF IInv, ThrottledOnlyInEmergency
<1> QED BY <1>2, <1>3, <1>4, <1>5, <1>6 DEF IInv

----------------------------------------------------------------------------
\* With only process 1, nobody waits.
LEMMA InitHolds == Init => IInv
<1> SUFFICES ASSUME Init PROVE IInv
  OBVIOUS
<1>1. 0 \in Procs /\ N \in Nat /\ N >= 2
  BY NAssumption DEF Procs
<1>2. TypeOK
  <2>1. essential \in [Procs -> BOOLEAN] /\ throttled \in [Procs -> BOOLEAN] /\ emergency \in BOOLEAN
    BY Zenon DEF Init
  <2>2. status \in [Procs -> Statuses]
    BY DEF Init, Statuses
  <2>3. phase \in [Procs -> 0 .. 3] /\ passed \in [Procs -> 0 .. PassedCap]
    BY BoundsAssumption DEF Init
  <2>4. current \in Procs /\ in_wait \in BOOLEAN /\ renamed \subseteq Procs
    BY <1>1, BoundsAssumption DEF Init
  <2> QED BY <2>1, <2>2, <2>3, <2>4 DEF TypeOK
<1>3. Counted /\ RootEssential /\ ThrottledOnlyInEmergency
  BY <1>1 DEF Init, Counted, RootEssential, ThrottledOnlyInEmergency
<1>4. WaitBounded
  <2> SUFFICES ASSUME NEW i \in Procs, i # 0
               PROVE  passed[i] + Dist(0, i) <= N - 2 + Allowance(phase[i])
    BY DEF Init, WaitBounded
  <2>1. Dist(0, i) \in 0 .. N - 2
    BY <1>1, FarthestIs
  <2>2. passed[i] = 0 /\ phase[i] = 0
    BY DEF Init
  <2> QED BY <1>1, <2>1, <2>2 DEF Allowance
<1> QED BY <1>2, <1>3, <1>4 DEF IInv

\* Every step keeps the invariant.
LEMMA StepHolds == IInv /\ [Next]_vars => IInv'
<1> SUFFICES ASSUME IInv, [Next]_vars PROVE IInv'
  OBVIOUS
<1>1. CASE UNCHANGED vars
  BY <1>1 DEF vars, IInv, TypeOK, Counted, WaitBounded, RootEssential, ThrottledOnlyInEmergency,
              Dist, Allowance
<1>2. CASE Next
  BY <1>2, SchedulingStep, WaitStep, ExecStep, SampleTickStep, SampleInKernelStep, SpawnStep, WakeStep,
     PauseStep, KillStep, HandoffStep DEF Next
<1> QED BY <1>1, <1>2

LEMMA InvariantHolds == Spec => []IInv
BY InitHolds, StepHolds, PTL DEF Spec

\* For any size of the table, during an emergency process_update_thermal_policy
\* and sys_fork slow exactly the processes that are not essential, otherwise
\* nobody, and never process 1; a process that executed a command since the last
\* sample keeps the mark it had.
THEOREM AlwaysThrottledOnlyInEmergency == Spec => []ThrottledOnlyInEmergency
<1>1. IInv => ThrottledOnlyInEmergency
  BY DEF IInv
<1> QED BY <1>1, InvariantHolds, PTL

\* For any size of the table, process_select_next_ready passes a READY process
\* over at most N - 2 times, and a throttled one at most 4 * (N - 1) - 1 times,
\* before it runs, whatever is created, woken, paused and killed meanwhile.
THEOREM AlwaysBoundedBypass == Spec => []BoundedBypass
<1>1. IInv => BoundedBypass
  <2> SUFFICES ASSUME IInv, NEW i \in Procs
               PROVE  passed[i] <= IF throttled[i] THEN 4 * (N - 1) - 1 ELSE N - 2
    BY DEF BoundedBypass
  <2>1. N \in Nat /\ N >= 2 /\ passed[i] \in 0 .. PassedCap /\ phase[i] \in 0 .. 3
    BY NAssumption DEF IInv, TypeOK
  <2>2. CASE i = current
    BY <2>1, <2>2 DEF IInv, Counted
  <2>3. CASE i # current
    <3>1. passed[i] + Dist(current, i) <= N - 2 + Allowance(phase[i])
      BY <2>3 DEF IInv, WaitBounded
    <3>2. Dist(current, i) \in 0 .. N - 2
      BY <2>3, FarthestIs DEF IInv, TypeOK
    <3>3. Allowance(phase[i]) \in Nat /\ Allowance(phase[i]) <= 3 * (N - 1)
      BY <2>1 DEF Allowance
    <3>4. ~throttled[i] => Allowance(phase[i]) = 0
      BY DEF IInv, Counted, Allowance
    <3> QED BY <2>1, <3>1, <3>2, <3>3, <3>4, BoundsAssumption
  <2> QED BY <2>2, <2>3
<1> QED BY <1>1, InvariantHolds, PTL
=============================================================================
