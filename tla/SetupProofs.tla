---------------------------- MODULE SetupProofs ----------------------------
(***************************************************************************)
(* Proofs about what happens before a user works with the system: the      *)
(* installation on a disk, for every number of boot image chunks and       *)
(* configuration files, and the delays of the login that follows it, for   *)
(* every frequency of the timer and every number of attempts.              *)
(***************************************************************************)
EXTENDS Session, Installer, TLAPS

----------------------------------------------------------------------------
(***************************************************************************)
(* The login.                                                              *)
(***************************************************************************)
\* The inductive invariant: the two properties need each other's variables to be
\* numbers and the last reset to lie in the past.
LoginInv == SessionTypeOK /\ since <= now /\ DelayCapped /\ GuessingIsSlow

\* session_login: the delay of a failure is a number of seconds up to ten.
LEMMA DelayRange ==
  ASSUME NEW n \in Nat
  PROVE  Delay(n) \in 0 .. 10
BY DEF Delay

\* Each failure from the third on adds its own delay to what was paid before.
LEMMA PaidStep ==
  ASSUME NEW n \in Nat, n >= 2
  PROVE  /\ Paid(n) \in Nat /\ Paid(n + 1) \in Nat
         /\ Paid(n + 1) = Paid(n) + Delay(n + 1)
<1>1. CASE n \in 2 .. 10
  <2>1. n \in {2, 3, 4, 5, 6, 7, 8, 9, 10}
    BY <1>1
  <2> QED
    BY <2>1 DEF Paid, Delay
<1>2. CASE n = 11
  BY <1>2 DEF Paid, Delay
<1>3. CASE n > 11
  BY <1>3 DEF Paid, Delay
<1> QED
  BY <1>1, <1>2, <1>3

\* retry_seconds is zero exactly when no window is open.
LEMMA WindowClosed ==
  ASSUME LoginInv, RetrySeconds = 0
  PROVE  now >= retry_after_tick
<1> SUFFICES ASSUME now < retry_after_tick PROVE FALSE
  BY DEF LoginInv, SessionTypeOK
<1> DEFINE k == retry_after_tick - now
<1>1. k \in Nat /\ k >= 1 /\ Frequency \in Nat /\ Frequency >= 1
      /\ now \in Nat /\ retry_after_tick \in Nat
  BY FrequencyAssumption, BoundsAssumption DEF LoginInv, SessionTypeOK
<1>2. (k + Frequency - 1) \div Frequency = 0
  <2>1. ~(now >= retry_after_tick)
    BY <1>1
  <2> QED
    BY <2>1 DEF RetrySeconds
<1> HIDE DEF k
<1>3. k + Frequency - 1 < Frequency
  <2> DEFINE a == k + Frequency - 1
  <2>1. a \in Nat
    BY <1>1
  <2>2. a = Frequency * (a \div Frequency) + (a % Frequency) /\ a % Frequency < Frequency
    <3> HIDE DEF a
    <3> QED BY <2>1, <1>1, SMTT(30)
  <2>3. a = a % Frequency
    BY <2>1, <2>2, <1>1, <1>2
  <2> QED BY <2>1, <2>2, <2>3
<1> QED
  BY <1>1, <1>3

\* Boot establishes the invariant.
LEMMA LoginInvInit == SessionInit => LoginInv
BY FrequencyAssumption, BoundsAssumption
   DEF SessionInit, LoginInv, SessionTypeOK, DelayCapped, GuessingIsSlow

\* A failure keeps the invariant: the window it opens starts when the one before
\* has ended.
LEMMA LoginWrongKeeps ==
  ASSUME LoginInv, LoginWrong
  PROVE  LoginInv'
<1>1. now \in Nat /\ since \in Nat /\ failed_attempts \in Nat /\ since <= now
      /\ Frequency \in Nat /\ Frequency >= 1 /\ retry_after_tick \in Nat
      /\ MaxTick \in Nat /\ now <= MaxTick /\ MaxFailed \in Nat
  BY FrequencyAssumption, BoundsAssumption DEF LoginInv, SessionTypeOK
<1>2. now >= retry_after_tick
  BY WindowClosed DEF LoginWrong, MayTry
<1>3. failed_attempts' = failed_attempts + 1 /\ now' = now /\ since' = since
  BY DEF LoginWrong
<1>4. uid' \in {"login", "user"} /\ autologin' \in BOOLEAN /\ failed_attempts' \in 0 .. MaxFailed
  <2>1. uid' = uid /\ autologin' = autologin
    BY DEF LoginWrong
  <2>2. uid' \in {"login", "user"} /\ autologin' \in BOOLEAN
    BY <2>1, Zenon DEF LoginInv, SessionTypeOK
  <2>3. failed_attempts' \in 0 .. MaxFailed
    BY <1>1, <1>3 DEF LoginWrong
  <2> QED BY <2>2, <2>3
<1>5. CASE failed_attempts < 2
  <2>1. retry_after_tick' = retry_after_tick
    BY <1>1, <1>3, <1>5 DEF LoginWrong
  <2>2. SessionTypeOK'
    <3>1. retry_after_tick' \in 0 .. MaxTick + 10 * Frequency
      BY <2>1 DEF LoginInv, SessionTypeOK
    <3>2. now' \in 0 .. MaxTick /\ since' \in Nat
      BY <1>1, <1>3
    <3> QED BY <3>1, <3>2, <1>4 DEF SessionTypeOK
  <2>3. DelayCapped' /\ GuessingIsSlow'
    BY <1>1, <1>2, <1>3, <1>5, <2>1 DEF DelayCapped, GuessingIsSlow
  <2> QED
    BY <2>2, <2>3, <1>1, <1>3 DEF LoginInv
<1>6. CASE failed_attempts >= 2
  <2> DEFINE d == Delay(failed_attempts + 1)
             a == Paid(failed_attempts)
             b == Paid(failed_attempts + 1)
  <2>1. d \in Nat /\ d <= 10 /\ a \in Nat /\ b \in Nat /\ b = a + d
    BY <1>1, <1>6, PaidStep, DelayRange
  <2>2. retry_after_tick' = now + Frequency * d
    BY <1>1, <1>3, <1>6 DEF LoginWrong
  <2>3. now >= since + Frequency * a
    <3>1. CASE failed_attempts = 2
      BY <3>1, <1>1 DEF Paid
    <3>2. CASE failed_attempts >= 3
      BY <3>2, <1>1, <1>2, <2>1 DEF LoginInv, GuessingIsSlow
    <3> QED BY <3>1, <3>2, <1>1, <1>6
  <2> HIDE DEF d, a, b
  <2>4. Frequency * d \in Nat /\ Frequency * a \in Nat /\ Frequency * d <= 10 * Frequency
    BY <2>1, <1>1
  <2>5. Frequency * b = Frequency * a + Frequency * d
    BY <2>1, <1>1
  <2>6. DelayCapped'
    BY <2>2, <2>4, <1>1, <1>3 DEF DelayCapped
  <2>7. GuessingIsSlow'
    <3>1. Paid(failed_attempts') = b
      BY <1>3 DEF b
    <3>2. retry_after_tick' >= since' + Frequency * b
      BY <2>2, <2>3, <2>4, <2>5, <1>1, <1>3
    <3> QED BY <3>1, <3>2 DEF GuessingIsSlow, Paid
  <2>8. SessionTypeOK'
    <3>1. retry_after_tick' \in 0 .. MaxTick + 10 * Frequency
      BY <2>2, <2>4, <1>1
    <3>2. now' \in 0 .. MaxTick /\ since' \in Nat
      BY <1>1, <1>3
    <3> QED BY <3>1, <3>2, <1>4 DEF SessionTypeOK
  <2> QED
    BY <2>6, <2>7, <2>8, <1>1, <1>3 DEF LoginInv
<1> QED
  BY <1>1, <1>5, <1>6

\* Every request to the session manager and every tick keep it.
LEMMA LoginInvNext == LoginInv /\ [SessionNext]_sessionVars => LoginInv'
<1> SUFFICES ASSUME LoginInv, [SessionNext]_sessionVars PROVE LoginInv'
  OBVIOUS
<1> USE FrequencyAssumption, BoundsAssumption
<1>1. CASE Tick
  BY <1>1 DEF Tick, LoginInv, SessionTypeOK, DelayCapped, GuessingIsSlow, Paid
<1>2. CASE LoginWrong
  BY <1>2, LoginWrongKeeps
<1>3. CASE LoginRight
  BY <1>3 DEF LoginRight, Reset, LoginInv, SessionTypeOK, DelayCapped, GuessingIsSlow
<1>4. CASE Autologin
  BY <1>4 DEF Autologin, Reset, LoginInv, SessionTypeOK, DelayCapped, GuessingIsSlow
<1>5. CASE Logout
  BY <1>5 DEF Logout, Reset, LoginInv, SessionTypeOK, DelayCapped, GuessingIsSlow
<1>6. CASE Configure
  BY <1>6 DEF Configure, LoginInv, SessionTypeOK, DelayCapped, GuessingIsSlow, Paid
<1>7. CASE UNCHANGED sessionVars
  BY <1>7 DEF sessionVars, LoginInv, SessionTypeOK, DelayCapped, GuessingIsSlow, Paid
<1> QED
  BY <1>1, <1>2, <1>3, <1>4, <1>5, <1>6, <1>7 DEF SessionNext

\* So it holds in every state of the login session.
LEMMA LoginInvAlways == SessionSpec => []LoginInv
BY LoginInvInit, LoginInvNext, PTL DEF SessionSpec

\* docs/session-manager.md: the delay is capped at ten seconds.
THEOREM LoginDelayCapped == SessionSpec => []DelayCapped
<1>1. LoginInv => DelayCapped
  BY DEF LoginInv
<1> QED
  BY <1>1, LoginInvAlways, PTL

\* session_login makes n failures cost the sum of their delays.
THEOREM LoginGuessingIsSlow == SessionSpec => []GuessingIsSlow
<1>1. LoginInv => GuessingIsSlow
  BY DEF LoginInv
<1> QED
  BY <1>1, LoginInvAlways, PTL

\* For every frequency of the timer the seconds session_login reports are enough
\* to wait and less than a second too many.
THEOREM LoginReportsDelay == SessionSpec => []ReportedDelayExact
<1>1. LoginInv => ReportedDelayExact
  <2> SUFFICES ASSUME LoginInv, retry_after_tick > now
               PROVE  /\ now + Frequency * RetrySeconds >= retry_after_tick
                      /\ now + Frequency * (RetrySeconds - 1) < retry_after_tick
    BY DEF ReportedDelayExact
  <2> DEFINE a == retry_after_tick - now + Frequency - 1
             q == a \div Frequency
  <2>1. /\ now \in Nat /\ retry_after_tick \in Nat
        /\ Frequency \in Nat /\ Frequency >= 1
    BY FrequencyAssumption, BoundsAssumption DEF LoginInv, SessionTypeOK
  <2>2. RetrySeconds = q
    <3>1. ~(now >= retry_after_tick)
      BY <2>1
    <3> QED
      BY <3>1 DEF RetrySeconds
  <2>3. a \in Nat /\ a = retry_after_tick - now + Frequency - 1
    BY <2>1
  <2> HIDE DEF a
  <2>4. q \in Int /\ a = Frequency * q + (a % Frequency) /\ a % Frequency \in 0..(Frequency - 1)
    BY <2>1, <2>3, SMTT(30)
  <2> HIDE DEF q
  <2>5. Frequency * (q - 1) = Frequency * q - Frequency /\ Frequency * q \in Int
    BY <2>1, <2>4, SMTT(30)
  <2> DEFINE p == Frequency * q
             r == a % Frequency
  <2>6. p \in Int /\ r \in 0..(Frequency - 1) /\ a = p + r /\ Frequency * (q - 1) = p - Frequency
    BY <2>4, <2>5
  <2> HIDE DEF p, r
  <2>7. now + p >= retry_after_tick /\ now + (p - Frequency) < retry_after_tick
    BY <2>1, <2>3, <2>6
  <2> QED
    BY <2>2, <2>6, <2>7 DEF p
<1> QED
  BY <1>1, LoginInvAlways, PTL

----------------------------------------------------------------------------
(***************************************************************************)
(* The installation.  The invariant says what the steps done so far have   *)
(* left on the disk, and that the machine, while it runs, knows of a       *)
(* marker on its disk.  A handler may be interrupted at every one of its   *)
(* writes, so the disk is followed write by write: what it holds after the *)
(* first n of them, after a torn one and after one that was reported       *)
(* failed.                                                                 *)
(***************************************************************************)
USE InstallerAssumption

\* The steps that come after a step has been completed.
PastPartitioning ==
  {"FORMATTING", "COPYING_KERNEL", "COPYING_INITRD", "COPYING_USERSPACE", "WRITING_CONFIG",
   "INSTALLING_BOOTLOADER", "CREATING_LOG", "FINISHING"}
PastFormatting ==
  {"COPYING_KERNEL", "COPYING_INITRD", "COPYING_USERSPACE", "WRITING_CONFIG",
   "INSTALLING_BOOTLOADER", "CREATING_LOG", "FINISHING"}
PastCopying ==
  {"COPYING_USERSPACE", "WRITING_CONFIG", "INSTALLING_BOOTLOADER", "CREATING_LOG", "FINISHING"}
PastConfig == {"INSTALLING_BOOTLOADER", "CREATING_LOG", "FINISHING"}
PastBootloader == {"CREATING_LOG", "FINISHING"}
RunningSteps == {"PREPARING", "CHECKING_DISK", "PARTITIONING"} \cup PastPartitioning

\* The domains that the steps rely on.
Shape ==
  /\ on \in BOOLEAN /\ running \in BOOLEAN /\ layout \in BOOLEAN
  /\ marker \in BOOLEAN /\ lateMarker \in BOOLEAN
  /\ copy_offset \in 0..BootChunks
  /\ disk = [p \in Parts |-> disk[p]]

\* What the steps before the current one have written is on the disk; of the
\* MBR the partition tool may have written its own version.
Written ==
  /\ step \in PastPartitioning => disk[Mbr] \in {"new", "table"}
  /\ step \in PastFormatting => disk[Super] = "new" /\ ~lateMarker
  /\ step \in PastFormatting \ {"FINISHING"} => disk[Marker] = "none"
  /\ \A k \in 1..copy_offset : disk[Chunk(k)] = "new"
  /\ step \in PastCopying => copy_offset = BootChunks
  /\ step \in PastConfig => \A k \in 1..Configs : disk[Config(k)] = "new"
  /\ step \in PastBootloader => disk[Core] = "new"
  /\ step = "FINISHING" => disk[Log] = "new" /\ disk[Marker] = "new"

\* The flags in memory agree with each other and with the disk: while the
\* machine runs it knows of the marker on its disk, so that no installation
\* starts beside one; and it knows the partition that the marker is on, so that a
\* table written from memory still names it.
InMemory ==
  /\ running => on /\ (marker <=> step = "FINISHING") /\ step \in RunningSteps
  /\ running /\ step \in PastPartitioning => layout
  /\ step = "COMPLETE" => on /\ ~running
  /\ on /\ Present(Marker) /\ ~lateMarker => marker /\ layout

InstallInv == Shape /\ MarkerLast /\ InMemory /\ (running => Written)

----------------------------------------------------------------------------
(* The parts of an installation *)

\* The names of the parts are all different.
LEMMA Distinct ==
  /\ Mbr # Super /\ Mbr # Core /\ Mbr # Log /\ Mbr # Marker
  /\ Super # Core /\ Super # Log /\ Super # Marker
  /\ Core # Log /\ Core # Marker /\ Log # Marker
  /\ \A k : Chunk(k) \notin {Mbr, Super, Core, Log, Marker}
  /\ \A k : Config(k) \notin {Mbr, Super, Core, Log, Marker}
  /\ \A j, k : Chunk(j) # Config(k)
  /\ \A j, k : Chunk(j) = Chunk(k) => j = k
  /\ \A j, k : Config(j) = Config(k) => j = k
  BY DEF Mbr, Super, Core, Log, Marker, Chunk, Config

\* The files in the order of their slots.
LEMMA FileOrder ==
  /\ Len(Files) = Configs + 2
  /\ \A k \in 1..Configs : Files[k] = Config(k)
  /\ Files[Configs + 1] = Log /\ Files[Configs + 2] = Marker
  BY DEF Files

\* What an installation consists of.
LEMMA AllParts ==
  /\ Mbr \in Parts /\ Super \in Parts /\ Core \in Parts /\ Log \in Parts /\ Marker \in Parts
  /\ \A k \in 1..BootChunks : Chunk(k) \in Parts
  /\ \A k \in 1..Configs : Config(k) \in Parts
  /\ \A p \in Parts : \/ p \in {Mbr, Super, Core, Log, Marker}
                      \/ \E k \in 1..BootChunks : p = Chunk(k)
                      \/ \E k \in 1..Configs : p = Config(k)
<1>1. {Files[k] : k \in 1..Len(Files)} = {Config(k) : k \in 1..Configs} \cup {Log, Marker}
  <2>1. ASSUME NEW k \in 1..(Configs + 2)
        PROVE  Files[k] \in {Config(j) : j \in 1..Configs} \cup {Log, Marker}
    <3>1. k \in 1..Configs \/ k = Configs + 1 \/ k = Configs + 2
      OBVIOUS
    <3> QED BY <3>1, FileOrder
  <2>2. ASSUME NEW f \in {Config(j) : j \in 1..Configs} \cup {Log, Marker}
        PROVE  \E k \in 1..(Configs + 2) : f = Files[k]
    BY FileOrder
  <2> QED BY <2>1, <2>2, FileOrder
<1> QED BY <1>1, Zenon DEF Parts, Chunks

\* The value of a part after n writes: that of the last write to it.
LEMMA LastWrite ==
  ASSUME NEW n \in Nat, NEW p \in Parts, NEW m \in 1..n, Writes[m].part = p,
         \A k \in (m + 1)..n : Writes[k].part # p
  PROVE  After(n)[p] = Writes[m].value
<1> DEFINE hits == {k \in 1..n : Writes[k].part = p}
<1>1. m \in hits /\ \A k \in hits : k <= m
  OBVIOUS
<1>2. Max(hits) = m
  <2>1. Max(hits) \in hits /\ \A k \in hits : Max(hits) >= k
    BY <1>1 DEF Max
  <2> QED BY <1>1, <2>1
<1> HIDE DEF hits
<1>3. After(n)[p] = IF hits = {} THEN disk[p] ELSE Writes[Max(hits)].value
  BY DEF After, hits
<1> QED BY <1>1, <1>2, <1>3

\* A part that no write concerns keeps its value.
LEMMA NoWrite ==
  ASSUME NEW n \in Nat, NEW p \in Parts, \A k \in 1..n : Writes[k].part # p
  PROVE  After(n)[p] = disk[p]
  BY DEF After

----------------------------------------------------------------------------
(* The writes of each step *)

\* The part and the value of a write.
LEMMA WriteFields ==
  ASSUME NEW p, NEW v
  PROVE  Write(p, v).part = p /\ Write(p, v).value = v
  BY DEF Write

\* write_partition_mbr writes the MBR.
LEMMA PartitioningWrites ==
  ASSUME step = "PARTITIONING"
  PROVE  Len(Writes) = 1 /\ Writes[1] = Write(Mbr, "new")
<1>1. Writes = <<Write(Mbr, "new")>>
  BY DEF Writes, Partitioning, Copying
<1> QED BY <1>1

\* aosfs_format_role writes the superblock and clears every file, the marker last.
LEMMA FormattingWrites ==
  ASSUME step = "FORMATTING"
  PROVE  /\ Len(Writes) = Configs + 3
         /\ Writes[1] = Write(Super, "new")
         /\ \A k \in 1..Configs : Writes[k + 1] = Write(Config(k), "none")
         /\ Writes[Configs + 2] = Write(Log, "none")
         /\ Writes[Configs + 3] = Write(Marker, "none")
<1> DEFINE slots == [k \in 1..Len(Files) |-> Write(Files[k], "none")]
<1>1. Writes = <<Write(Super, "new")>> \o slots
  BY DEF Writes, Formatting, Copying
<1>2. Len(slots) = Configs + 2 /\ \A k \in 1..(Configs + 2) : slots[k] = Write(Files[k], "none")
  BY FileOrder
<1>3. slots \in Seq({slots[k] : k \in 1..(Configs + 2)})
  BY FileOrder
<1> HIDE DEF slots
<1>4. /\ Len(Writes) = Configs + 3 /\ Writes[1] = Write(Super, "new")
      /\ \A k \in 1..(Configs + 2) : Writes[k + 1] = slots[k]
  BY <1>1, <1>2, <1>3
<1> QED BY <1>2, <1>4, FileOrder

\* copy_boot_chunk writes the chunk at the offset, unless its phase is over.
LEMMA CopyingWrites ==
  ASSUME step \in {"COPYING_KERNEL", "COPYING_INITRD"}, copy_offset \in 0..BootChunks
  PROVE  /\ Copied \in 0..BootChunks
         /\ Copied = copy_offset => Writes = <<>>
         /\ Copied # copy_offset =>
              /\ Copied = copy_offset + 1
              /\ Len(Writes) = 1 /\ Writes[1] = Write(Chunk(Copied), "new")
         /\ step = "COPYING_INITRD" /\ AtLimit(Copied) => Copied = BootChunks
<1>1. Copying
  BY DEF Copying
<1>2. Copied \in 0..BootChunks /\ (Copied # copy_offset => Copied = copy_offset + 1)
  BY <1>1 DEF Copied, Limit
<1>3. Writes = IF Copied # copy_offset THEN <<Write(Chunk(Copied), "new")>> ELSE <<>>
  BY <1>1 DEF Writes
<1>4. step = "COPYING_INITRD" /\ AtLimit(Copied) => Copied = BootChunks
  BY <1>2 DEF AtLimit, Limit
<1> QED BY <1>2, <1>3, <1>4

\* Every configuration file is created, then filled.
LEMMA ConfigWrites ==
  ASSUME step = "WRITING_CONFIG"
  PROVE  /\ Len(Writes) = 2 * Configs
         /\ \A k \in 1..Configs : /\ Writes[2 * k - 1] = Write(Config(k), "part")
                                   /\ Writes[2 * k] = Write(Config(k), "new")
         /\ \A k \in 1..(2 * Configs) : \E j \in 1..Configs :
              Writes[k].part = Config(j) /\ (k = 2 * j - 1 \/ k = 2 * j)
<1>1. Writes = WritingConfig
  BY DEF Writes, Copying
<1>2. Len(Writes) = 2 * Configs
  BY <1>1 DEF WritingConfig
<1>3. ASSUME NEW k \in 1..Configs
      PROVE  /\ Writes[2 * k - 1] = Write(Config(k), "part")
             /\ Writes[2 * k] = Write(Config(k), "new")
  <2>1. /\ 2 * k - 1 \in 1..(2 * Configs) /\ 2 * k \in 1..(2 * Configs)
        /\ ((2 * k - 1) + 1) \div 2 = k /\ (2 * k + 1) \div 2 = k
        /\ 2 - ((2 * k - 1) % 2) = 1 /\ 2 - ((2 * k) % 2) = 2
    OBVIOUS
  <2>2. \A j \in 1..(2 * Configs) :
          Writes[j] = WriteFile(Config((j + 1) \div 2))[2 - (j % 2)]
    BY <1>1 DEF WritingConfig
  <2>3. /\ Writes[2 * k - 1] = WriteFile(Config(k))[1]
        /\ Writes[2 * k] = WriteFile(Config(k))[2]
    BY <2>1, <2>2
  <2> QED BY <2>3 DEF WriteFile
<1>4. ASSUME NEW k \in 1..(2 * Configs)
      PROVE  \E j \in 1..Configs : Writes[k].part = Config(j) /\ (k = 2 * j - 1 \/ k = 2 * j)
  <2> DEFINE j == (k + 1) \div 2
  <2>1. j \in 1..Configs /\ (k = 2 * j - 1 \/ k = 2 * j)
    OBVIOUS
  <2> HIDE DEF j
  <2>2. Writes[k].part = Config(j)
    <3>1. Writes[k] = Write(Config(j), "part") \/ Writes[k] = Write(Config(j), "new")
      BY <1>3, <2>1
    <3> QED BY <3>1, WriteFields
  <2> QED BY <2>1, <2>2
<1> QED BY <1>2, <1>3, <1>4

\* The boot loader's core is one write.
LEMMA BootloaderWrites ==
  ASSUME step = "INSTALLING_BOOTLOADER"
  PROVE  Len(Writes) = 1 /\ Writes[1] = Write(Core, "new")
  BY DEF Writes, Copying

\* The log is written before the marker.
LEMMA LogWrites ==
  ASSUME step = "CREATING_LOG"
  PROVE  /\ Len(Writes) = 4
         /\ Writes[1] = Write(Log, "part") /\ Writes[2] = Write(Log, "new")
         /\ Writes[3] = Write(Marker, "part") /\ Writes[4] = Write(Marker, "new")
<1>1. Writes = WriteFile(Log) \o WriteFile(Marker)
  BY DEF Writes, Copying, CreatingLog
<1> QED BY <1>1 DEF WriteFile

\* The checks and the copying of userspace write nothing.
LEMMA OtherWrites ==
  ASSUME step \in {"PREPARING", "CHECKING_DISK", "COPYING_USERSPACE", "FINISHING"}
  PROVE  Writes = <<>> /\ Len(Writes) = 0
  BY DEF Writes, Copying

\* Every handler makes finitely many writes.
LEMMA WritesLength ==
  ASSUME Shape, step \in RunningSteps
  PROVE  Len(Writes) \in Nat
<1>1. CASE step \in {"COPYING_KERNEL", "COPYING_INITRD"}
  BY <1>1, CopyingWrites DEF Shape
<1>2. CASE step \in RunningSteps \ {"COPYING_KERNEL", "COPYING_INITRD"}
  BY <1>2, PartitioningWrites, FormattingWrites, ConfigWrites, BootloaderWrites, LogWrites,
     OtherWrites DEF RunningSteps, PastPartitioning
<1> QED BY <1>1, <1>2

----------------------------------------------------------------------------
(* What the writes do to the marker *)

\* Only the formatting and the last step write the marker.
LEMMA MarkerUntouched ==
  ASSUME Shape, step \in RunningSteps \ {"FORMATTING", "CREATING_LOG"},
         NEW n \in 0..Len(Writes)
  PROVE  /\ After(n)[Marker] = disk[Marker]
         /\ LateAfter(n) = lateMarker /\ MarkerAfter(n) = marker
<1>1. \A k \in 1..n : Writes[k].part # Marker
  <2>1. CASE step = "PARTITIONING"
    <3>1. Len(Writes) = 1 /\ Writes[1].part = Mbr
      BY <2>1, PartitioningWrites, WriteFields
    <3> QED BY <3>1, Distinct
  <2>2. CASE step \in {"COPYING_KERNEL", "COPYING_INITRD"}
    <3>1. copy_offset \in 0..BootChunks
      BY DEF Shape
    <3>2. CASE Copied = copy_offset
      BY <2>2, <3>1, <3>2, CopyingWrites
    <3>3. CASE Copied # copy_offset
      <4>1. Len(Writes) = 1 /\ Writes[1].part = Chunk(Copied)
        BY <2>2, <3>1, <3>3, CopyingWrites, WriteFields
      <4> QED BY <4>1, Distinct
    <3> QED BY <3>2, <3>3
  <2>3. CASE step = "WRITING_CONFIG"
    BY <2>3, ConfigWrites, Distinct
  <2>4. CASE step = "INSTALLING_BOOTLOADER"
    <3>1. Len(Writes) = 1 /\ Writes[1].part = Core
      BY <2>4, BootloaderWrites, WriteFields
    <3> QED BY <3>1, Distinct
  <2>5. CASE step \in {"PREPARING", "CHECKING_DISK", "COPYING_USERSPACE", "FINISHING"}
    BY <2>5, OtherWrites
  <2> QED BY <2>1, <2>2, <2>3, <2>4, <2>5 DEF RunningSteps, PastPartitioning
<1>2. n \in Nat
  OBVIOUS
<1>3. After(n)[Marker] = disk[Marker]
  BY <1>1, <1>2, NoWrite, AllParts
<1>4. LateAfter(n) = lateMarker
  BY <1>1 DEF LateAfter, Write, Shape
<1>5. MarkerAfter(n) = marker
  BY Zenon DEF MarkerAfter
<1> QED BY <1>3, <1>4, <1>5

\* The formatting removes the marker with its last write, and with it the doubt
\* about it.
LEMMA MarkerFormatted ==
  ASSUME Shape, step = "FORMATTING", NEW n \in 0..Len(Writes)
  PROVE  /\ n < Len(Writes) => After(n)[Marker] = disk[Marker] /\ LateAfter(n) = lateMarker
         /\ n = Len(Writes) => After(n)[Marker] = "none" /\ ~LateAfter(n)
         /\ ~MarkerAfter(n)
<1>1. n \in Nat
  OBVIOUS
<1>2. \A k \in 1..(Configs + 2) : Writes[k].part # Marker
  <2> SUFFICES ASSUME NEW k \in 1..(Configs + 2)
               PROVE  Writes[k].part # Marker
    OBVIOUS
  <2>1. k = 1 \/ k = Configs + 2 \/ (k - 1 \in 1..Configs /\ k = (k - 1) + 1)
    OBVIOUS
  <2>2. Writes[k].part \in {Super, Log} \cup {Config(j) : j \in 1..Configs}
    <3>1. CASE k = 1 \/ k = Configs + 2
      BY <3>1, FormattingWrites, WriteFields
    <3>2. CASE k - 1 \in 1..Configs /\ k = (k - 1) + 1
      <4>1. Writes[k] = Write(Config(k - 1), "none")
        BY <3>2, FormattingWrites
      <4> QED BY <3>2, <4>1, WriteFields
    <3> QED BY <2>1, <3>1, <3>2
  <2> QED BY <2>2, Distinct
<1>3. CASE n < Len(Writes)
  <2>1. \A k \in 1..n : Writes[k].part # Marker
    BY <1>2, <1>3, FormattingWrites
  <2>2. After(n)[Marker] = disk[Marker]
    BY <1>1, <2>1, NoWrite, AllParts
  <2>3. LateAfter(n) = lateMarker
    BY <2>1 DEF LateAfter, Write, Shape
  <2> QED BY <1>3, <2>2, <2>3 DEF MarkerAfter
<1>4. CASE n = Len(Writes)
  <2>1. n = Configs + 3 /\ n \in 1..n /\ Writes[n] = Write(Marker, "none")
    BY <1>4, FormattingWrites
  <2>2. After(n)[Marker] = Writes[n].value
    BY <1>1, <2>1, LastWrite, AllParts DEF Write
  <2>3. ~LateAfter(n)
    BY <2>1 DEF LateAfter
  <2> QED BY <1>4, <2>1, <2>2, <2>3 DEF MarkerAfter, Write
<1> QED BY <1>3, <1>4

\* The last step: the log, then the marker.
LEMMA MarkerCreated ==
  ASSUME Shape, step = "CREATING_LOG", NEW n \in 0..4
  PROVE  /\ n <= 2 => After(n)[Marker] = disk[Marker] /\ ~MarkerAfter(n)
         /\ n = 4 => After(n)[Marker] = "new"
         /\ n >= 3 => MarkerAfter(n)
         /\ n >= 2 => After(n)[Log] = "new"
         /\ \A p \in Parts \ {Log, Marker} : After(n)[p] = disk[p]
         /\ LateAfter(n) = lateMarker
<1>1. /\ n \in Nat
      /\ Writes[1].part = Log /\ Writes[2].part = Log /\ Writes[2].value = "new"
      /\ Writes[3].part = Marker /\ Writes[4].part = Marker
      /\ Writes[4].value = "new" /\ Writes[3].value = "part" /\ Log # Marker
      /\ Writes[1].value = "part"
  BY LogWrites, Distinct, WriteFields
<1>2. ASSUME n <= 2 PROVE After(n)[Marker] = disk[Marker] /\ ~MarkerAfter(n)
  <2>1. \A k \in 1..n : Writes[k].part # Marker
    BY <1>1, <1>2
  <2> QED BY <1>1, <2>1, NoWrite, AllParts DEF MarkerAfter
<1>3. ASSUME n = 4 PROVE After(n)[Marker] = "new"
  BY <1>1, <1>3, LastWrite, AllParts
<1>4. ASSUME n >= 3 PROVE MarkerAfter(n)
  BY <1>1, <1>4 DEF MarkerAfter
<1>5. ASSUME n >= 2 PROVE After(n)[Log] = "new"
  <2>1. 2 \in 1..n /\ \A k \in (2 + 1)..n : Writes[k].part # Log
    BY <1>1, <1>5
  <2> QED BY <1>1, <2>1, LastWrite, AllParts
<1>6. ASSUME NEW p \in Parts \ {Log, Marker} PROVE After(n)[p] = disk[p]
  <2>1. \A k \in 1..n : Writes[k].part # p
    BY <1>1
  <2> QED BY <1>1, <2>1, NoWrite
<1>7. LateAfter(n) = lateMarker
  <2>1. \A k \in 1..n : Writes[k].value # "none"
    BY <1>1
  <2> QED BY <2>1 DEF LateAfter, Write, Shape
<1> QED BY <1>2, <1>3, <1>4, <1>5, <1>6, <1>7

----------------------------------------------------------------------------
(* A handler that does not come to its end *)

\* A disk that carries the marker is whole and its marker known, or the marker is
\* in doubt.
Safe(d, late, known) ==
  d[Marker] # "none" /\ ~late =>
    /\ known /\ layout
    /\ \A p \in Parts \ {Marker, Mbr} : d[p] \in {"old", "new"}
    /\ d[Mbr] \in {"old", "new", "table"}

\* When the log is about to be written, everything else is.
LEMMA WholeButLog ==
  ASSUME InstallInv, running, step = "CREATING_LOG"
  PROVE  /\ \A p \in Parts \ {Log, Marker, Mbr} : disk[p] = "new"
         /\ disk[Mbr] \in {"new", "table"} /\ layout
<1>1. Written /\ layout
  BY DEF InstallInv, InMemory, PastPartitioning
<1>2. /\ disk[Mbr] \in {"new", "table"} /\ disk[Super] = "new" /\ disk[Core] = "new"
      /\ copy_offset = BootChunks
      /\ \A k \in 1..copy_offset : disk[Chunk(k)] = "new"
      /\ \A k \in 1..Configs : disk[Config(k)] = "new"
  BY <1>1 DEF Written, PastPartitioning, PastFormatting, PastCopying, PastConfig, PastBootloader
<1> QED BY <1>1, <1>2, AllParts

\* Before the last step a marker on the disk is in doubt, or the installation is
\* about to finish.
LEMMA EarlierMarker ==
  ASSUME InstallInv, running, step # "FINISHING", disk[Marker] # "none"
  PROVE  lateMarker
  BY DEF InstallInv, InMemory, Shape, Present

\* Interrupted after n writes, the disk is safe.
LEMMA InterruptedAfter ==
  ASSUME InstallInv, running, NEW n \in 0..Len(Writes)
  PROVE  Safe(After(n), LateAfter(n), MarkerAfter(n))
<1>1. Shape /\ step \in RunningSteps
  BY DEF InstallInv, InMemory
<1>2. CASE step \in RunningSteps \ {"FORMATTING", "CREATING_LOG", "FINISHING"}
  BY <1>1, <1>2, MarkerUntouched, EarlierMarker DEF Safe
<1>3. CASE step = "FINISHING"
  <2>1. n = 0
    BY <1>3, OtherWrites
  <2>2. \A p \in Parts : After(n)[p] = disk[p]
    BY <2>1, NoWrite
  <2>3. LateAfter(n) = lateMarker /\ MarkerAfter(n) = marker
    BY <1>1, <1>3, MarkerUntouched
  <2> QED BY <2>2, <2>3, AllParts DEF Safe, InstallInv, InMemory, MarkerLast, Present
<1>4. CASE step = "FORMATTING"
  <2>1. n < Len(Writes) \/ n = Len(Writes)
    BY <1>4, FormattingWrites
  <2> QED BY <1>1, <1>4, <2>1, MarkerFormatted, EarlierMarker DEF Safe
<1>5. CASE step = "CREATING_LOG"
  <2>1. n \in 0..4 /\ disk[Marker] = "none"
    BY <1>5, LogWrites, Zenon DEF InstallInv, Written, PastFormatting
  <2>2. CASE n <= 2
    BY <1>1, <1>5, <2>1, <2>2, MarkerCreated DEF Safe
  <2>3. CASE n >= 3
    <3>1. MarkerAfter(n) /\ After(n)[Log] = "new"
          /\ \A p \in Parts \ {Log, Marker} : After(n)[p] = disk[p]
      BY <1>1, <1>5, <2>1, <2>3, MarkerCreated
    <3> QED BY <1>5, <3>1, WholeButLog, AllParts, Distinct DEF Safe
  <2> QED BY <2>1, <2>2, <2>3
<1> QED BY <1>1, <1>2, <1>3, <1>4, <1>5

\* So it is after a write that ended half way.
LEMMA InterruptedTorn ==
  ASSUME InstallInv, running, NEW n \in 0..Len(Writes), CanTear(n)
  PROVE  Safe(Torn(n), LateAfter(n), MarkerAfter(n))
<1>1. Shape /\ step \in RunningSteps
  BY DEF InstallInv, InMemory
<1>2. n < Len(Writes) /\ Writes[n + 1].part \in Chunks \cup {Core}
  BY DEF CanTear
<1>3. Writes[n + 1].part # Marker
  BY <1>2, Distinct DEF Chunks
<1>4. Torn(n)[Marker] = After(n)[Marker]
  BY <1>3, AllParts, Zenon DEF Torn, After
<1>5. step # "FINISHING"
  BY <1>2, OtherWrites
<1>6. step # "FORMATTING"
  <2> SUFFICES ASSUME step = "FORMATTING" PROVE FALSE
    OBVIOUS
  <2>1. n = 0 \/ n \in 1..Configs \/ n = Configs + 1 \/ n = Configs + 2
    BY <1>2, FormattingWrites
  <2> QED BY <1>2, <2>1, FormattingWrites, Distinct, WriteFields DEF Chunks
<1>7. step # "CREATING_LOG"
  <2> SUFFICES ASSUME step = "CREATING_LOG" PROVE FALSE
    OBVIOUS
  <2>1. n = 0 \/ n = 1 \/ n = 2 \/ n = 3
    <3>1. Len(Writes) = 4
      BY LogWrites
    <3> QED BY <1>2, <3>1
  <2> QED BY <1>2, <2>1, LogWrites, Distinct, WriteFields DEF Chunks
<1> QED BY <1>1, <1>4, <1>5, <1>6, <1>7, MarkerUntouched, EarlierMarker DEF Safe

\* And after a write that arrived although it was reported failed.
LEMMA InterruptedLate ==
  ASSUME InstallInv, running, NEW n \in 0..Len(Writes), n < Len(Writes)
  PROVE  Safe(After(n + 1), LateAfter(n) \/ Writes[n + 1] = Write(Marker, "part"),
              MarkerAfter(n))
<1>1. Shape /\ step \in RunningSteps
  BY DEF InstallInv, InMemory
<1>2. n + 1 \in 0..Len(Writes) /\ step # "FINISHING"
  BY OtherWrites
<1>3. CASE step \in RunningSteps \ {"FORMATTING", "CREATING_LOG", "FINISHING"}
  BY <1>1, <1>2, <1>3, MarkerUntouched, EarlierMarker DEF Safe
<1>4. CASE step = "FORMATTING"
  <2>1. n + 1 < Len(Writes) \/ n + 1 = Len(Writes)
    BY <1>2
  <2> QED BY <1>1, <1>2, <1>4, <2>1, MarkerFormatted, EarlierMarker DEF Safe
<1>5. CASE step = "CREATING_LOG"
  <2>1. n \in 0..3 /\ n + 1 \in 0..4 /\ disk[Marker] = "none"
    <3>1. disk[Marker] = "none"
      BY <1>5 DEF InstallInv, Written, PastFormatting
    <3>2. Len(Writes) = 4
      BY <1>5, LogWrites
    <3> QED BY <1>2, <3>1, <3>2
  <2>2. CASE n <= 1
    BY <1>1, <1>5, <2>1, <2>2, MarkerCreated DEF Safe
  <2>3. CASE n = 2
    BY <1>5, <2>3, LogWrites DEF Safe
  <2>4. CASE n = 3
    <3>1. MarkerAfter(n) /\ After(n + 1)[Log] = "new"
          /\ \A p \in Parts \ {Log, Marker} : After(n + 1)[p] = disk[p]
      BY <1>1, <1>5, <2>1, <2>4, MarkerCreated
    <3> QED BY <1>5, <3>1, WholeButLog, AllParts, Distinct DEF Safe
  <2> QED BY <2>1, <2>2, <2>3, <2>4
<1> QED BY <1>1, <1>2, <1>3, <1>4, <1>5
----------------------------------------------------------------------------
(* What a handler that comes to its end has written *)

\* A step with a single write changes that part alone.
LEMMA OneWrite ==
  ASSUME NEW p \in Parts, NEW v, Len(Writes) = 1, Writes[1] = Write(p, v)
  PROVE  /\ After(Len(Writes))[p] = v
         /\ \A q \in Parts \ {p} : After(Len(Writes))[q] = disk[q]
<1>1. Writes[1].part = p /\ Writes[1].value = v
  BY WriteFields
<1>2. 1 \in 1..1 /\ 1 \in Nat /\ (\A k \in (1 + 1)..1 : Writes[k].part # p)
  OBVIOUS
<1>3. After(1)[p] = Writes[1].value
  BY <1>1, <1>2, LastWrite
<1>4. ASSUME NEW q \in Parts \ {p} PROVE After(1)[q] = disk[q]
  <2>1. \A k \in 1..1 : Writes[k].part # q
    BY <1>1
  <2> QED BY <1>2, <2>1, NoWrite
<1> QED BY <1>1, <1>3, <1>4

\* The formatting leaves the boot sectors alone.
LEMMA AfterFormatting ==
  ASSUME step = "FORMATTING"
  PROVE  /\ After(Len(Writes))[Super] = "new"
         /\ After(Len(Writes))[Mbr] = disk[Mbr]
         /\ \A k \in 1..BootChunks : After(Len(Writes))[Chunk(k)] = disk[Chunk(k)]
<1> DEFINE n == Configs + 3
<1>1. Len(Writes) = n /\ n \in Nat /\ 1 \in 1..n
  BY FormattingWrites
<1>2. /\ Writes[1].part = Super /\ Writes[1].value = "new"
      /\ \A k \in 2..n : Writes[k].part \in {Log, Marker} \cup {Config(j) : j \in 1..Configs}
  <2>1. ASSUME NEW k \in 2..n
        PROVE  Writes[k].part \in {Log, Marker} \cup {Config(j) : j \in 1..Configs}
    <3>1. k = Configs + 2 \/ k = Configs + 3 \/ (k - 1 \in 1..Configs /\ k = (k - 1) + 1)
      OBVIOUS
    <3>2. CASE k = Configs + 2 \/ k = Configs + 3
      BY <3>2, FormattingWrites, WriteFields
    <3>3. CASE k - 1 \in 1..Configs /\ k = (k - 1) + 1
      <4>1. Writes[k] = Write(Config(k - 1), "none")
        BY <3>3, FormattingWrites
      <4> QED BY <3>3, <4>1, WriteFields
    <3> QED BY <3>1, <3>2, <3>3
  <2> QED BY <2>1, FormattingWrites, WriteFields
<1> HIDE DEF n
<1>3. After(n)[Super] = "new"
  <2>1. \A k \in (1 + 1)..n : Writes[k].part # Super
    BY <1>2, Distinct
  <2> QED BY <1>1, <1>2, <2>1, LastWrite, AllParts
<1>4. ASSUME NEW p \in Parts, p = Mbr \/ \E k \in 1..BootChunks : p = Chunk(k)
      PROVE  After(n)[p] = disk[p]
  <2>1. \A k \in 1..n : Writes[k].part # p
    <3>1. \A k \in 1..n : k = 1 \/ k \in 2..n
      BY <1>1
    <3> QED BY <1>2, <1>4, <3>1, Distinct
  <2> QED BY <1>1, <2>1, NoWrite
<1> QED BY <1>1, <1>3, <1>4, AllParts

\* A copied chunk joins those before it.
LEMMA AfterCopying ==
  ASSUME Shape, step \in {"COPYING_KERNEL", "COPYING_INITRD"}, Written
  PROVE  /\ \A k \in 1..Copied : After(Len(Writes))[Chunk(k)] = "new"
         /\ \A p \in {Mbr, Super, Marker} : After(Len(Writes))[p] = disk[p]
<1>0. copy_offset \in 0..BootChunks /\ \A k \in 1..copy_offset : disk[Chunk(k)] = "new"
  BY DEF Shape, Written
<1>1. CASE Copied = copy_offset
  <2>1. Len(Writes) = 0
    BY <1>0, <1>1, CopyingWrites
  <2>2. \A p \in Parts : After(Len(Writes))[p] = disk[p]
    BY <2>1, NoWrite
  <2>3. \A k \in 1..copy_offset : Chunk(k) \in Parts
    BY <1>0, AllParts
  <2> QED BY <1>0, <1>1, <2>2, <2>3, AllParts
<1>2. CASE Copied # copy_offset
  <2>1. /\ Copied = copy_offset + 1 /\ Copied \in 1..BootChunks
        /\ Len(Writes) = 1 /\ Writes[1] = Write(Chunk(Copied), "new")
    BY <1>0, <1>2, CopyingWrites
  <2>2. /\ After(Len(Writes))[Chunk(Copied)] = "new"
        /\ \A q \in Parts \ {Chunk(Copied)} : After(Len(Writes))[q] = disk[q]
    BY <2>1, OneWrite, AllParts
  <2>3. ASSUME NEW k \in 1..Copied PROVE After(Len(Writes))[Chunk(k)] = "new"
    <3>1. CASE k = Copied
      BY <2>2, <3>1
    <3>2. CASE k # Copied
      <4>1. k \in 1..copy_offset /\ k \in 1..BootChunks
        BY <1>0, <2>1, <3>2
      <4>2. Chunk(k) \in Parts \ {Chunk(Copied)}
        BY <3>2, <4>1, AllParts, Distinct
      <4> QED BY <1>0, <2>2, <4>1, <4>2
    <3> QED BY <3>1, <3>2
  <2>4. \A p \in {Mbr, Super, Marker} : After(Len(Writes))[p] = disk[p]
    BY <2>2, AllParts, Distinct
  <2> QED BY <2>3, <2>4
<1> QED BY <1>1, <1>2

\* The configuration files are filled, the rest stays.
LEMMA AfterConfig ==
  ASSUME step = "WRITING_CONFIG"
  PROVE  /\ \A k \in 1..Configs : After(Len(Writes))[Config(k)] = "new"
         /\ \A p \in Parts : (\A k \in 1..Configs : p # Config(k)) =>
                             After(Len(Writes))[p] = disk[p]
<1> DEFINE n == 2 * Configs
<1>1. n \in Nat /\ Len(Writes) = n
  BY ConfigWrites
<1>2. ASSUME NEW k \in 1..Configs PROVE After(n)[Config(k)] = "new"
  <2>1. 2 * k \in 1..n
    OBVIOUS
  <2>2. Writes[2 * k].part = Config(k) /\ Writes[2 * k].value = "new"
    <3>1. Writes[2 * k] = Write(Config(k), "new")
      BY ConfigWrites
    <3> QED BY <3>1, WriteFields
  <2>3. ASSUME NEW m \in (2 * k + 1)..n PROVE Writes[m].part # Config(k)
    <3>1. PICK j \in 1..Configs : Writes[m].part = Config(j) /\ (m = 2 * j - 1 \/ m = 2 * j)
      BY ConfigWrites
    <3>2. j # k
      BY <3>1
    <3> QED BY <3>1, <3>2, Distinct
  <2> QED BY <1>1, <2>1, <2>2, <2>3, LastWrite, AllParts, Zenon
<1>3. ASSUME NEW p \in Parts, \A k \in 1..Configs : p # Config(k)
      PROVE  After(n)[p] = disk[p]
  <2>1. \A k \in 1..n : Writes[k].part # p
    BY <1>3, ConfigWrites
  <2> QED BY <1>1, <2>1, NoWrite
<1> QED BY <1>1, <1>2, <1>3
----------------------------------------------------------------------------
(* The invariant is preserved *)

\* A disk that is safe satisfies the invariant, with the memory that knows of it.
LEMMA SafeKeeps ==
  ASSUME Safe(disk', lateMarker', marker')
  PROVE  MarkerLast' /\ (on' /\ Present(Marker)' /\ ~lateMarker' => marker' /\ layout)
  BY DEF Safe, MarkerLast, Present

\* An empty disk and a kernel that has just started.
LEMMA InstallInvInit ==
  ASSUME Init
  PROVE  InstallInv
<1>1. Shape
  <2>1. disk = [p \in Parts |-> disk[p]]
    BY DEF Init
  <2>2. copy_offset \in 0..BootChunks
    BY DEF Init
  <2> QED BY <2>1, <2>2, Zenon DEF Init, Shape
<1>2. ~Present(Marker)
  BY AllParts DEF Init, Present
<1> QED BY <1>1, <1>2 DEF Init, InstallInv, MarkerLast, InMemory

\* installer_begin: no installation starts beside a marker that is not in doubt.
LEMMA BeginKeeps ==
  ASSUME InstallInv, Begin
  PROVE  InstallInv'
<1>1. Shape'
  BY DEF InstallInv, Begin, Shape
<1>2. disk'[Marker] = "none" <=> disk[Marker] = "none"
  <2>1. disk'[Marker] = IF disk[Marker] = "new" THEN "old" ELSE disk[Marker]
    BY AllParts DEF Begin
  <2> QED BY <2>1
<1>3. disk[Marker] # "none" => lateMarker
  BY DEF InstallInv, InMemory, Begin, Shape, Present
<1>4. disk'[Marker] # "none" => lateMarker'
  BY <1>2, <1>3 DEF Begin
<1>5. MarkerLast' /\ InMemory'
  BY <1>4 DEF MarkerLast, InMemory, Begin, Present, RunningSteps, PastPartitioning
<1>6. Written'
  BY DEF Begin, Written, PastPartitioning, PastFormatting, PastCopying, PastConfig, PastBootloader
<1> QED BY <1>1, <1>5, <1>6 DEF InstallInv, Begin

\* installer_begin that ends in fail_install.
LEMMA BeginRefusedKeeps ==
  ASSUME InstallInv, BeginRefused
  PROVE  InstallInv'
<1>1. /\ step' = "ERROR" /\ running' = FALSE
      /\ UNCHANGED <<on, copy_offset, disk, layout, marker, lateMarker>>
  BY DEF BeginRefused, Fail
<1> QED BY <1>1, Zenon DEF InstallInv, Shape, MarkerLast, InMemory, Present

\* installer_cancel.
LEMMA CancelKeeps ==
  ASSUME InstallInv, Cancel
  PROVE  InstallInv'
<1>1. /\ step' = "IDLE" /\ running' = FALSE
      /\ UNCHANGED <<on, copy_offset, disk, layout, marker, lateMarker>>
  BY DEF Cancel
<1> QED BY <1>1, Zenon DEF InstallInv, Shape, MarkerLast, InMemory, Present

\* The partition tool changes the MBR alone, and its table names the installed
\* root when the disk carries the marker.
LEMMA PartitionWriteKeeps ==
  ASSUME InstallInv, PartitionWrite
  PROVE  InstallInv'
<1>1. /\ on /\ disk' = [disk EXCEPT ![Mbr] = IF layout THEN "table" ELSE "none"]
      /\ UNCHANGED <<on, step, running, copy_offset, layout, marker, lateMarker>>
  BY DEF PartitionWrite, status
<1>2. Shape /\ Shape'
  BY <1>1 DEF InstallInv, Shape
<1>3. (layout => disk'[Mbr] = "table") /\ \A p \in Parts \ {Mbr} : disk'[p] = disk[p]
  BY <1>1, <1>2, AllParts DEF Shape
<1>4. disk'[Marker] = disk[Marker]
  BY <1>3, AllParts, Distinct
<1>5. MarkerLast'
  BY <1>1, <1>3, <1>4 DEF InstallInv, InMemory, MarkerLast, Present
<1>6. InMemory'
  BY <1>1, <1>4 DEF InstallInv, InMemory, Present
<1>7. ASSUME running PROVE Written'
  <2>1. Written /\ (step \in PastPartitioning => layout)
    BY <1>7 DEF InstallInv, InMemory
  <2>2. \A k \in 1..copy_offset : disk'[Chunk(k)] = disk[Chunk(k)]
    BY <1>2, <1>3, AllParts, Distinct DEF Shape
  <2>3. \A k \in 1..Configs : disk'[Config(k)] = disk[Config(k)]
    BY <1>3, AllParts, Distinct
  <2>4. disk'[Super] = disk[Super] /\ disk'[Core] = disk[Core] /\ disk'[Log] = disk[Log]
    BY <1>3, AllParts, Distinct
  <2> QED BY <1>1, <1>3, <1>4, <2>1, <2>2, <2>3, <2>4 DEF Written
<1> QED BY <1>1, <1>2, <1>5, <1>6, <1>7 DEF InstallInv

\* The next boot finds the marker when it finds the file system.
LEMMA BootKeeps ==
  ASSUME InstallInv, Boot
  PROVE  InstallInv'
<1>1. /\ ~on /\ on' = TRUE /\ layout' = Present(Mbr)
      /\ marker' = (Present(Mbr) /\ Present(Super) /\ Present(Marker))
      /\ disk' = [disk EXCEPT ![Super] = IF Present(Mbr) THEN "old" ELSE @]
      /\ UNCHANGED <<step, running, copy_offset, lateMarker>>
  BY DEF Boot, status
<1>2. Shape /\ Shape'
  BY <1>1 DEF InstallInv, Shape, Present
<1>3. /\ disk'[Super] \in {"old", disk[Super]}
      /\ \A p \in Parts \ {Super} : disk'[p] = disk[p]
  BY <1>1, <1>2, AllParts DEF Shape
<1>4. disk'[Marker] = disk[Marker]
  BY <1>3, AllParts, Distinct
<1>5. MarkerLast'
  BY <1>1, <1>3, <1>4 DEF InstallInv, MarkerLast, Present
<1>6. ~running /\ step # "COMPLETE"
  BY <1>1 DEF InstallInv, InMemory
<1>7. Present(Marker)' /\ ~lateMarker' => marker' /\ layout'
  <2> SUFFICES ASSUME Present(Marker)', ~lateMarker' PROVE marker' /\ layout'
    OBVIOUS
  <2>1. Present(Marker) /\ ~lateMarker
    BY <1>1, <1>4 DEF Present
  <2>2. disk[Mbr] # "none" /\ disk[Super] # "none"
    BY <2>1, AllParts, Distinct DEF InstallInv, MarkerLast
  <2> QED BY <1>1, <2>1, <2>2, Zenon DEF Present
<1>8. InMemory'
  BY <1>1, <1>6, <1>7 DEF InMemory
<1> QED BY <1>1, <1>2, <1>5, <1>6, <1>8 DEF InstallInv

\* The power goes at any write of the handler.
LEMMA PowerLossKeeps ==
  ASSUME InstallInv, NEW n \in Positions, NEW torn \in BOOLEAN, PowerLoss(n, torn)
  PROVE  InstallInv'
<1>1. /\ on' = FALSE /\ step' = "IDLE" /\ running' = FALSE
      /\ copy_offset' = 0 /\ layout' = FALSE /\ marker' = FALSE
  BY DEF PowerLoss
<1>2. Shape
  BY DEF InstallInv
<1>3. CASE running
  <2>1. /\ disk' = IF torn THEN Torn(n) ELSE After(n)
        /\ lateMarker' = LateAfter(n) /\ n <= Len(Writes) /\ (torn => CanTear(n))
    BY <1>3 DEF PowerLoss
  <2>2. n \in 0..Len(Writes)
    <3>1. step \in RunningSteps
      BY <1>3 DEF InstallInv, InMemory
    <3>2. Len(Writes) \in Nat
      BY <1>2, <3>1, WritesLength
    <3> QED BY <2>1, <3>2 DEF Positions
  <2>3. Safe(disk', lateMarker', MarkerAfter(n))
    BY <1>3, <2>1, <2>2, InterruptedAfter, InterruptedTorn
  <2>4. MarkerLast'
    BY <2>3 DEF Safe, MarkerLast, Present
  <2>5. Shape'
    <3>1. disk' = [p \in Parts |-> disk'[p]]
      BY <2>1, Zenon DEF After, Torn
    <3>2. copy_offset' \in 0..BootChunks
      BY <1>1
    <3>3. lateMarker' \in BOOLEAN
      BY <1>2, <2>1 DEF Shape, LateAfter
    <3> QED BY <1>1, <3>1, <3>2, <3>3, Zenon DEF Shape
  <2> QED BY <1>1, <2>4, <2>5 DEF InstallInv, InMemory
<1>4. CASE ~running
  <2>1. UNCHANGED <<disk, lateMarker>>
    BY <1>4 DEF PowerLoss
  <2>2. copy_offset' \in 0..BootChunks
    BY <1>1
  <2>3. Shape'
    BY <1>1, <1>2, <2>1, <2>2, Zenon DEF Shape
  <2>4. MarkerLast'
    BY <2>1 DEF InstallInv, MarkerLast, Present
  <2> QED BY <1>1, <2>3, <2>4 DEF InstallInv, InMemory
<1> QED BY <1>2, <1>3, <1>4 DEF Shape

\* A write of the handler fails, before or after it reached the disk.
LEMMA AdvanceFailsKeeps ==
  ASSUME InstallInv, NEW n \in Positions, NEW how \in {"lost", "torn", "late"}, AdvanceFails(n, how)
  PROVE  InstallInv'
<1>1. /\ on /\ running /\ n <= Len(Writes) /\ step' = "ERROR" /\ running' = FALSE
      /\ marker' = MarkerAfter(n) /\ UNCHANGED <<on, copy_offset, layout>>
      /\ (how # "lost" => n # Len(Writes)) /\ (how = "torn" => CanTear(n))
  BY DEF AdvanceFails, Fail
<1>2. /\ how = "lost" => disk' = After(n)
      /\ how = "torn" => disk' = Torn(n)
      /\ how = "late" => disk' = After(n + 1)
  BY DEF AdvanceFails
<1>3. lateMarker' = (LateAfter(n) \/ (how = "late" /\ Writes[n + 1] = Write(Marker, "part")))
  BY DEF AdvanceFails
<1>4. Shape /\ step \in RunningSteps
  BY <1>1 DEF InstallInv, InMemory
<1>5. Len(Writes) \in Nat
  BY <1>4, WritesLength
<1>6. n \in 0..Len(Writes) /\ (how = "late" => n < Len(Writes))
  BY <1>1, <1>5 DEF Positions
<1>7. Safe(disk', lateMarker', marker')
  <2>1. CASE how = "lost"
    BY <1>1, <1>2, <1>3, <1>6, <2>1, InterruptedAfter, Zenon DEF Safe
  <2>2. CASE how = "torn"
    BY <1>1, <1>2, <1>3, <1>6, <2>2, InterruptedTorn, Zenon DEF Safe
  <2>3. CASE how = "late"
    BY <1>1, <1>2, <1>3, <1>6, <2>3, InterruptedLate, Zenon DEF Safe
  <2> QED BY <2>1, <2>2, <2>3
<1>8. Shape'
  <2>1. disk' = [p \in Parts |-> disk'[p]]
    BY <1>2 DEF After, Torn
  <2>2. marker' \in BOOLEAN
    BY <1>1, <1>4, Zenon DEF MarkerAfter, Shape
  <2> QED BY <1>1, <1>3, <1>4, <2>1, <2>2, Zenon DEF Shape, LateAfter
<1> QED BY <1>1, <1>7, <1>8, SafeKeeps DEF InstallInv, InMemory

\* The step that installer_advance moves to.
LEMMA NextStep ==
  ASSUME Advanced
  PROVE  /\ step = "PREPARING" => step' = "CHECKING_DISK"
         /\ step = "CHECKING_DISK" => step' = "PARTITIONING"
         /\ step = "PARTITIONING" => step' = "FORMATTING"
         /\ step = "FORMATTING" => step' = "COPYING_KERNEL"
         /\ step = "COPYING_KERNEL" => step' \in {"COPYING_KERNEL", "COPYING_INITRD"}
         /\ step = "COPYING_INITRD" =>
              \/ step' = "COPYING_INITRD"
              \/ step' = "COPYING_USERSPACE" /\ AtLimit(Copied)
         /\ step = "COPYING_USERSPACE" => step' = "WRITING_CONFIG"
         /\ step = "WRITING_CONFIG" => step' = "INSTALLING_BOOTLOADER"
         /\ step = "INSTALLING_BOOTLOADER" => step' = "CREATING_LOG"
         /\ step = "CREATING_LOG" => step' = "FINISHING"
         /\ step = "FINISHING" => step' = "COMPLETE"
  BY Zenon DEF Advanced, MoveTo

\* installer_advance leaves behind what its next step relies on.
LEMMA AdvanceWrites ==
  ASSUME InstallInv, Advance, step # "FINISHING"
  PROVE  Written' /\ step' \in RunningSteps /\ (marker' <=> step' = "FINISHING")
<1> DEFINE L == Len(Writes)
<1>1. /\ running /\ disk' = After(L) /\ marker' = MarkerAfter(L) /\ lateMarker' = LateAfter(L)
      /\ copy_offset' = Copied
  BY DEF Advance
<1>2. Shape /\ Written /\ step \in RunningSteps /\ ~marker
  BY <1>1 DEF InstallInv, InMemory, Shape
<1>3. Advanced
  BY DEF Advance
<1>4. copy_offset \in 0..BootChunks
  BY <1>2 DEF Shape
<1>5. L \in Nat /\ L \in 0..L
  BY <1>2, WritesLength
<1>6. ~Copying => Copied = copy_offset
  BY DEF Copied
<1> HIDE DEF L
<1>7. CASE step \in {"PREPARING", "CHECKING_DISK"}
  <2>1. \A p \in Parts : disk'[p] = disk[p]
    BY <1>1, <1>7, OtherWrites, NoWrite DEF L
  <2>2. step' \in {"CHECKING_DISK", "PARTITIONING"}
    BY <1>3, <1>7, NextStep
  <2>3. marker' = marker
    BY <1>1, <1>7, Zenon DEF MarkerAfter
  <2>4. copy_offset' = copy_offset
    BY <1>1, <1>6, <1>7 DEF Copying
  <2>5. \A k \in 1..copy_offset : disk'[Chunk(k)] = "new"
    BY <1>2, <1>4, <2>1, AllParts DEF Written
  <2> QED BY <1>2, <2>2, <2>3, <2>4, <2>5 DEF Written, RunningSteps, PastPartitioning,
             PastFormatting, PastCopying, PastConfig, PastBootloader
<1>8. CASE step = "PARTITIONING"
  <2>1. disk'[Mbr] = "new" /\ \A p \in Parts \ {Mbr} : disk'[p] = disk[p]
    BY <1>1, <1>8, PartitioningWrites, OneWrite, AllParts DEF L
  <2>2. step' = "FORMATTING"
    BY <1>3, <1>8, NextStep
  <2>3. marker' = marker
    BY <1>1, <1>8 DEF MarkerAfter
  <2>4. copy_offset' = copy_offset
    BY <1>1, <1>6, <1>8 DEF Copying
  <2>5. \A k \in 1..copy_offset : disk'[Chunk(k)] = "new"
    BY <1>2, <1>4, <2>1, AllParts, Distinct DEF Written
  <2> QED BY <1>2, <2>1, <2>2, <2>3, <2>4, <2>5 DEF Written, RunningSteps, PastPartitioning,
             PastFormatting, PastCopying, PastConfig, PastBootloader
<1>9. CASE step = "FORMATTING"
  <2>1. /\ disk'[Super] = "new" /\ disk'[Mbr] = disk[Mbr]
        /\ \A k \in 1..BootChunks : disk'[Chunk(k)] = disk[Chunk(k)]
    BY <1>1, <1>9, AfterFormatting DEF L
  <2>2. disk'[Marker] = "none" /\ ~lateMarker' /\ ~marker'
    BY <1>1, <1>2, <1>5, <1>9, MarkerFormatted DEF L
  <2>3. step' = "COPYING_KERNEL"
    BY <1>3, <1>9, NextStep
  <2>4. copy_offset' = copy_offset
    BY <1>1, <1>6, <1>9 DEF Copying
  <2>5. disk'[Mbr] \in {"new", "table"}
    BY <1>2, <1>9, <2>1 DEF Written, PastPartitioning
  <2>6. \A k \in 1..copy_offset : disk'[Chunk(k)] = "new"
    BY <1>2, <1>4, <2>1 DEF Written
  <2> QED BY <2>1, <2>2, <2>3, <2>4, <2>5, <2>6 DEF Written, RunningSteps, PastPartitioning,
             PastFormatting, PastCopying, PastConfig, PastBootloader
<1>10. CASE step \in {"COPYING_KERNEL", "COPYING_INITRD"}
  <2>1. /\ \A k \in 1..Copied : disk'[Chunk(k)] = "new"
        /\ disk'[Mbr] = disk[Mbr] /\ disk'[Super] = disk[Super] /\ disk'[Marker] = disk[Marker]
    BY <1>1, <1>2, <1>10, AfterCopying DEF L
  <2>2. lateMarker' = lateMarker /\ marker' = marker
    BY <1>1, <1>2, <1>5, <1>10, MarkerUntouched DEF L
  <2>3. /\ step' \in {"COPYING_KERNEL", "COPYING_INITRD", "COPYING_USERSPACE"}
        /\ step' = "COPYING_USERSPACE" => Copied = BootChunks
    BY <1>3, <1>4, <1>10, NextStep, CopyingWrites
  <2>4. /\ disk[Mbr] \in {"new", "table"} /\ disk[Super] = "new" /\ ~lateMarker
        /\ disk[Marker] = "none"
    BY <1>2, <1>10 DEF Written, PastPartitioning, PastFormatting
  <2> QED BY <1>1, <1>2, <2>1, <2>2, <2>3, <2>4 DEF Written, RunningSteps, PastPartitioning,
             PastFormatting, PastCopying, PastConfig, PastBootloader
<1>11. CASE step \in {"COPYING_USERSPACE", "WRITING_CONFIG", "INSTALLING_BOOTLOADER"}
  <2>1. /\ disk[Mbr] \in {"new", "table"} /\ disk[Super] = "new" /\ ~lateMarker
        /\ disk[Marker] = "none" /\ copy_offset = BootChunks
        /\ \A k \in 1..BootChunks : disk[Chunk(k)] = "new"
    BY <1>2, <1>11 DEF Written, PastPartitioning, PastFormatting, PastCopying
  <2>2. lateMarker' = lateMarker /\ marker' = marker /\ disk'[Marker] = disk[Marker]
    BY <1>1, <1>2, <1>5, <1>11, MarkerUntouched DEF L, RunningSteps, PastPartitioning
  <2>3. copy_offset' = copy_offset
    BY <1>1, <1>6, <1>11 DEF Copying
  <2>4. /\ disk'[Mbr] = disk[Mbr] /\ disk'[Super] = disk[Super]
        /\ \A k \in 1..BootChunks : disk'[Chunk(k)] = disk[Chunk(k)]
        /\ step = "WRITING_CONFIG" => \A k \in 1..Configs : disk'[Config(k)] = "new"
        /\ step = "INSTALLING_BOOTLOADER" =>
             disk'[Core] = "new" /\ \A k \in 1..Configs : disk'[Config(k)] = disk[Config(k)]
    <3>1. CASE step = "COPYING_USERSPACE"
      <4>1. \A p \in Parts : disk'[p] = disk[p]
        BY <1>1, <3>1, OtherWrites, NoWrite DEF L
      <4> QED BY <3>1, <4>1, AllParts
    <3>2. CASE step = "WRITING_CONFIG"
      BY <1>1, <3>2, AfterConfig, AllParts, Distinct DEF L
    <3>3. CASE step = "INSTALLING_BOOTLOADER"
      <4>1. disk'[Core] = "new" /\ \A p \in Parts \ {Core} : disk'[p] = disk[p]
        BY <1>1, <3>3, BootloaderWrites, OneWrite, AllParts DEF L
      <4> QED BY <3>3, <4>1, AllParts, Distinct
    <3> QED BY <1>11, <3>1, <3>2, <3>3
  <2>5. /\ step = "COPYING_USERSPACE" => step' = "WRITING_CONFIG"
        /\ step = "WRITING_CONFIG" => step' = "INSTALLING_BOOTLOADER"
        /\ step = "INSTALLING_BOOTLOADER" => step' = "CREATING_LOG"
    BY <1>3, NextStep
  <2>6. step = "INSTALLING_BOOTLOADER" => \A k \in 1..Configs : disk[Config(k)] = "new"
    BY <1>2 DEF Written, PastConfig
  <2> QED BY <1>2, <1>11, <2>1, <2>2, <2>3, <2>4, <2>5, <2>6 DEF Written, RunningSteps,
             PastPartitioning, PastFormatting, PastCopying, PastConfig, PastBootloader
<1>12. CASE step = "CREATING_LOG"
  <2>1. /\ disk[Mbr] \in {"new", "table"} /\ disk[Super] = "new" /\ ~lateMarker
        /\ copy_offset = BootChunks /\ disk[Core] = "new"
        /\ \A k \in 1..BootChunks : disk[Chunk(k)] = "new"
        /\ \A k \in 1..Configs : disk[Config(k)] = "new"
    BY <1>2, <1>12 DEF Written, PastPartitioning, PastFormatting, PastCopying, PastConfig,
       PastBootloader
  <2>2. L = 4 /\ 4 \in 0..4 /\ 4 <= 4
    BY <1>12, LogWrites DEF L
  <2>3. /\ disk'[Marker] = "new" /\ marker' /\ disk'[Log] = "new" /\ lateMarker' = lateMarker
        /\ \A p \in Parts \ {Log, Marker} : disk'[p] = disk[p]
    BY <1>1, <1>2, <1>12, <2>2, MarkerCreated
  <2>4. /\ disk'[Mbr] = disk[Mbr] /\ disk'[Super] = disk[Super] /\ disk'[Core] = disk[Core]
        /\ \A k \in 1..BootChunks : disk'[Chunk(k)] = disk[Chunk(k)]
        /\ \A k \in 1..Configs : disk'[Config(k)] = disk[Config(k)]
    BY <2>3, AllParts, Distinct
  <2>5. step' = "FINISHING" /\ copy_offset' = copy_offset
    BY <1>1, <1>3, <1>6, <1>12, NextStep DEF Copying
  <2> QED BY <2>1, <2>3, <2>4, <2>5 DEF Written, RunningSteps, PastPartitioning,
             PastFormatting, PastCopying, PastConfig, PastBootloader
<1> QED BY <1>2, <1>7, <1>8, <1>9, <1>10, <1>11, <1>12 DEF RunningSteps, PastPartitioning

\* verify_install, at the last step, finds the installation whole.
LEMMA CompletedIsWhole ==
  ASSUME InstallInv, Advance, step = "FINISHING"
  PROVE  step' = "COMPLETE" /\ \A p \in Parts : disk'[p] = "new"
<1>1. running /\ disk' = After(0) /\ disk[Mbr] \in {"old", "new"} /\ Advanced
  BY OtherWrites DEF Advance, Verified
<1>2. Written
  BY <1>1 DEF InstallInv
<1>3. /\ disk[Mbr] = "new" /\ disk[Super] = "new" /\ disk[Core] = "new"
      /\ disk[Log] = "new" /\ disk[Marker] = "new"
      /\ \A k \in 1..BootChunks : disk[Chunk(k)] = "new"
      /\ \A k \in 1..Configs : disk[Config(k)] = "new"
  BY <1>1, <1>2 DEF Written, PastPartitioning, PastFormatting, PastCopying, PastConfig,
     PastBootloader
<1>4. \A p \in Parts : disk'[p] = disk[p]
  BY <1>1, NoWrite
<1> QED BY <1>1, <1>3, <1>4, AllParts, NextStep

\* installer_advance comes to the end of its step.
LEMMA AdvanceKeeps ==
  ASSUME InstallInv, Advance
  PROVE  InstallInv'
<1> DEFINE L == Len(Writes)
<1>1. /\ on /\ running /\ disk' = After(L) /\ marker' = MarkerAfter(L)
      /\ lateMarker' = LateAfter(L) /\ copy_offset' = Copied /\ on' = on
      /\ running' = (step # "FINISHING") /\ layout' = (layout \/ step = "PARTITIONING")
  BY DEF Advance
<1>2. Shape /\ step \in RunningSteps
  BY <1>1 DEF InstallInv, InMemory
<1>3. L \in 0..L
  BY <1>2, WritesLength
<1>4. Safe(disk', lateMarker', marker')
  BY <1>1, <1>3, InterruptedAfter
<1> HIDE DEF L
<1>5. Shape'
  <2>1. disk' = [p \in Parts |-> disk'[p]]
    BY <1>1 DEF After
  <2>2. /\ marker' \in BOOLEAN /\ lateMarker' \in BOOLEAN /\ layout' \in BOOLEAN
        /\ on' \in BOOLEAN /\ running' \in BOOLEAN
    BY <1>1, <1>2, Zenon DEF MarkerAfter, LateAfter, Shape
  <2>3. copy_offset' \in 0..BootChunks
    BY <1>1, <1>2 DEF Copied, Limit, Shape
  <2> QED BY <2>1, <2>2, <2>3 DEF Shape
<1>6. MarkerLast' /\ (on' /\ Present(Marker)' /\ ~lateMarker' => marker' /\ layout')
  BY <1>1, <1>4, SafeKeeps
<1>7. CASE step = "FINISHING"
  <2>1. step' = "COMPLETE" /\ \A p \in Parts : disk'[p] = "new"
    BY <1>7, CompletedIsWhole
  <2> QED BY <1>1, <1>5, <1>6, <1>7, <2>1, Zenon DEF InstallInv, InMemory
<1>8. CASE step # "FINISHING"
  <2>1. Written' /\ step' \in RunningSteps /\ (marker' <=> step' = "FINISHING")
    BY <1>8, AdvanceWrites
  <2>2. step' # "COMPLETE"
    BY <2>1 DEF RunningSteps, PastPartitioning
  <2>3. step' \in PastPartitioning => layout'
    <3>1. step \in PastPartitioning => layout
      BY <1>1 DEF InstallInv, InMemory
    <3>2. Advanced
      BY DEF Advance
    <3> QED BY <1>1, <1>2, <3>1, <3>2, NextStep DEF RunningSteps, PastPartitioning
  <2> QED BY <1>1, <1>5, <1>6, <1>8, <2>1, <2>2, <2>3 DEF InstallInv, InMemory
<1> QED BY <1>7, <1>8

\* Every step preserves the invariant.
LEMMA InstallInvNext ==
  ASSUME InstallInv, [Next]_vars
  PROVE  InstallInv'
<1>1. CASE UNCHANGED vars
  BY <1>1 DEF vars, status, InstallInv, Shape, MarkerLast, InMemory, Written, Present
<1>2. CASE Next
  BY <1>2, BeginKeeps, BeginRefusedKeeps, CancelKeeps, AdvanceKeeps, PartitionWriteKeeps,
     BootKeeps, PowerLossKeeps, AdvanceFailsKeeps DEF Next
<1> QED BY <1>1, <1>2

\* The invariant of the installation.
LEMMA InstallInvAlways == Spec => []InstallInv
  BY InstallInvInit, InstallInvNext, PTL DEF Spec

\* The completion marker is written last: whatever fails, is retried or loses power,
\* a disk that carries the marker carries the boot image, the core, the superblock
\* and every file whole, except beside a marker whose creation was reported failed;
\* its sector 0 is the installer's or a table of the partition tool that names the
\* installed root.
THEOREM InstallMarkerLast == Spec => []MarkerLast
<1>1. InstallInv => MarkerLast
  BY DEF InstallInv
<1> QED BY <1>1, InstallInvAlways, PTL

\* Only installer_advance, at its last step, completes an installation.
LEMMA OnlyFinishingCompletes ==
  ASSUME InstallInv, Next, step # "COMPLETE", step' = "COMPLETE"
  PROVE  Advance /\ step = "FINISHING"
<1>1. ~Begin /\ ~BeginRefused /\ ~Cancel /\ ~PartitionWrite /\ ~Boot
  BY DEF Begin, BeginRefused, Fail, Cancel, PartitionWrite, Boot, status
<1>2. ~ \E n \in Positions, torn \in BOOLEAN : PowerLoss(n, torn)
  BY DEF PowerLoss
<1>3. ~ \E n \in Positions, how \in {"lost", "torn", "late"} : AdvanceFails(n, how)
  BY DEF AdvanceFails, Fail
<1>4. Advance
  BY <1>1, <1>2, <1>3, Zenon DEF Next
<1>5. step \in RunningSteps /\ Advanced
  BY <1>4 DEF Advance, InstallInv, InMemory
<1> QED BY <1>4, <1>5, NextStep DEF RunningSteps, PastPartitioning

\* An installation that verify_install lets complete wrote every part itself, and
\* all of it is on the disk at that moment.
THEOREM InstallCompleteIsWhole == Spec => CompleteIsWhole
<1>1. InstallInv /\ [Next]_vars =>
        [step # "COMPLETE" /\ step' = "COMPLETE" => \A p \in Parts : disk'[p] = "new"]_vars
  BY OnlyFinishingCompletes, CompletedIsWhole
<1> QED BY <1>1, InstallInvAlways, PTL DEF Spec, CompleteIsWhole
=============================================================================
