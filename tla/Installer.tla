----------------------------- MODULE Installer -----------------------------
(***************************************************************************)
(* The installation transaction (src/kernel/installer.c): begin, advance   *)
(* and cancel, called by either front end in any order, one handler at a   *)
(* time.  Within a handler the power may go between two writes, and a      *)
(* write may be reported failed before or after it reached the disk.  The  *)
(* partition tool may write its own table over sector 0 at any time, during *)
(* an installation and after it.                                           *)
(*                                                                         *)
(* The disk is the set of parts an installation consists of.  A part whole *)
(* since the last begin is "new", one from before is "old"; a file created *)
(* but not filled and a run of sectors half written are "part".  The only  *)
(* writable hardware disk is ata0, which is also where the next boot looks *)
(* for a root file system.                                                 *)
(***************************************************************************)
EXTENDS Integers, Sequences, FiniteSetsExt

CONSTANTS
    KernelChunks,  \* chunks of the boot image up to INSTALL_KERNEL_PHASE_END
    BootChunks,    \* chunks of the whole boot image
    Configs        \* configuration files written

ASSUME InstallerAssumption ==
    /\ KernelChunks \in Nat \ {0} /\ BootChunks \in Nat /\ KernelChunks < BootChunks
    /\ Configs \in Nat \ {0}

VARIABLES
    on,           \* the machine runs
    step,         \* g_status.step
    running,      \* g_status.running
    error,        \* g_status.error
    progress,     \* g_status.progress_percent
    copy_offset,  \* g_copy_offset, in chunks
    disk,         \* the parts on the disk
    layout,       \* the partition table in memory names the installed root
    marker,       \* the root file system in memory has etc/aos-install.conf
    lateMarker    \* the marker's creation was reported failed but reached the disk

status == <<step, running, error, progress>>
vars == <<on, status, copy_offset, disk, layout, marker, lateMarker>>

Chunk(k) == <<"boot", k>>
Config(k) == <<"config", k>>
Mbr == <<"mbr", 0>>
Super == <<"super", 0>>
Core == <<"core", 0>>
Log == <<"log", 0>>
Marker == <<"marker", 0>>

Chunks == {Chunk(k) : k \in 1..BootChunks}
\* In the order of their slots in the file system's table.
Files == [k \in 1..Configs |-> Config(k)] \o <<Log, Marker>>
Parts == Chunks \cup {Files[k] : k \in 1..Len(Files)} \cup {Mbr, Super, Core}
\* For sector 0: it names the partition of the installed root.
Present(p) == disk[p] # "none"

Init ==
    /\ on = TRUE /\ step = "IDLE" /\ running = FALSE /\ error = "none"
    /\ progress = 0 /\ copy_offset = 0
    /\ disk = [p \in Parts |-> "none"]
    /\ layout = FALSE /\ marker = FALSE /\ lateMarker = FALSE

----------------------------------------------------------------------------
(***************************************************************************)
(* installer_begin and installer_cancel.  A begin that finds no complete   *)
(* request, payload or disk, or a root file system with the marker, ends   *)
(* in fail_install; while an installation runs it does nothing.            *)
(***************************************************************************)
Fail(e) ==
    step' = "ERROR" /\ running' = FALSE /\ error' = e /\ UNCHANGED progress

Begin ==
    /\ on /\ ~running /\ ~marker
    /\ step' = "PREPARING" /\ running' = TRUE /\ error' = "none" /\ progress' = 2
    /\ copy_offset' = 0
    /\ disk' = [p \in Parts |-> IF disk[p] = "new" THEN "old" ELSE disk[p]]
    /\ UNCHANGED <<on, layout, marker, lateMarker>>

BeginRefused ==
    /\ on /\ ~running
    /\ Fail(IF marker THEN "not_live" ELSE "refused")
    /\ UNCHANGED <<on, copy_offset, disk, layout, marker, lateMarker>>

CanCancel == step \in {"PREPARING", "CHECKING_DISK"}
Cancel ==
    /\ on /\ running /\ CanCancel
    /\ step' = "IDLE" /\ running' = FALSE /\ error' = "cancelled" /\ progress' = 0
    /\ UNCHANGED <<on, copy_offset, disk, layout, marker, lateMarker>>

----------------------------------------------------------------------------
(***************************************************************************)
(* The writes of each step of installer_advance, in order.                 *)
(***************************************************************************)
Write(p, value) == [part |-> p, value |-> value]
\* write_file: the entry, then the contents.
WriteFile(p) == <<Write(p, "part"), Write(p, "new")>>

\* write_partition_mbr
Partitioning == <<Write(Mbr, "new")>>
\* aosfs_format_role: the superblock, then every slot of the table.
Formatting ==
    <<Write(Super, "new")>> \o [k \in 1..Len(Files) |-> Write(Files[k], "none")]
WritingConfig ==
    [k \in 1..(2 * Configs) |-> WriteFile(Config((k + 1) \div 2))[2 - (k % 2)]]
MarkerBeforeLog == WriteFile(Marker) \o WriteFile(Log)
CreatingLog == WriteFile(Log) \o WriteFile(Marker)

\* copy_boot_chunk
Limit == IF step = "COPYING_KERNEL" THEN KernelChunks ELSE BootChunks
Copying == step \in {"COPYING_KERNEL", "COPYING_INITRD"}
PastLimit(offset) == offset > Limit
AtLimit(offset) == offset >= Limit
Copied == IF Copying /\ copy_offset < Limit THEN copy_offset + 1 ELSE copy_offset

Writes ==
    CASE step = "PARTITIONING" -> Partitioning
      [] step = "FORMATTING" -> Formatting
      [] Copying /\ Copied # copy_offset -> <<Write(Chunk(Copied), "new")>>
      [] step = "WRITING_CONFIG" -> WritingConfig
      [] step = "INSTALLING_BOOTLOADER" -> <<Write(Core, "new")>>
      [] step = "CREATING_LOG" -> CreatingLog
      [] OTHER -> <<>>

\* The disk after the first n writes.
After(n) ==
    [p \in Parts |->
        LET hits == {k \in 1..n : Writes[k].part = p}
        IN  IF hits = {} THEN disk[p] ELSE Writes[Max(hits)].value]

\* Writes of several sectors may end half way.
CanTear(n) == n < Len(Writes) /\ Writes[n + 1].part \in Chunks \cup {Core}
Torn(n) == [After(n) EXCEPT ![Writes[n + 1].part] = "part"]

\* The marker in memory after n acknowledged writes: aosfs_format_role empties
\* the root file system in memory before it writes anything.
MarkerAfter(n) ==
    CASE step = "FORMATTING" -> FALSE
      [] step = "CREATING_LOG" -> \E k \in 1..n : Writes[k].part = Marker
      [] OTHER -> marker
LateAfter(n) == lateMarker /\ ~ \E k \in 1..n : Writes[k] = Write(Marker, "none")

PercentOf(done, total, span) == (done * span) \div total
OffsetInPhase == Copied - KernelChunks
MoveTo(s, percent) == step' = s /\ progress' = percent
Advanced ==
    CASE step = "PREPARING" -> MoveTo("CHECKING_DISK", 5)
      [] step = "CHECKING_DISK" -> MoveTo("PARTITIONING", 8)
      [] step = "PARTITIONING" -> MoveTo("FORMATTING", 12)
      [] step = "FORMATTING" -> MoveTo("COPYING_KERNEL", 18)
      [] step = "COPYING_KERNEL" ->
            IF AtLimit(Copied) THEN MoveTo("COPYING_INITRD", 35)
            ELSE MoveTo(step, 18 + PercentOf(Copied, KernelChunks, 17))
      [] step = "COPYING_INITRD" ->
            IF AtLimit(Copied) THEN MoveTo("COPYING_USERSPACE", 70)
            ELSE MoveTo(step, 35 + PercentOf(OffsetInPhase, BootChunks - KernelChunks, 35))
      [] step = "COPYING_USERSPACE" -> MoveTo("WRITING_CONFIG", 74)
      [] step = "WRITING_CONFIG" -> MoveTo("INSTALLING_BOOTLOADER", 82)
      [] step = "INSTALLING_BOOTLOADER" -> MoveTo("CREATING_LOG", 91)
      [] step = "CREATING_LOG" -> MoveTo("FINISHING", 96)
      [] step = "FINISHING" -> MoveTo("COMPLETE", 100)

\* verify_install
VerifiedWithoutMbr == Present(Chunk(1)) /\ Present(Super) /\ marker
Verified == disk[Mbr] \in {"old", "new"} /\ Present(Chunk(1)) /\ Present(Super) /\ marker

Advance ==
    /\ on /\ running /\ (step = "FINISHING" => Verified)
    /\ Advanced
    /\ running' = (step # "FINISHING") /\ error' = "none"
    /\ copy_offset' = Copied
    /\ disk' = After(Len(Writes)) /\ marker' = MarkerAfter(Len(Writes))
    /\ lateMarker' = LateAfter(Len(Writes))
    /\ layout' = (layout \/ step = "PARTITIONING")
    /\ UNCHANGED on

\* A check or a read fails, or the write after the first n, which then did not
\* reach the disk, reached it in part or reached it whole.
ChecksOnly == {"PREPARING", "CHECKING_DISK", "FINISHING"}
AdvanceFails(n, how) ==
    /\ on /\ running /\ n <= Len(Writes)
    /\ IF n = Len(Writes) THEN how = "lost" /\ step \in ChecksOnly
       ELSE how = "torn" => CanTear(n)
    /\ Fail(CASE step = "PREPARING" -> "payload" [] step = "FINISHING" -> "verify" [] OTHER -> "io")
    /\ disk' = CASE how = "lost" -> After(n) [] how = "torn" -> Torn(n) [] how = "late" -> After(n + 1)
    /\ marker' = MarkerAfter(n)
    /\ lateMarker' = (LateAfter(n) \/ (how = "late" /\ Writes[n + 1] = Write(Marker, "part")))
    /\ UNCHANGED <<on, copy_offset, layout>>

----------------------------------------------------------------------------
\* sys_partition_write, during an installation or not: the tool's header, with
\* the partitions the kernel has in memory, replaces the boot code and the
\* entries of the MBR.  (A new layout, sys_partition_layout, which gives up what
\* is installed, is not modelled.)
PartitionWrite ==
    /\ on
    /\ disk' = [disk EXCEPT ![Mbr] = IF layout THEN "table" ELSE "none"]
    /\ UNCHANGED <<on, status, copy_offset, layout, marker, lateMarker>>

\* The power goes, in a handler after n of its writes or between two calls.
PowerLoss(n, torn) ==
    /\ on /\ n <= (IF running THEN Len(Writes) ELSE 0)
    /\ torn => running /\ CanTear(n)
    /\ on' = FALSE
    /\ disk' = IF torn THEN Torn(n) ELSE IF running THEN After(n) ELSE disk
    /\ step' = "IDLE" /\ running' = FALSE /\ error' = "none" /\ progress' = 0
    /\ copy_offset' = 0 /\ layout' = FALSE /\ marker' = FALSE
    /\ lateMarker' = IF running THEN LateAfter(n) ELSE lateMarker

\* The live medium boots again, without disk errors: the root file system is
\* the one on the partition that sector 0 names, when it names one, formatted
\* now if it has no superblock.
Boot ==
    /\ ~on /\ on' = TRUE
    /\ layout' = Present(Mbr)
    /\ marker' = (Present(Mbr) /\ Present(Super) /\ Present(Marker))
    /\ disk' = [disk EXCEPT ![Super] = IF Present(Mbr) THEN "old" ELSE @]
    /\ UNCHANGED <<status, copy_offset, lateMarker>>

Positions == 0..(2 * Configs + 4)
Next ==
    \/ Begin \/ BeginRefused \/ Cancel \/ Advance \/ PartitionWrite \/ Boot
    \/ \E n \in Positions :
          \/ \E torn \in BOOLEAN : PowerLoss(n, torn)
          \/ \E how \in {"lost", "torn", "late"} : AdvanceFails(n, how)

Spec == Init /\ [][Next]_vars
\* A front end that sees the installation running calls advance again; the call
\* does its step, or finds the installation wanting.
FairSpec ==
    Spec /\ WF_vars(Advance \/ (step = "FINISHING" /\ ~Verified /\ AdvanceFails(0, "lost")))

----------------------------------------------------------------------------
(***************************************************************************)
(* Properties.                                                             *)
(***************************************************************************)
Steps ==
    {"IDLE", "PREPARING", "CHECKING_DISK", "PARTITIONING", "FORMATTING", "COPYING_KERNEL",
     "COPYING_INITRD", "COPYING_USERSPACE", "WRITING_CONFIG", "INSTALLING_BOOTLOADER",
     "CREATING_LOG", "FINISHING", "COMPLETE", "ERROR"}

\* The type of the state; the percentage shown stays within 0..100.
TypeOK ==
    /\ on \in BOOLEAN /\ running \in BOOLEAN /\ layout \in BOOLEAN /\ marker \in BOOLEAN
    /\ lateMarker \in BOOLEAN /\ step \in Steps /\ progress \in 0..100
    /\ copy_offset \in 0..BootChunks
    /\ error \in {"none", "not_live", "refused", "cancelled", "payload", "verify", "io"}
    /\ disk \in [Parts -> {"none", "part", "old", "new", "table"}]

\* "The completion marker is written last" (Arootinstall/docs): a disk that
\* carries the marker file carries the boot image, the core, the superblock and
\* every other file whole, after any failures, retries and power losses.  Two
\* exceptions: a marker whose creation was reported failed, since the next
\* attempt starts over beside it; and sector 0, which the partition tool may
\* have taken, while the files were copied or after completion, so that the
\* marker stands on a disk that does not boot.
MarkerLast ==
    Present(Marker) /\ ~lateMarker =>
        /\ \A p \in Parts \ {Marker, Mbr} : disk[p] \in {"old", "new"}
        /\ disk[Mbr] \in {"old", "new", "table"}

\* An installation that verify_install lets complete wrote every part itself
\* and all of it is on the disk at that moment: nothing of an earlier attempt
\* that failed half way, and no table of the partition tool, is among the parts.
CompleteIsWhole ==
    [][step # "COMPLETE" /\ step' = "COMPLETE" => \A p \in Parts : disk'[p] = "new"]_vars

\* A front end's loop ends: a running installation completes, fails, is
\* cancelled or loses power.
InstallEnds == running ~> ~running
============================================================================
