------------------------------- MODULE Aosfs -------------------------------
(***************************************************************************)
(* A block-backed aosfs instance (src/kernel/aosfs.c): the entry table in  *)
(* memory and on the device, and file data in extents handed out from the  *)
(* end of the used space.  Every call writes the device sector by sector.  *)
(* Between two writes the power may go; a write may be reported failed     *)
(* without reaching the device ("failed") or after reaching it ("late":    *)
(* the wait for the cache flush times out, src/kernel/ata.c).              *)
(*                                                                         *)
(* One position of an extent is one sector; offsets count from             *)
(* AOSFS_DATA_OFFSET.  Capacities are multiples of the alignment, so       *)
(* aligning g_next_data_offset changes nothing and is left out.            *)
(***************************************************************************)
EXTENDS Integers, Sequences, FiniteSets, FiniteSetsExt

CONSTANTS
    Paths,      \* paths used, as sequences of names
    MaxEntries, \* g_entry_limit
    Storage,    \* active_storage_size() behind the data offset
    MinExtent,  \* AOSFS_MIN_EXTENT_CAPACITY
    MaxFile,    \* AOSFS_MAX_FILE_SIZE
    MaxFaults,  \* bound: writes reported failed
    MaxInode    \* bound: inodes given out

ASSUME AosfsAssumption ==
    /\ Paths \subseteq Seq(STRING) \ {<<>>}
    /\ MaxEntries \in Nat \ {0} /\ Storage \in Nat
    /\ MinExtent \in Nat \ {0} /\ MaxFile \in Nat /\ MinExtent <= MaxFile
    /\ MaxFaults \in Nat /\ MaxInode \in Nat

VARIABLES
    table,            \* the entry table on the device
    data,             \* the data sectors on the device
    mounted,          \* the instance is mounted
    entries,          \* g_entries
    next_inode,       \* g_next_inode
    next_data_offset, \* g_next_data_offset
    op,               \* the call in progress
    faults,           \* writes reported failed
    straddled         \* an extent write was reported failed after it reached the device

disk == <<table, data>>
vars == <<disk, mounted, entries, next_inode, next_data_offset, op, faults, straddled>>

Slots == 1..MaxEntries
Sectors == 0..(Storage - 1)
Bytes == 0..1
Free == [path |-> <<>>, kind |-> "none", size |-> 0, inode |-> 0, at |-> 0, cap |-> 0]
InUse(e) == e.path # <<>>
Idle ==
    [stage |-> "idle", slot |-> 1, add |-> FALSE, link |-> "no", pos |-> 0,
     end |-> 0, val |-> 0, cap |-> 0, copied |-> 0, old |-> Free]

\* aosfs_format_role has zeroed the table; the data area is as it was.
Init ==
    /\ table = [i \in Slots |-> Free] /\ data = [s \in Sectors |-> 0]
    /\ mounted = TRUE /\ entries = table
    /\ next_inode = 1 /\ next_data_offset = 0
    /\ op = Idle /\ faults = 0 /\ straddled = FALSE

----------------------------------------------------------------------------
(***************************************************************************)
(* Paths.  The directories the code knows by name and the refusals for     *)
(* names of the initrd concern other paths.                                *)
(***************************************************************************)
Live(t) == {i \in Slots : InUse(t[i])}
Found(p) == {i \in Live(entries) : entries[i].path = p}
Entry(p) == Min(Found(p))   \* find_entry: the first match
Kind(p) == IF Found(p) = {} THEN "none" ELSE entries[Entry(p)].kind

Parent(p) == SubSeq(p, 1, Len(p) - 1)
DirExists(p) == p = <<>> \/ Kind(p) = "dir"
HasChildren(p) == \E i \in Live(entries) : Parent(entries[i].path) = p

FreeSlots == Slots \ Live(entries)
CanAdd(p) ==
    /\ mounted /\ op = Idle /\ Kind(p) = "none" /\ DirExists(Parent(p))
    /\ FreeSlots # {} /\ next_inode <= MaxInode

(***************************************************************************)
(* reserve_entry_extent for the call o, which needs o.end sectors: enough  *)
(* already, the last extent grown in place, or a copy to a new extent.     *)
(***************************************************************************)
GrownToMinimum(cap, required) == Max({cap, MinExtent})
Grown(cap, required) ==
    LET least == Max({cap, MinExtent})
        fits  == {c \in {least * 2^k : k \in 0..MaxFile} : c >= required}
    IN  Min({Min(fits), MaxFile})

IsLast(e) == e.cap # 0 /\ e.at + e.cap = next_data_offset

NeverCopies(e) == TRUE
NothingToCopy(e) == IsLast(e) \/ e.size = 0
Fits(end) == end <= Storage

\* The call returns -1; a symlink that was being made is unlinked first.
Refuse(o) ==
    IF o.link = "no"
    THEN op' = Idle /\ UNCHANGED entries
    ELSE /\ entries' = [entries EXCEPT ![o.slot] = Free]
         /\ op' = [Idle EXCEPT !.stage = "entry", !.slot = o.slot]

TakeExtent(o, at, cap) ==
    /\ entries' = [entries EXCEPT ![o.slot].at = at, ![o.slot].cap = cap]
    /\ op' = [o EXCEPT !.stage = "extent", !.old = entries[o.slot]]

Reserve(o) ==
    LET e   == entries[o.slot]
        cap == Grown(e.cap, o.end)
        at  == IF IsLast(e) THEN e.at ELSE next_data_offset
        end == at + cap
    IN  \/ /\ o.end <= e.cap
           /\ op' = [o EXCEPT !.stage = "data"]
           /\ UNCHANGED entries
        \/ o.end > e.cap /\ ~Fits(end) /\ Refuse(o)
        \/ /\ o.end > e.cap /\ Fits(end)
           /\ IF NothingToCopy(e)
              THEN TakeExtent(o, at, cap)
              ELSE op' = [o EXCEPT !.stage = "copy", !.cap = cap] /\ UNCHANGED entries

----------------------------------------------------------------------------
(***************************************************************************)
(* The calls: what each does up to its first device write.                 *)
(***************************************************************************)
Sync(i) == op' = [Idle EXCEPT !.stage = "entry", !.slot = i]

\* aosfs_create_path_mode, aosfs_mkdir_path_mode and, for link, aosfs_symlink_path.
AddEntry(p, kind, link) ==
    LET i == Min(FreeSlots)
    IN  /\ CanAdd(p)
        /\ entries' = [entries EXCEPT ![i] =
                          [Free EXCEPT !.path = p, !.kind = kind, !.inode = next_inode]]
        /\ next_inode' = next_inode + 1
        /\ op' = [Idle EXCEPT !.stage = "entry", !.slot = i, !.add = TRUE, !.link = link]
        /\ UNCHANGED <<disk, mounted, next_data_offset, faults, straddled>>

Create(p) == AddEntry(p, "file", "no")
Mkdir(p) == AddEntry(p, "dir", "no")
Symlink(p) == AddEntry(p, "file", "make")

\* The guard of a call that changes the entry of p, and what it leaves alone.
OnEntry(p, kinds) == mounted /\ op = Idle /\ Kind(p) \in kinds
RestOfCall == UNCHANGED <<disk, mounted, next_inode, next_data_offset, faults, straddled>>

\* aosfs_chmod_path, aosfs_chown_path: the whole entry is written again.
SetMode(p) ==
    OnEntry(p, {"file", "dir", "link"}) /\ Sync(Entry(p)) /\ UNCHANGED entries /\ RestOfCall

\* aosfs_truncate_path, and aosfs_resize_path to a smaller size.
Shrink(p, n) ==
    /\ OnEntry(p, {"file"}) /\ n <= entries[Entry(p)].size
    /\ entries' = [entries EXCEPT ![Entry(p)].size = n]
    /\ Sync(Entry(p)) /\ RestOfCall

\* aosfs_resize_path to a larger size: the sectors added are zeroed.
Extend(p, n) ==
    /\ OnEntry(p, {"file"}) /\ n > entries[Entry(p)].size
    /\ Reserve([Idle EXCEPT !.slot = Entry(p), !.pos = entries[Entry(p)].size, !.end = n])
    /\ RestOfCall

\* aosfs_write_path
Write(p, offset, len, v) ==
    /\ OnEntry(p, {"file"}) /\ offset + len <= MaxFile
    /\ Reserve([Idle EXCEPT !.slot = Entry(p), !.pos = offset, !.end = offset + len, !.val = v])
    /\ RestOfCall

\* aosfs_unlink_path, aosfs_rmdir_path
Remove(p) ==
    /\ entries' = [entries EXCEPT ![Entry(p)] = Free]
    /\ Sync(Entry(p)) /\ RestOfCall
Unlink(p) == OnEntry(p, {"file", "link"}) /\ Remove(p)
IsEmptyNever(p) == TRUE
IsEmpty(p) == ~HasChildren(p)
Rmdir(p) == OnEntry(p, {"dir"}) /\ IsEmpty(p) /\ Remove(p)

----------------------------------------------------------------------------
(***************************************************************************)
(* The device writes of the call in progress.                              *)
(***************************************************************************)
Outcomes == {"done", "failed", "late"}
Reaches(r) == r # "failed"
Outcome(r) ==
    /\ r = "done" \/ faults < MaxFaults
    /\ faults' = faults + (IF r = "done" THEN 0 ELSE 1)

PutSector(r, s, v) == data' = IF Reaches(r) THEN [data EXCEPT ![s] = v] ELSE data
\* sync_entry writes the entry as memory has it.
PutEntry(r) ==
    table' = IF Reaches(r) THEN [table EXCEPT ![op.slot] = entries[op.slot]] ELSE table

\* reserve_entry_extent: the copy, then the entry.
CopySector(r) ==
    LET e == entries[op.slot] o == [op EXCEPT !.copied = @ + 1]
    IN  /\ op.stage = "copy" /\ Outcome(r)
        /\ PutSector(r, next_data_offset + op.copied, data[e.at + op.copied])
        /\ IF r # "done" THEN Refuse(op)
           ELSE IF o.copied < e.size THEN op' = o /\ UNCHANGED entries
           ELSE TakeExtent(o, next_data_offset, op.cap)
        /\ UNCHANGED <<table, mounted, next_inode, next_data_offset, straddled>>

SyncExtent(r) ==
    LET e == entries[op.slot]
        undone == [entries EXCEPT ![op.slot] = op.old]
    IN  /\ op.stage = "extent" /\ Outcome(r) /\ PutEntry(r)
        /\ straddled' = (straddled \/ r = "late")
        /\ IF r = "done"
           THEN /\ next_data_offset' = e.at + e.cap
                /\ op' = [op EXCEPT !.stage = "data", !.cap = 0, !.copied = 0, !.old = Free]
                /\ UNCHANGED entries
           ELSE /\ UNCHANGED next_data_offset
                /\ IF op.link = "no"
                   THEN op' = Idle /\ entries' = undone
                   ELSE /\ entries' = [entries EXCEPT ![op.slot] = Free]
                        /\ Sync(op.slot)
        /\ UNCHANGED <<data, mounted, next_inode>>

PutData(r) ==
    LET e == entries[op.slot]
    IN  /\ op.stage = "data" /\ Outcome(r)
        /\ PutSector(r, e.at + op.pos, op.val)
        /\ IF r # "done" THEN Refuse(op)
           ELSE IF op.pos + 1 < op.end
           THEN op' = [op EXCEPT !.pos = @ + 1] /\ UNCHANGED entries
           ELSE /\ entries' = [entries EXCEPT ![op.slot].size = Max({@, op.end})]
                /\ op' = [Idle EXCEPT !.stage = "entry", !.slot = op.slot, !.link = op.link]
        /\ UNCHANGED <<table, mounted, next_inode, next_data_offset, straddled>>

\* What follows the entry's write: nothing, or the next part of a symlink.
AfterEntry ==
    \/ op.link \in {"no", "text"} /\ op' = Idle /\ UNCHANGED entries
    \/ /\ op.link = "make"
       /\ entries' = [entries EXCEPT ![op.slot].kind = "link"]
       /\ op' = [op EXCEPT !.add = FALSE, !.link = "kind"]
    \/ op.link = "kind" /\ Reserve([op EXCEPT !.end = 1, !.val = 1, !.link = "text"])
EntryFailed ==
    IF op.add THEN op' = Idle /\ entries' = [entries EXCEPT ![op.slot] = Free] ELSE Refuse(op)

SyncEntry(r) ==
    /\ op.stage = "entry" /\ Outcome(r) /\ PutEntry(r)
    /\ IF r = "done" THEN AfterEntry ELSE EntryFailed
    /\ UNCHANGED <<data, mounted, next_inode, next_data_offset, straddled>>

----------------------------------------------------------------------------
(***************************************************************************)
(* The power goes; the next boot mounts the device (aosfs_mount_role).     *)
(***************************************************************************)
PowerLoss ==
    /\ mounted /\ mounted' = FALSE
    /\ entries' = [i \in Slots |-> Free] /\ op' = Idle
    /\ next_inode' = 1 /\ next_data_offset' = 0
    /\ UNCHANGED <<disk, faults, straddled>>

\* The checks of aosfs_mount_role on an entry of the table.
Accepted(e) ==
    e.kind \in {"file", "link"} =>
        e.size <= MaxFile /\ e.size <= e.cap /\ e.at + e.cap <= Storage

EndOfLast(t) ==
    LET used == {i \in Live(t) : t[i].kind # "dir"}
    IN  IF used = {} THEN 0 ELSE t[Max(used)].at + t[Max(used)].cap
EndOfExtents(t) == Max({0} \cup {t[i].at + t[i].cap : i \in {j \in Live(t) : t[j].kind # "dir"}})

Mount ==
    /\ ~mounted /\ \A i \in Live(table) : Accepted(table[i])
    /\ mounted' = TRUE /\ entries' = table
    /\ next_inode' = Max({0} \cup {table[i].inode : i \in Live(table)}) + 1
    /\ next_data_offset' = EndOfExtents(table)
    /\ UNCHANGED <<disk, op, faults, straddled>>

Next ==
    \/ \E p \in Paths :
          \/ Create(p) \/ Mkdir(p) \/ Symlink(p)
          \/ SetMode(p) \/ Unlink(p) \/ Rmdir(p)
          \/ \E n \in 0..MaxFile : Shrink(p, n) \/ Extend(p, n)
          \/ \E offset \in 0..(MaxFile - 1), len \in 1..MaxFile, v \in Bytes :
                Write(p, offset, len, v)
    \/ \E r \in Outcomes : CopySector(r) \/ SyncExtent(r) \/ PutData(r) \/ SyncEntry(r)
    \/ PowerLoss \/ Mount

Spec == Init /\ [][Next]_vars

----------------------------------------------------------------------------
(***************************************************************************)
(* Properties.                                                             *)
(***************************************************************************)
EntryType ==
    [path : Paths \cup {<<>>}, kind : {"none", "file", "dir", "link"}, size : 0..MaxFile,
     inode : 0..MaxInode, at : 0..Storage, cap : 0..Storage]

\* The type of the state; an extent in memory lies inside the storage.
TypeOK ==
    /\ table \in [Slots -> EntryType] /\ entries \in [Slots -> EntryType]
    /\ data \in [Sectors -> Bytes]
    /\ mounted \in BOOLEAN /\ straddled \in BOOLEAN
    /\ next_inode \in 1..(MaxInode + 1) /\ next_data_offset \in 0..Storage
    /\ op.stage \in {"idle", "copy", "extent", "data", "entry"} /\ op.slot \in Slots
    /\ faults \in 0..MaxFaults
    /\ \A i \in Slots : entries[i].at + entries[i].cap <= Storage

Extent(e) == e.at..(e.at + e.cap - 1)
Disjoint(t) == \A i, j \in Live(t) : i # j => Extent(t[i]) \cap Extent(t[j]) = {}

\* No two files share a sector, neither in the table in memory nor in the one
\* the next boot will read, whatever was interrupted or failed before: unless
\* an extent's entry reached the device and was reported failed, when the
\* kernel hands the same sectors out again (aosfs.c:1204).
ExtentsDisjoint == ~straddled => Disjoint(entries) /\ Disjoint(table)

\* Whatever call the power loss or a failed write cut short, the mount's
\* checks accept every entry the device holds: capacity is on the device
\* before a size that needs it (aosfs_write_path, aosfs_resize_path).
NextBootMounts == \A i \in Live(table) : Accepted(table[i])

\* What the device holds of the file in slot i.
OnDevice(i) ==
    [path |-> table[i].path, kind |-> table[i].kind,
     bytes |-> [k \in 0..(table[i].size - 1) |-> data[table[i].at + k]]]

\* A device write changes no file but the one its call names, and of that one
\* nothing before the call's own data or its final entry is written: moving a
\* file to a larger extent shows at every point the content it had.  Only when
\* an earlier entry write failed does the move also bring the size up to date.
OnlyTheNamedFileChanges ==
    [][~straddled =>
         \A i \in Slots : OnDevice(i)' # OnDevice(i) =>
             /\ i = op.slot
             /\ op.stage \in {"data", "entry"} \/ table[i].size # entries[i].size]_vars

\* As long as no write failed, the table on the device is a tree: paths are
\* distinct and every entry's parent is a directory of the table, at every
\* point a power loss may pick.
TreeOnDevice ==
    faults = 0 =>
        /\ \A i, j \in Live(table) : i # j =>
              table[i].path # table[j].path /\ table[i].inode # table[j].inode
        /\ \A i \in Live(table) : Parent(table[i].path) # <<>> =>
              \E j \in Live(table) :
                  table[j].path = Parent(table[i].path) /\ table[j].kind = "dir"

============================================================================
