-------------------------------- MODULE Vmm --------------------------------
(***************************************************************************)
(* The physical memory manager (kernel/pmm.c) and the copy-on-write address *)
(* spaces built on it (kernel/vmm.c).                                      *)
(*                                                                         *)
(* pmm.c keeps a bitmap of used 4 KiB blocks, a 16-bit reference count per *)
(* block and a counter of free blocks.  vmm.c shares blocks between address *)
(* spaces on fork and copies a shared block when one side writes to it.    *)
(*                                                                         *)
(* The three levels of page tables below the P4 are folded into one table  *)
(* block per space, allocated when the first page is mapped and freed with *)
(* the space.  System calls and exception handlers run with interrupts     *)
(* disabled on one CPU, so each function below is one atomic step.         *)
(***************************************************************************)
EXTENDS Integers, FiniteSets

CONSTANTS
  Spaces,      \* identities of user address spaces
  Pages,       \* virtual page numbers; vmm_copy_p4 visits them in order
  Blocks,      \* physical blocks pmm_init leaves free
  NoBlock,     \* the null address
  MaxRef,      \* UINT16_MAX in pmm_retain_block
  Values,      \* contents of a page
  Absent       \* the view of an unmapped page, in PrivateMemory

ASSUME SpacesAssumption == IsFiniteSet(Spaces)
ASSUME PagesAssumption == Pages \subseteq Nat \ {0} /\ IsFiniteSet(Pages)
ASSUME BlocksAssumption == IsFiniteSet(Blocks) /\ NoBlock \notin Blocks
ASSUME MaxRefAssumption == MaxRef \in Nat \ {0}
ASSUME ValuesAssumption == Values # {} /\ Absent \notin Values

\* The places of a space that refer to a block: its P4, its lower tables, and
\* one page-table entry per page.
Root == 0
Table == -1
Slots == Pages \cup {Root, Table}

VARIABLES
  used,         \* pmm_bitmap: the blocks whose bit is set
  refcount,     \* pmm_refcounts
  free_blocks,  \* free_blocks
  frame,        \* frame[s][k]: the block slot k of space s refers to
  writable,     \* writable[s][p]: PAGE_WRITABLE of the entry
  cow,          \* cow[s][p]: PAGE_COW of the entry
  data          \* data[b]: contents of the block

vars == <<used, refcount, free_blocks, frame, writable, cow, data>>

TypeOK ==
  /\ used \subseteq Blocks
  /\ refcount \in [Blocks -> 0..MaxRef]
  /\ free_blocks \in Nat
  /\ frame \in [Spaces -> [Slots -> Blocks \cup {NoBlock}]]
  /\ writable \in [Spaces -> [Pages -> BOOLEAN]]
  /\ cow \in [Spaces -> [Pages -> BOOLEAN]]
  /\ data \in [Blocks -> Values]

Exists(s) == frame[s][Root] # NoBlock
Present(s, p) == frame[s][p] # NoBlock

\* The blocks the entries of a space map.
Mapped(s) == {frame[s][p] : p \in Pages} \ {NoBlock}

\* Mutant of Owned: the lower tables are forgotten.
OwnedWithoutTables(s) == {frame[s][k] : k \in Slots \ {Table}} \ {NoBlock}

\* Every block a space refers to: what vmm_destroy_user_space frees.
Owned(s) == {frame[s][k] : k \in Slots} \ {NoBlock}

NoSlots == [k \in Slots |-> NoBlock]
NoFlags == [p \in Pages |-> FALSE]

Init ==
  /\ used = {}
  /\ refcount = [b \in Blocks |-> 0]
  /\ free_blocks = Cardinality(Blocks)
  /\ frame = [s \in Spaces |-> NoSlots]
  /\ writable = [s \in Spaces |-> NoFlags]
  /\ cow = [s \in Spaces |-> NoFlags]
  /\ \E v \in Values : data = [b \in Blocks |-> v]

----------------------------------------------------------------------------
(* kernel/pmm.c *)

\* Mutant of Free: the bitmap is not consulted.
FreeIgnoringBitmap == Blocks

\* pmm_alloc_block returns the lowest free block; no caller depends on which
\* one it gets, so the actions below take any.
Free == Blocks \ used

\* Mutants: pmm_retain_block forgets to count; pmm_free_block clears the bit of
\* a block that is still counted.
CountWithoutRetain(b, fresh, retained, dropped) ==
  IF b \in fresh THEN 1
  ELSE refcount[b] - (IF b \in dropped /\ refcount[b] > 0 THEN 1 ELSE 0)
FreedAlways(dropped) == dropped

\* The count of block b, and the blocks that become free, when pmm_alloc_block
\* returned fresh, pmm_retain_block was called for retained, and pmm_free_block
\* for dropped.
CountAfter(b, fresh, retained, dropped) ==
  IF b \in fresh THEN 1
  ELSE refcount[b] + (IF b \in retained THEN 1 ELSE 0)
                   - (IF b \in dropped /\ refcount[b] > 0 THEN 1 ELSE 0)

Freed(dropped) == {b \in dropped : refcount[b] = 1}

\* One call of the allocator per block of the three sets.
Account(fresh, retained, dropped) ==
  /\ refcount' = [b \in Blocks |-> CountAfter(b, fresh, retained, dropped)]
  /\ used' = (used \cup fresh) \ Freed(dropped)
  /\ free_blocks' = free_blocks - Cardinality(fresh) + Cardinality(Freed(dropped))

----------------------------------------------------------------------------
(* kernel/vmm.c *)

\* vmm_create_user_space: a P4 with the kernel half only.
Create(s) ==
  /\ ~Exists(s)
  /\ \E b \in Free :
       /\ Account({b}, {}, {})
       /\ frame' = [frame EXCEPT ![s] = [NoSlots EXCEPT ![Root] = b]]
  /\ UNCHANGED <<writable, cow, data>>

\* vmm_destroy_user_space: every page, then the tables, then the P4.
Destroy(s) ==
  /\ Exists(s)
  /\ Account({}, {}, Owned(s))
  /\ frame' = [frame EXCEPT ![s] = NoSlots]
  /\ writable' = [writable EXCEPT ![s] = NoFlags]
  /\ cow' = [cow EXCEPT ![s] = NoFlags]
  /\ UNCHANGED data

Saturated(s, p) == Present(s, p) /\ refcount[frame[s][p]] = MaxRef

\* The copy-on-write marks of a space after vmm_copy_p4 visited the pages S.
MarkedCow(s, S) == [p \in Pages |-> cow[s][p] \/ (p \in S /\ writable[s][p])]
MarkedReadOnly(s, S) == [p \in Pages |-> writable[s][p] /\ p \notin S]

\* vmm_copy_p4 when every page can be shared.  A block is mapped at most once
\* per space (BlockMappedOnce), so it is retained at most once.
Copy(src, dst) ==
  /\ Exists(src) /\ ~Exists(dst)
  /\ \A p \in Pages : ~Saturated(src, p)
  /\ \E b \in Free, t \in Free \cup {NoBlock} :
       /\ IF frame[src][Table] = NoBlock THEN t = NoBlock
                                         ELSE t \in Free \ {b}
       /\ Account({b, t} \ {NoBlock}, Mapped(src), {})
       /\ frame' = [frame EXCEPT ![dst] =
                      [frame[src] EXCEPT ![Root] = b, ![Table] = t]]
  /\ cow' = [cow EXCEPT ![src] = MarkedCow(src, Pages),
                        ![dst] = MarkedCow(src, Pages)]
  /\ writable' = [writable EXCEPT ![src] = NoFlags, ![dst] = NoFlags]
  /\ UNCHANGED data

\* The copy may run out of blocks before it has a table for each page.
MemoryShort == Cardinality(Free) < 1 + Cardinality(Pages)

\* vmm_copy_p4 when a block cannot be retained once more, or when there is no
\* block for the next table of the copy: the half-built copy is destroyed, but
\* the source entries visited so far keep their marks.
CopyFails(src, dst) ==
  /\ Exists(src) /\ ~Exists(dst)
  /\ \E p \in Pages :
       LET visited == {q \in Pages : q < p /\ Present(src, q)} IN
       /\ Present(src, p)
       /\ Saturated(src, p) \/ MemoryShort
       /\ \A q \in visited : ~Saturated(src, q)
       /\ cow' = [cow EXCEPT ![src] = MarkedCow(src, visited)]
       /\ writable' = [writable EXCEPT ![src] = MarkedReadOnly(src, visited)]
  /\ UNCHANGED <<used, refcount, free_blocks, frame, data>>

\* pmm_alloc_block and vmm_map_page, as map_zeroed_user_pages, sys_mmap,
\* sys_mprotect and the ELF loader call them: an entry that was present is
\* overwritten, its block is not freed.
MapPage(s, p, w, v) ==
  /\ Exists(s)
  /\ \E b \in Free, t \in Blocks :
       /\ IF frame[s][Table] = NoBlock THEN t \in Free \ {b}
                                       ELSE t = frame[s][Table]
       /\ Account({b, t} \ used, {}, {})
       /\ frame' = [frame EXCEPT ![s][p] = b, ![s][Table] = t]
       /\ data' = [data EXCEPT ![b] = v]
  /\ writable' = [writable EXCEPT ![s][p] = w]
  /\ cow' = [cow EXCEPT ![s][p] = FALSE]

\* vmm_map_page without memory for a table returns silently: the block of the
\* page stays allocated and nothing refers to it.
MapPageNoTable(s) ==
  /\ Exists(s)
  /\ frame[s][Table] = NoBlock
  /\ \E b \in Free :
       /\ Free = {b}
       /\ Account({b}, {}, {})
  /\ UNCHANGED <<frame, writable, cow, data>>

\* vmm_unmap_page and pmm_free_block, as release_user_pages and sys_brk call
\* them; the tables stay.
Unmap(s, p) ==
  /\ Present(s, p)
  /\ Account({}, {}, {frame[s][p]})
  /\ frame' = [frame EXCEPT ![s][p] = NoBlock]
  /\ writable' = [writable EXCEPT ![s][p] = FALSE]
  /\ cow' = [cow EXCEPT ![s][p] = FALSE]
  /\ UNCHANGED data

\* Mutants: a block with two users counts as unshared; only the copy-on-write
\* mark is checked, not the count.
SharedOffByOne(s, p) == refcount[frame[s][p]] > 2
MustCopyByMark(s, p) == cow[s][p]

Shared(s, p) == refcount[frame[s][p]] > 1
MustCopy(s, p) == cow[s][p] \/ Shared(s, p)

\* Give entry p of s a block of its own with contents v, when shared is true.
Privatise(s, p, shared, v) ==
  IF shared
  THEN \E n \in Free :
         /\ Account({n}, {}, {frame[s][p]})
         /\ frame' = [frame EXCEPT ![s][p] = n]
         /\ data' = [data EXCEPT ![n] = v]
  ELSE /\ data' = [data EXCEPT ![frame[s][p]] = v]
       /\ UNCHANGED <<used, refcount, free_blocks, frame>>

\* vmm_handle_cow_fault copies a block that is shared and reuses one that is
\* not; the entry then is writable and holds v.
ResolveCow(s, p, v) ==
  /\ Present(s, p) /\ cow[s][p]
  /\ Privatise(s, p, Shared(s, p), v)
  /\ writable' = [writable EXCEPT ![s][p] = TRUE]
  /\ cow' = [cow EXCEPT ![s][p] = FALSE]

\* page_fault_handler on a user write to a present page.
CowFault(s, p) ==
  /\ ~writable[s][p]
  /\ ResolveCow(s, p, data[frame[s][p]])

\* A user store to a writable page.
Write(s, p, v) ==
  /\ Present(s, p) /\ writable[s][p]
  /\ data' = [data EXCEPT ![frame[s][p]] = v]
  /\ UNCHANGED <<used, refcount, free_blocks, frame, writable, cow>>

\* vmm_prepare_user_write on a page that is not writable, and the kernel's
\* store that follows it in the same system call.
KernelWrite(s, p, v) ==
  /\ ~writable[s][p]
  /\ ResolveCow(s, p, v)

\* vmm_protect_page.
Protect(s, p, w) ==
  /\ Present(s, p)
  /\ Privatise(s, p, w /\ MustCopy(s, p), data[frame[s][p]])
  /\ writable' = [writable EXCEPT ![s][p] = w]
  /\ cow' = [cow EXCEPT ![s][p] = ~w /\ cow[s][p]]

Next ==
  \/ \E s \in Spaces : Create(s) \/ Destroy(s) \/ MapPageNoTable(s)
  \/ \E src, dst \in Spaces : Copy(src, dst) \/ CopyFails(src, dst)
  \/ \E s \in Spaces, p \in Pages :
       \/ Unmap(s, p)
       \/ CowFault(s, p)
       \/ \E v \in Values : Write(s, p, v) \/ KernelWrite(s, p, v)
       \/ \E w \in BOOLEAN : Protect(s, p, w)
       \/ \E w \in BOOLEAN, v \in Values : MapPage(s, p, w, v)

Spec == Init /\ [][Next]_vars

----------------------------------------------------------------------------
(* Properties *)

\* The slots of all spaces that refer to block b.
Refs(b) == {x \in Spaces \X Slots : frame[x[1]][x[2]] = b}

\* No block is referred to more often than its reference count says: whatever
\* order forks, copy-on-write faults, mprotects, unmappings and exits happen in,
\* pmm_free_block never gives back a block that a page table or a P4 still uses.
RefsCounted == \A b \in Blocks : Cardinality(Refs(b)) <= refcount[b]

\* An entry with PAGE_WRITABLE is the only reference to its block, so a store
\* through it, which the kernel does not see, cannot reach another process.
WritableIsExclusive ==
  \A s \in Spaces, p \in Pages :
    writable[s][p] => Present(s, p) /\ Refs(frame[s][p]) = {<<s, p>>}

\* A space refers to a block at most once, and the blocks of P4s and tables are
\* not shared: vmm_copy_p4 retains, and vmm_free_user_space frees, each block
\* of a space once.
BlockMappedOnce ==
  /\ \A s \in Spaces : \A j, k \in Slots :
       frame[s][j] = frame[s][k] /\ frame[s][j] # NoBlock => j = k
  /\ \A s, r \in Spaces : \A j \in {Root, Table}, k \in Slots :
       frame[s][j] = frame[r][k] /\ frame[s][j] # NoBlock => s = r /\ j = k

\* The three records pmm.c keeps of a block agree: the bit is set exactly while
\* the count is positive, and free_blocks (what the memory service reports) is
\* the number of clear bits.
PmmRecordsAgree ==
  /\ \A b \in Blocks : b \in used <=> refcount[b] > 0
  /\ free_blocks = Cardinality(Blocks \ used)

\* A space that does not exist, and a page that is not present, hold nothing.
AbsentIsEmpty ==
  /\ \A s \in Spaces : ~Exists(s) => frame[s] = NoSlots
  /\ \A s \in Spaces, p \in Pages :
       ~Present(s, p) => ~writable[s][p] /\ ~cow[s][p]

\* References that were counted and exist no more: memory lost until reboot.
Lost(b) == refcount[b] - Cardinality(Refs(b))

\* Memory is lost in two ways only: vmm_map_page overwrites an entry that is
\* present, or returns silently without a table.  Fork (also when it fails
\* halfway), exit, copy-on-write and mprotect lose nothing.
LostOnlyByMapping ==
  [][(\E b \in Blocks : Lost(b)' # Lost(b)) =>
       \E s \in Spaces :
         \/ MapPageNoTable(s)
         \/ \E p \in Pages, w \in BOOLEAN, v \in Values :
              Present(s, p) /\ MapPage(s, p, w, v)]_vars

\* Every address space behaves as if its pages were its own, although blocks
\* are shared: no interleaving of forks, faults and stores of several processes
\* lets one of them see or change what another one wrote.
Private == INSTANCE PrivateMemory WITH
  live <- {s \in Spaces : Exists(s)},
  view <- [s \in Spaces |-> [p \in Pages |->
             IF Present(s, p) THEN data[frame[s][p]] ELSE Absent]]

ImplementsPrivateMemory == Private!Spec
=============================================================================
