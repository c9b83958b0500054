----------------------------- MODULE VmmProofs -----------------------------
(***************************************************************************)
(* Proofs about Vmm for any number of spaces, pages and blocks.            *)
(***************************************************************************)
EXTENDS Vmm, FiniteSetTheorems, TLAPS

----------------------------------------------------------------------------
(* Counting the elements of a finite set *)

\* A subset has no more elements.
LEMMA Shrink ==
  ASSUME NEW R, NEW Q, IsFiniteSet(R), Q \subseteq R
  PROVE  /\ IsFiniteSet(Q)
         /\ Cardinality(Q) \in Nat /\ Cardinality(R) \in Nat
         /\ Cardinality(Q) <= Cardinality(R)
  BY FS_Subset, FS_CardinalityType

\* A finite set of no elements is empty.
LEMMA NoneByCount ==
  ASSUME NEW R, IsFiniteSet(R), Cardinality(R) <= 0
  PROVE  R = {}
  BY FS_CardinalityType, FS_EmptySet

\* A finite set of at most one element that contains x is {x}.
LEMMA OneByCount ==
  ASSUME NEW R, NEW x \in R, IsFiniteSet(R), Cardinality(R) <= 1
  PROVE  R = {x}
<1>1. /\ IsFiniteSet(R \ {x})
      /\ Cardinality(R \ {x}) = Cardinality(R) - 1
  BY FS_RemoveElement
<1>2. Cardinality(R) \in Nat
  BY FS_CardinalityType
<1>3. R \ {x} = {}
  BY <1>1, <1>2, NoneByCount
<1> QED BY <1>3

\* There are finitely many references.
LEMMA PlacesFinite == IsFiniteSet(Spaces \X Slots)
<1>1. IsFiniteSet({Root, Table})
  <2>1. IsFiniteSet({Root})
    BY FS_Singleton
  <2>2. IsFiniteSet({Root} \cup {Table})
    BY <2>1, FS_AddElement
  <2>3. {Root, Table} = {Root} \cup {Table}
    OBVIOUS
  <2> QED BY <2>2, <2>3
<1>2. IsFiniteSet(Slots)
  BY <1>1, FS_Union, PagesAssumption, Zenon DEF Slots
<1> QED BY <1>2, FS_Product, SpacesAssumption

----------------------------------------------------------------------------
(* The inductive invariant *)

\* The counting argument needs all parts at once: a block is freed only when it
\* has no reference left (RefsCounted), because a space drops each of its blocks
\* once (BlockMappedOnce); copy-on-write may reuse a block in place because a
\* count of one means one reference.
IInv ==
  /\ TypeOK
  /\ RefsCounted
  /\ WritableIsExclusive
  /\ BlockMappedOnce
  /\ PmmRecordsAgree
  /\ AbsentIsEmpty

\* The references to a block are finitely many, before and after a step.
LEMMA RefsFinite ==
  ASSUME NEW b
  PROVE  IsFiniteSet(Refs(b)) /\ IsFiniteSet(Refs(b)')
<1>1. Refs(b) \subseteq Spaces \X Slots /\ Refs(b)' \subseteq Spaces \X Slots
  BY DEF Refs
<1> QED BY <1>1, PlacesFinite, Shrink, Zenon

\* A block that some slot refers to has its bit set and a positive count.
LEMMA ReferencedIsUsed ==
  ASSUME IInv, NEW s \in Spaces, NEW k \in Slots, frame[s][k] # NoBlock
  PROVE  frame[s][k] \in used /\ refcount[frame[s][k]] >= 1
<1> DEFINE b == frame[s][k]
<1>1. b \in Blocks
  BY DEF IInv, TypeOK
<1>2. <<s, k>> \in Refs(b)
  BY DEF Refs
<1>3. Cardinality(Refs(b)) <= refcount[b] /\ refcount[b] \in Nat
  BY <1>1 DEF IInv, RefsCounted, TypeOK
<1>4. Cardinality(Refs(b)) \in Nat
  BY RefsFinite, FS_CardinalityType
<1>5. refcount[b] # 0
  BY <1>2, <1>3, <1>4, RefsFinite, NoneByCount
<1> QED BY <1>1, <1>3, <1>5 DEF IInv, PmmRecordsAgree

\* Nothing refers to a free block.
LEMMA FreeIsUnreferenced ==
  ASSUME IInv, NEW b \in Free
  PROVE  /\ b \in Blocks
         /\ refcount[b] = 0
         /\ \A s \in Spaces, k \in Slots : frame[s][k] # b
<1>1. b \in Blocks /\ b \notin used /\ b # NoBlock
  BY BlocksAssumption DEF Free
<1> QED BY <1>1, ReferencedIsUsed DEF IInv, PmmRecordsAgree, TypeOK

\* A count of one means one reference.
LEMMA CountOneIsExclusive ==
  ASSUME IInv, NEW s \in Spaces, NEW k \in Slots, frame[s][k] # NoBlock,
         refcount[frame[s][k]] <= 1
  PROVE  Refs(frame[s][k]) = {<<s, k>>}
<1> DEFINE b == frame[s][k]
<1>1. b \in Blocks
  BY DEF IInv, TypeOK
<1>2. <<s, k>> \in Refs(b)
  BY DEF Refs
<1>3. Cardinality(Refs(b)) <= refcount[b] /\ refcount[b] \in Nat
  BY <1>1 DEF IInv, RefsCounted, TypeOK
<1>4. Cardinality(Refs(b)) \in Nat
  BY RefsFinite, FS_CardinalityType
<1>5. Cardinality(Refs(b)) <= 1
  BY <1>3, <1>4
<1> QED BY <1>2, <1>5, RefsFinite, OneByCount

\* A slot is the only reference to its block when no other slot has the block.
LEMMA OnlyReference ==
  ASSUME NEW f, NEW s \in Spaces, NEW k \in Slots
  PROVE  {x \in Spaces \X Slots : f[x[1]][x[2]] = f[s][k]} = {<<s, k>>}
         <=> \A r \in Spaces, j \in Slots : f[r][j] = f[s][k] => r = s /\ j = k
<1> DEFINE R == {x \in Spaces \X Slots : f[x[1]][x[2]] = f[s][k]}
<1>1. ASSUME R = {<<s, k>>}, NEW r \in Spaces, NEW j \in Slots, f[r][j] = f[s][k]
      PROVE  r = s /\ j = k
  <2>1. <<r, j>> \in R
    BY <1>1
  <2> QED BY <1>1, <2>1
<1>2. ASSUME \A r \in Spaces, j \in Slots : f[r][j] = f[s][k] => r = s /\ j = k
      PROVE  R = {<<s, k>>}
  BY <1>2
<1> QED BY <1>1, <1>2

\* Account keeps the three records of the allocator in agreement, when fresh
\* blocks were free, and dropped and retained ones were not.
LEMMA AccountRecords ==
  ASSUME TypeOK, PmmRecordsAgree,
         NEW fresh \in SUBSET Free, NEW retained \in SUBSET used,
         NEW dropped \in SUBSET used, retained \cap dropped = {},
         \A b \in retained : refcount[b] < MaxRef,
         Account(fresh, retained, dropped)
  PROVE  /\ used' \subseteq Blocks
         /\ refcount' \in [Blocks -> 0..MaxRef]
         /\ free_blocks' \in Nat
         /\ PmmRecordsAgree'
<1> DEFINE freed == {b \in dropped : refcount[b] = 1}
<1>1. used' = (used \cup fresh) \ freed
  BY DEF Account, CountAfter, Freed
<1>2. refcount' \in [Blocks -> 0..MaxRef]
  BY MaxRefAssumption DEF Account, CountAfter, Freed, TypeOK
<1>3. \A b \in Blocks : b \in used' <=> refcount'[b] > 0
  <2> SUFFICES ASSUME NEW b \in Blocks
               PROVE  b \in used' <=> refcount'[b] > 0
    OBVIOUS
  <2>1. /\ refcount[b] \in Nat
        /\ b \in used <=> refcount[b] > 0
        /\ b \in fresh => b \notin used
    BY DEF TypeOK, PmmRecordsAgree, Free
  <2>2. refcount'[b] = IF b \in fresh THEN 1
                       ELSE refcount[b] + (IF b \in retained THEN 1 ELSE 0)
                            - (IF b \in dropped /\ refcount[b] > 0 THEN 1 ELSE 0)
    BY DEF Account, CountAfter, Freed
  <2>3. CASE b \in fresh
    BY <1>1, <2>1, <2>2, <2>3
  <2>4. CASE b \notin fresh /\ b \in dropped
    BY <1>1, <2>1, <2>2, <2>4
  <2>5. CASE b \notin fresh /\ b \notin dropped
    BY <1>1, <2>1, <2>2, <2>5
  <2> QED BY <2>3, <2>4, <2>5
<1>4. free_blocks' = Cardinality(Blocks \ used')
  <2>1. IsFiniteSet(Blocks \ used) /\ IsFiniteSet(fresh) /\ IsFiniteSet(freed)
        /\ IsFiniteSet((Blocks \ used) \ fresh)
    BY Shrink, BlocksAssumption, Zenon DEF TypeOK, Free
  <2>2. Cardinality((Blocks \ used) \ fresh)
          = Cardinality(Blocks \ used) - Cardinality(fresh)
    <3>1. (Blocks \ used) \cap fresh = fresh
      BY DEF Free
    <3> QED BY <2>1, <3>1, FS_Difference, Zenon
  <2>3. ((Blocks \ used) \ fresh) \cap freed = {}
    OBVIOUS
  <2>4. Cardinality(((Blocks \ used) \ fresh) \cup freed)
          = Cardinality((Blocks \ used) \ fresh) + Cardinality(freed)
    <3>1. Cardinality(((Blocks \ used) \ fresh) \cap freed) = 0
      BY <2>3, FS_EmptySet
    <3>2. Cardinality(((Blocks \ used) \ fresh) \cup freed)
          = Cardinality((Blocks \ used) \ fresh) + Cardinality(freed)
            - Cardinality(((Blocks \ used) \ fresh) \cap freed)
      BY <2>1, FS_Union
    <3> QED BY <2>1, <3>1, <3>2, FS_CardinalityType
  <2>5. Blocks \ used' = ((Blocks \ used) \ fresh) \cup freed
    BY <1>1 DEF TypeOK, Free
  <2>6. /\ free_blocks' = free_blocks - Cardinality(fresh) + Cardinality(freed)
        /\ free_blocks = Cardinality(Blocks \ used)
    BY DEF Account, CountAfter, Freed, PmmRecordsAgree
  <2> QED BY <2>1, <2>2, <2>4, <2>5, <2>6, FS_CardinalityType, Zenon
<1>5. free_blocks' \in Nat
  BY <1>4, BlocksAssumption, Shrink
<1> QED BY <1>1, <1>2, <1>3, <1>4, <1>5 DEF TypeOK, PmmRecordsAgree, Free

----------------------------------------------------------------------------
(* What one step does to one block or entry *)

\* The P4 slot, the table slot and the page slots are different.
LEMMA SlotFacts ==
  /\ Root \in Slots /\ Table \in Slots /\ Root # Table
  /\ \A p \in Pages : p \in Slots /\ p # Root /\ p # Table
  BY PagesAssumption DEF Slots, Root, Table

\* A block that gains no reference and keeps its count stays well counted.
LEMMA CountKept ==
  ASSUME IInv, NEW c \in Blocks, Refs(c)' \subseteq Refs(c),
         refcount'[c] = refcount[c]
  PROVE  Cardinality(Refs(c)') <= refcount'[c]
<1>1. /\ Cardinality(Refs(c)') <= Cardinality(Refs(c))
      /\ Cardinality(Refs(c)') \in Nat /\ Cardinality(Refs(c)) \in Nat
  BY RefsFinite, Shrink, Zenon
<1>2. Cardinality(Refs(c)) <= refcount[c] /\ refcount[c] \in Nat
  BY DEF IInv, RefsCounted, TypeOK
<1> QED BY <1>1, <1>2

\* A block whose references and count stay loses nothing.
LEMMA LostSame ==
  ASSUME NEW c \in Blocks, Refs(c)' = Refs(c), refcount'[c] = refcount[c]
  PROVE  Lost(c)' = Lost(c)
  BY DEF Lost

\* Nor does one that gives up a reference with its count.
LEMMA LostDrops ==
  ASSUME IInv, NEW c \in Blocks, NEW x \in Refs(c),
         Refs(c)' = Refs(c) \ {x}, refcount'[c] = refcount[c] - 1
  PROVE  Lost(c)' = Lost(c)
<1>1. Cardinality(Refs(c)') = Cardinality(Refs(c)) - 1 /\ Cardinality(Refs(c)) \in Nat
  BY RefsFinite, FS_RemoveElement, FS_CardinalityType, Zenon
<1>2. refcount[c] \in Nat
  BY DEF IInv, TypeOK
<1> QED BY <1>1, <1>2 DEF Lost

\* Nor does one that gains a reference and is counted for it.
LEMMA LostGains ==
  ASSUME IInv, NEW c \in Blocks, NEW x, x \notin Refs(c),
         Refs(c)' = Refs(c) \cup {x}, refcount'[c] = refcount[c] + 1
  PROVE  Lost(c)' = Lost(c)
<1>1. Cardinality(Refs(c)') = Cardinality(Refs(c)) + 1 /\ Cardinality(Refs(c)) \in Nat
  BY RefsFinite, FS_AddElement, FS_CardinalityType, Zenon
<1>2. refcount[c] \in Nat
  BY DEF IInv, TypeOK
<1> QED BY <1>1, <1>2 DEF Lost

\* Nor does a free block that is handed out to one place.
LEMMA LostFresh ==
  ASSUME IInv, NEW c \in Free, NEW x, Refs(c)' = {x}, refcount'[c] = 1
  PROVE  Lost(c)' = Lost(c)
<1>1. c \in Blocks /\ refcount[c] = 0 /\ Refs(c) = {}
  BY FreeIsUnreferenced DEF Refs
<1>2. x \notin Refs(c) /\ Refs(c)' = Refs(c) \cup {x}
  BY <1>1, Zenon
<1>3. refcount'[c] = refcount[c] + 1
  BY <1>1
<1> QED BY <1>1, <1>2, <1>3, LostGains, Zenon

\* No counted reference disappears in a step.
NothingLost == \A c \in Blocks : Lost(c)' = Lost(c)

\* Then every block stays well counted.
LEMMA LostCounted ==
  ASSUME IInv, refcount' \in [Blocks -> 0..MaxRef], NEW c \in Blocks, Lost(c)' = Lost(c)
  PROVE  Cardinality(Refs(c)') <= refcount'[c]
<1>1. Cardinality(Refs(c)') \in Nat /\ Cardinality(Refs(c)) \in Nat
  BY RefsFinite, FS_CardinalityType, Zenon
<1>2. Cardinality(Refs(c)) <= refcount[c] /\ refcount[c] \in Nat /\ refcount'[c] \in Nat
  BY MaxRefAssumption DEF IInv, RefsCounted, TypeOK
<1> QED BY <1>1, <1>2 DEF Lost

\* WritableIsExclusive, slot by slot, before a step and after it.
LEMMA ExclusiveBefore ==
  ASSUME IInv, NEW r \in Spaces, NEW p \in Pages, writable[r][p]
  PROVE  /\ frame[r][p] # NoBlock
         /\ \A q \in Spaces, j \in Slots : frame[q][j] = frame[r][p] => q = r /\ j = p
  BY SlotFacts, OnlyReference DEF IInv, WritableIsExclusive, Refs, Present

\* What an action has to show for WritableIsExclusive after it.
LEMMA ExclusiveAfter ==
  ASSUME \A r \in Spaces, p \in Pages : writable'[r][p] =>
           /\ frame'[r][p] # NoBlock
           /\ \A q \in Spaces, j \in Slots :
                frame'[q][j] = frame'[r][p] => q = r /\ j = p
  PROVE  WritableIsExclusive'
<1> SUFFICES ASSUME NEW r \in Spaces, NEW p \in Pages, writable'[r][p]
             PROVE  Present(r, p)' /\ Refs(frame[r][p])' = {<<r, p>>}
  BY DEF WritableIsExclusive
<1> QED BY SlotFacts, OnlyReference DEF Refs, Present

----------------------------------------------------------------------------
(* One lemma per action *)

\* vmm_create_user_space keeps the invariant.
LEMMA CreateStep ==
  ASSUME IInv, NEW s \in Spaces, Create(s)
  PROVE  IInv' /\ NothingLost
<1>1. PICK b \in Free : /\ Account({b}, {}, {})
                        /\ frame' = [frame EXCEPT ![s] = [NoSlots EXCEPT ![Root] = b]]
  BY Zenon DEF Create
<1>2. /\ b \in Blocks /\ b # NoBlock
      /\ \A r \in Spaces, k \in Slots : frame[r][k] # b
  BY FreeIsUnreferenced, BlocksAssumption
<1>3. frame[s] = NoSlots
  BY DEF Create, IInv, AbsentIsEmpty
<1>4. /\ used' \subseteq Blocks /\ refcount' \in [Blocks -> 0..MaxRef]
      /\ free_blocks' \in Nat /\ PmmRecordsAgree'
  BY <1>1, AccountRecords, SMTT(30) DEF IInv
<1>5. TypeOK'
  BY <1>1, <1>2, <1>4, Zenon DEF TypeOK, IInv, NoSlots, Create
<1>6. /\ \A r \in Spaces, k \in Slots :
           frame'[r][k] = IF r = s /\ k = Root THEN b ELSE frame[r][k]
      /\ \A k \in Slots : frame[s][k] = NoBlock
  BY <1>1, <1>3 DEF NoSlots, TypeOK, IInv
<1>7. NothingLost
  <2> SUFFICES ASSUME NEW c \in Blocks
               PROVE  Lost(c)' = Lost(c)
    BY DEF NothingLost
  <2>1. CASE c = b
    <3>1. Refs(c)' = {<<s, Root>>}
      BY <1>2, <1>6, <2>1, SlotFacts DEF Refs
    <3>2. refcount'[c] = 1
      BY <1>1, <2>1 DEF Account, CountAfter, Freed
    <3> QED BY <2>1, <3>1, <3>2, LostFresh, Zenon
  <2>2. CASE c # b
    <3>1. Refs(c)' = Refs(c)
      BY <1>6, <2>2, BlocksAssumption DEF Refs
    <3>2. refcount'[c] = refcount[c]
      BY <1>1, <2>2 DEF Account, CountAfter, Freed, IInv, TypeOK
    <3> QED BY <3>1, <3>2, LostSame
  <2> QED BY <2>1, <2>2
<1>8. RefsCounted'
  BY <1>4, <1>7, LostCounted DEF NothingLost, RefsCounted
<1>9. WritableIsExclusive'
  <2>1. writable' = writable
    BY DEF Create
  <2> QED BY <1>2, <1>6, <2>1, SlotFacts, ExclusiveBefore, ExclusiveAfter
<1>10. BlockMappedOnce'
  BY <1>2, <1>6, SlotFacts DEF IInv, BlockMappedOnce
<1>11. AbsentIsEmpty'
  <2>1. \A r \in Spaces : ~Exists(r)' => frame'[r] = NoSlots
    BY <1>1, <1>2, <1>6, SlotFacts DEF Exists, IInv, AbsentIsEmpty, TypeOK
  <2>2. \A r \in Spaces, p \in Pages : frame'[r][p] = frame[r][p]
    BY <1>6, SlotFacts
  <2> QED BY <2>1, <2>2 DEF AbsentIsEmpty, IInv, Create, Present
<1> QED BY <1>4, <1>5, <1>7, <1>9, <1>10, <1>11, <1>8 DEF IInv

\* vmm_destroy_user_space keeps the invariant.
LEMMA DestroyStep ==
  ASSUME IInv, NEW s \in Spaces, Destroy(s)
  PROVE  IInv' /\ NothingLost
<1>1. \A r \in Spaces, k \in Slots :
        frame'[r][k] = IF r = s THEN NoBlock ELSE frame[r][k]
  BY DEF Destroy, NoSlots, TypeOK, IInv
<1>2. Owned(s) \subseteq used
  BY ReferencedIsUsed DEF Owned
<1>3. Account({}, {}, Owned(s))
  BY DEF Destroy
<1>4. /\ used' \subseteq Blocks /\ refcount' \in [Blocks -> 0..MaxRef]
      /\ free_blocks' \in Nat /\ PmmRecordsAgree'
  BY <1>2, <1>3, AccountRecords, SMTT(30) DEF IInv
<1>5. TypeOK'
  BY <1>4 DEF TypeOK, IInv, NoSlots, NoFlags, Destroy
<1>6. NothingLost
  <2> SUFFICES ASSUME NEW c \in Blocks
               PROVE  Lost(c)' = Lost(c)
    BY DEF NothingLost
  <2>1. CASE c \in Owned(s)
    <3>1. PICK k \in Slots : c = frame[s][k]
      BY <2>1 DEF Owned
    <3>2. \A j \in Slots : frame[s][j] = c => j = k
      BY <3>1, BlocksAssumption DEF IInv, BlockMappedOnce
    <3>3. <<s, k>> \in Refs(c) /\ Refs(c)' = Refs(c) \ {<<s, k>>}
      BY <1>1, <3>1, <3>2, BlocksAssumption DEF Refs
    <3>4. refcount[c] >= 1 /\ refcount[c] \in Nat
      BY <3>1, ReferencedIsUsed, BlocksAssumption DEF IInv, TypeOK
    <3>5. refcount'[c] = refcount[c] - 1
      BY <1>3, <2>1, <3>4 DEF Account, CountAfter, Freed
    <3> QED BY <3>3, <3>5, LostDrops
  <2>2. CASE c \notin Owned(s)
    <3>1. c # NoBlock
      BY BlocksAssumption
    <3>2. \A k \in Slots : frame[s][k] # c
      BY <2>2, <3>1 DEF Owned
    <3>3. Refs(c)' = Refs(c)
      BY <1>1, <3>1, <3>2 DEF Refs
    <3>4. refcount'[c] = refcount[c]
      BY <1>3, <2>2 DEF Account, CountAfter, Freed, IInv, TypeOK
    <3> QED BY <3>3, <3>4, LostSame
  <2> QED BY <2>1, <2>2
<1>7. RefsCounted'
  BY <1>4, <1>6, LostCounted DEF NothingLost, RefsCounted
<1>8. /\ writable' = [writable EXCEPT ![s] = NoFlags]
      /\ cow' = [cow EXCEPT ![s] = NoFlags]
  BY DEF Destroy
<1>9. WritableIsExclusive'
  <2>1. \A r \in Spaces, p \in Pages : writable'[r][p] => r # s /\ writable[r][p]
    BY <1>8 DEF NoFlags, IInv, TypeOK
  <2> QED BY <1>1, <2>1, SlotFacts, ExclusiveBefore, ExclusiveAfter
<1>10. BlockMappedOnce'
  BY <1>1, SlotFacts DEF IInv, BlockMappedOnce
<1>11. AbsentIsEmpty'
  <2>1. \A r \in Spaces : ~Exists(r)' => frame'[r] = NoSlots
    BY <1>1, SlotFacts DEF Destroy, Exists, IInv, AbsentIsEmpty, TypeOK
  <2>2. \A r \in Spaces, p \in Pages : ~Present(r, p)' => ~writable'[r][p] /\ ~cow'[r][p]
    BY <1>1, <1>8, SlotFacts DEF NoFlags, Present, IInv, AbsentIsEmpty, TypeOK
  <2> QED BY <2>1, <2>2 DEF AbsentIsEmpty
<1> QED BY <1>4, <1>5, <1>6, <1>9, <1>10, <1>11, <1>7 DEF IInv

\* vmm_copy_p4 keeps the invariant: each block of the source gains the one
\* reference it was retained for, and no entry of either side stays writable.
LEMMA CopyStep ==
  ASSUME IInv, NEW src \in Spaces, NEW dst \in Spaces, Copy(src, dst)
  PROVE  IInv' /\ NothingLost
<1>1. PICK b \in Free, t \in Free \cup {NoBlock} :
        /\ IF frame[src][Table] = NoBlock THEN t = NoBlock ELSE t \in Free \ {b}
        /\ Account({b, t} \ {NoBlock}, Mapped(src), {})
        /\ frame' = [frame EXCEPT ![dst] =
                       [frame[src] EXCEPT ![Root] = b, ![Table] = t]]
  BY Zenon DEF Copy
<1>2. /\ b \in Blocks /\ b # NoBlock /\ t # b /\ t \in Blocks \cup {NoBlock}
      /\ \A r \in Spaces, k \in Slots : frame[r][k] # b
      /\ t # NoBlock => \A r \in Spaces, k \in Slots : frame[r][k] # t
  BY <1>1, FreeIsUnreferenced, BlocksAssumption
<1>3. src # dst /\ frame[dst] = NoSlots
  BY DEF Copy, IInv, AbsentIsEmpty
<1>4. Mapped(src) \subseteq used
  BY ReferencedIsUsed, SlotFacts DEF Mapped
<1>5. \A c \in Mapped(src) : refcount[c] < MaxRef
  <2> SUFFICES ASSUME NEW c \in Mapped(src)
               PROVE  refcount[c] < MaxRef
    OBVIOUS
  <2>1. PICK p \in Pages : c = frame[src][p] /\ c # NoBlock
    BY DEF Mapped
  <2>2. refcount[c] # MaxRef
    BY <2>1 DEF Copy, Saturated, Present
  <2>3. refcount[c] \in 0..MaxRef
    BY <1>4 DEF IInv, TypeOK
  <2> QED BY <2>2, <2>3, MaxRefAssumption
<1>6. /\ used' \subseteq Blocks /\ refcount' \in [Blocks -> 0..MaxRef]
      /\ free_blocks' \in Nat /\ PmmRecordsAgree'
  <2> DEFINE fresh == {b, t} \ {NoBlock}
  <2>1. fresh \in SUBSET Free /\ Account(fresh, Mapped(src), {})
    BY <1>1
  <2>2. /\ Mapped(src) \in SUBSET used /\ {} \in SUBSET used
        /\ Mapped(src) \cap {} = {}
    BY <1>4
  <2>3. TypeOK /\ PmmRecordsAgree
    BY DEF IInv
  <2> HIDE DEF fresh
  <2> QED BY <1>5, <2>1, <2>2, <2>3, AccountRecords, Zenon
<1>7. /\ \A r \in Spaces, k \in Slots :
           frame'[r][k] = IF r # dst THEN frame[r][k]
                          ELSE IF k = Root THEN b
                          ELSE IF k = Table THEN t ELSE frame[src][k]
      /\ \A k \in Slots : frame[dst][k] = NoBlock
  BY <1>1, <1>3, SlotFacts DEF NoSlots, TypeOK, IInv
<1>8. /\ cow' = [cow EXCEPT ![src] = MarkedCow(src, Pages),
                            ![dst] = MarkedCow(src, Pages)]
      /\ writable' = [writable EXCEPT ![src] = NoFlags, ![dst] = NoFlags]
      /\ data' = data
  BY DEF Copy
<1>9. TypeOK'
  <2>1. frame' \in [Spaces -> [Slots -> Blocks \cup {NoBlock}]]
    BY <1>1, <1>2, Zenon DEF TypeOK, IInv
  <2>2. MarkedCow(src, Pages) \in [Pages -> BOOLEAN] /\ NoFlags \in [Pages -> BOOLEAN]
    BY DEF MarkedCow, NoFlags
  <2>3. cow' \in [Spaces -> [Pages -> BOOLEAN]] /\ writable' \in [Spaces -> [Pages -> BOOLEAN]]
    BY <1>8, <2>2, Zenon DEF TypeOK, IInv
  <2> QED BY <1>6, <1>8, <2>1, <2>3, Zenon DEF TypeOK, IInv
<1>10. NothingLost
  <2> SUFFICES ASSUME NEW c \in Blocks
               PROVE  Lost(c)' = Lost(c)
    BY DEF NothingLost
  <2>1. CASE c = b
    <3>1. Refs(c)' = {<<dst, Root>>}
      BY <1>2, <1>7, <2>1, SlotFacts DEF Refs
    <3>2. refcount'[c] = 1
      BY <1>1, <1>2, <2>1 DEF Account, CountAfter, Freed
    <3> QED BY <2>1, <3>1, <3>2, LostFresh, Zenon
  <2>2. CASE c = t
    <3>1. c # NoBlock
      BY BlocksAssumption
    <3>2. Refs(c)' = {<<dst, Table>>}
      BY <1>2, <1>7, <2>2, <3>1, SlotFacts DEF Refs
    <3>3. refcount'[c] = 1 /\ c \in Free
      BY <1>1, <2>2, <3>1 DEF Account, CountAfter, Freed
    <3> QED BY <3>2, <3>3, LostFresh, Zenon
  <2>3. CASE c # b /\ c # t /\ c \in Mapped(src)
    <3>1. PICK p \in Pages : c = frame[src][p]
      BY <2>3 DEF Mapped
    <3>2. \A j \in Slots : frame[src][j] = c => j = p
      BY <3>1, SlotFacts, BlocksAssumption DEF IInv, BlockMappedOnce
    <3>3. <<dst, p>> \notin Refs(c) /\ Refs(c)' = Refs(c) \cup {<<dst, p>>}
      BY <1>7, <2>3, <3>1, <3>2, SlotFacts, BlocksAssumption DEF Refs
    <3>4. refcount'[c] = refcount[c] + 1
      BY <1>1, <2>3 DEF Account, CountAfter, Freed, IInv, TypeOK
    <3> QED BY <3>3, <3>4, LostGains
  <2>4. CASE c # b /\ c # t /\ c \notin Mapped(src)
    <3>1. c # NoBlock
      BY BlocksAssumption
    <3>2. \A p \in Pages : frame[src][p] # c
      BY <2>4, <3>1 DEF Mapped
    <3>3. Refs(c)' = Refs(c)
      BY <1>7, <2>4, <3>1, <3>2 DEF Refs, Slots
    <3>4. refcount'[c] = refcount[c]
      BY <1>1, <2>4 DEF Account, CountAfter, Freed, IInv, TypeOK
    <3> QED BY <3>3, <3>4, LostSame
  <2> QED BY <2>1, <2>2, <2>3, <2>4
<1>11. RefsCounted'
  BY <1>6, <1>10, LostCounted DEF NothingLost, RefsCounted
<1>12. WritableIsExclusive'
  <2> SUFFICES ASSUME NEW r \in Spaces, NEW p \in Pages, writable'[r][p]
               PROVE  /\ frame'[r][p] # NoBlock
                      /\ \A q \in Spaces, j \in Slots :
                           frame'[q][j] = frame'[r][p] => q = r /\ j = p
    BY ExclusiveAfter
  <2>1. r # src /\ r # dst /\ writable[r][p]
    BY <1>8 DEF NoFlags, IInv, TypeOK
  <2>2. /\ frame[r][p] # NoBlock
        /\ \A q \in Spaces, j \in Slots : frame[q][j] = frame[r][p] => q = r /\ j = p
    BY <2>1, ExclusiveBefore
  <2>3. frame'[r][p] = frame[r][p]
    BY <1>7, <2>1, SlotFacts
  <2> QED BY <1>2, <1>7, <2>1, <2>2, <2>3, SlotFacts
<1>13. BlockMappedOnce'
  <2>1. ASSUME NEW s \in Spaces, NEW j \in Slots, NEW k \in Slots,
               frame'[s][j] = frame'[s][k], frame'[s][j] # NoBlock
        PROVE  j = k
    BY <1>2, <1>7, <2>1 DEF IInv, BlockMappedOnce
  <2>2. ASSUME NEW s \in Spaces, NEW r \in Spaces,
               NEW j \in {Root, Table}, NEW k \in Slots,
               frame'[s][j] = frame'[r][k], frame'[s][j] # NoBlock
        PROVE  s = r /\ j = k
    <3>1. j \in Slots
      BY SlotFacts
    <3>2. CASE s = r
      BY <2>1, <2>2, <3>1, <3>2
    <3>3. CASE s # r /\ s = dst
      BY <1>2, <1>7, <2>2, <3>1, <3>3
    <3>4. CASE s # r /\ r = dst
      <4>1. frame'[s][j] = frame[s][j]
        BY <1>7, <3>1, <3>4
      <4>2. k # Root /\ k # Table
        BY <1>2, <1>7, <2>2, <3>1, <3>4, <4>1
      <4>3. frame[s][j] = frame[src][k] /\ frame[s][j] # NoBlock
        BY <1>7, <2>2, <3>4, <4>1, <4>2
      <4>4. j = k
        BY <4>3 DEF IInv, BlockMappedOnce
      <4> QED BY <4>2, <4>4
    <3>5. CASE s # r /\ s # dst /\ r # dst
      BY <1>7, <2>2, <3>1, <3>5 DEF IInv, BlockMappedOnce
    <3> QED BY <3>2, <3>3, <3>4, <3>5
  <2> QED BY <2>1, <2>2 DEF BlockMappedOnce
<1>14. AbsentIsEmpty'
  <2>1. \A r \in Spaces : ~Exists(r)' => frame'[r] = NoSlots
    <3> SUFFICES ASSUME NEW r \in Spaces, ~Exists(r)'
                 PROVE  frame'[r] = NoSlots
      OBVIOUS
    <3>1. r # dst
      BY <1>2, <1>7, SlotFacts DEF Exists
    <3>2. frame'[r] = frame[r]
      BY <1>1, <3>1 DEF IInv, TypeOK
    <3> QED BY <3>2 DEF Exists, IInv, AbsentIsEmpty
  <2>2. ASSUME NEW r \in Spaces, NEW p \in Pages, ~Present(r, p)'
        PROVE  ~writable'[r][p] /\ ~cow'[r][p]
    <3>1. frame'[r][p] = NoBlock
      BY <2>2 DEF Present
    <3>2. /\ r = dst => ~Present(src, p)
          /\ r # dst => ~Present(r, p)
      BY <1>7, <3>1, SlotFacts DEF Present
    <3>3. \A q \in Spaces : ~Present(q, p) => ~writable[q][p] /\ ~cow[q][p]
      BY DEF IInv, AbsentIsEmpty
    <3>4. ~Present(src, p) => ~MarkedCow(src, Pages)[p]
      BY <3>3, Zenon DEF MarkedCow
    <3>5. CASE r = dst \/ r = src
      <4>1. writable'[r] = NoFlags /\ cow'[r] = MarkedCow(src, Pages)
        BY <1>8, <3>5 DEF IInv, TypeOK
      <4>2. ~Present(src, p)
        BY <1>3, <3>2, <3>5
      <4> QED BY <3>4, <4>1, <4>2 DEF NoFlags
    <3>6. CASE r # dst /\ r # src
      <4>1. writable'[r] = writable[r] /\ cow'[r] = cow[r]
        BY <1>8, <3>6 DEF IInv, TypeOK
      <4> QED BY <3>2, <3>3, <3>6, <4>1
    <3> QED BY <3>5, <3>6
  <2> QED BY <2>1, <2>2 DEF AbsentIsEmpty
<1> QED BY <1>11, <1>6, <1>9, <1>10, <1>12, <1>13, <1>14 DEF IInv

\* A vmm_copy_p4 that fails only takes write permission away from the source.
LEMMA CopyFailsStep ==
  ASSUME IInv, NEW src \in Spaces, NEW dst \in Spaces, CopyFails(src, dst)
  PROVE  IInv' /\ NothingLost
<1>1. PICK S \in SUBSET {q \in Pages : Present(src, q)} :
        /\ cow' = [cow EXCEPT ![src] = MarkedCow(src, S)]
        /\ writable' = [writable EXCEPT ![src] = MarkedReadOnly(src, S)]
  BY Zenon DEF CopyFails
<1>2. UNCHANGED <<used, refcount, free_blocks, frame, data>>
  BY DEF CopyFails
<1>3. /\ MarkedCow(src, S) \in [Pages -> BOOLEAN]
      /\ MarkedReadOnly(src, S) \in [Pages -> BOOLEAN]
  BY DEF MarkedCow, MarkedReadOnly
<1>4. TypeOK'
  BY <1>1, <1>2, <1>3 DEF IInv, TypeOK
<1>5. \A r \in Spaces, p \in Pages : writable'[r][p] => writable[r][p]
  BY <1>1 DEF MarkedReadOnly, IInv, TypeOK
<1>6. \A r \in Spaces, p \in Pages :
        ~Present(r, p)' => ~writable'[r][p] /\ ~cow'[r][p]
  BY <1>1, <1>2, <1>5 DEF MarkedCow, Present, IInv, AbsentIsEmpty, TypeOK
<1>7. WritableIsExclusive'
  BY <1>2, <1>5 DEF IInv, WritableIsExclusive, Present, Refs
<1>8. RefsCounted' /\ BlockMappedOnce' /\ PmmRecordsAgree'
  BY <1>2, SMTT(30) DEF IInv, RefsCounted, Refs, BlockMappedOnce, PmmRecordsAgree
<1>9. AbsentIsEmpty'
  BY <1>2, <1>6 DEF IInv, AbsentIsEmpty, Exists
<1>10. NothingLost
  BY <1>2 DEF NothingLost, Lost, Refs
<1> QED BY <1>4, <1>7, <1>8, <1>9, <1>10 DEF IInv

\* A block that vmm_map_page loses stays counted and unreferenced.
LEMMA MapPageNoTableStep ==
  ASSUME IInv, NEW s \in Spaces, MapPageNoTable(s)
  PROVE  IInv'
<1>1. PICK b \in Free : Account({b}, {}, {})
  BY DEF MapPageNoTable
<1>2. UNCHANGED <<frame, writable, cow, data>>
  BY DEF MapPageNoTable
<1>3. /\ used' \subseteq Blocks /\ refcount' \in [Blocks -> 0..MaxRef]
      /\ free_blocks' \in Nat /\ PmmRecordsAgree'
  BY <1>1, AccountRecords, SMTT(30) DEF IInv
<1>4. RefsCounted'
  <2> SUFFICES ASSUME NEW c \in Blocks
               PROVE  Cardinality(Refs(c)') <= refcount'[c]
    BY DEF RefsCounted
  <2>1. Refs(c)' = Refs(c)
    BY <1>2 DEF Refs
  <2>2. CASE c = b
    <3>1. Refs(c)' = {}
      BY <1>1, <2>1, <2>2, FreeIsUnreferenced DEF Refs
    <3>2. refcount'[c] = 1
      BY <1>1, <2>2 DEF Account, CountAfter, Freed
    <3> QED BY <3>1, <3>2, FS_EmptySet
  <2>3. CASE c # b
    <3>1. refcount'[c] = refcount[c]
      BY <1>1, <2>3, SMTT(30) DEF Account, CountAfter, Freed, IInv, TypeOK
    <3> QED BY <2>1, <3>1, CountKept
  <2> QED BY <2>2, <2>3
<1>5. TypeOK' /\ WritableIsExclusive' /\ BlockMappedOnce' /\ AbsentIsEmpty'
  BY <1>2, <1>3 DEF IInv, TypeOK, WritableIsExclusive, BlockMappedOnce, AbsentIsEmpty,
     Refs, Present, Exists
<1> QED BY <1>3, <1>4, <1>5 DEF IInv

\* vmm_unmap_page with pmm_free_block keeps the invariant.
LEMMA UnmapStep ==
  ASSUME IInv, NEW s \in Spaces, NEW p \in Pages, Unmap(s, p)
  PROVE  IInv' /\ NothingLost
<1> DEFINE old == frame[s][p]
<1>1. /\ Account({}, {}, {old})
      /\ frame' = [frame EXCEPT ![s][p] = NoBlock]
      /\ writable' = [writable EXCEPT ![s][p] = FALSE]
      /\ cow' = [cow EXCEPT ![s][p] = FALSE]
      /\ data' = data
      /\ old # NoBlock
  BY DEF Unmap, Present
<1>2. old \in used /\ old \in Blocks /\ refcount[old] >= 1 /\ refcount[old] \in Nat
  BY <1>1, ReferencedIsUsed, SlotFacts DEF IInv, TypeOK
<1>3. /\ used' \subseteq Blocks /\ refcount' \in [Blocks -> 0..MaxRef]
      /\ free_blocks' \in Nat /\ PmmRecordsAgree'
  BY <1>1, <1>2, AccountRecords, SMTT(30) DEF IInv
<1>4. \A r \in Spaces, k \in Slots :
        frame'[r][k] = IF r = s /\ k = p THEN NoBlock ELSE frame[r][k]
  BY <1>1, SlotFacts DEF IInv, TypeOK
<1>5. TypeOK'
  BY <1>1, <1>3, SlotFacts DEF IInv, TypeOK
<1>6. NothingLost
  <2> SUFFICES ASSUME NEW c \in Blocks
               PROVE  Lost(c)' = Lost(c)
    BY DEF NothingLost
  <2>1. CASE c = old
    <3>1. <<s, p>> \in Refs(c) /\ Refs(c)' = Refs(c) \ {<<s, p>>}
      BY <1>1, <1>4, <2>1, SlotFacts DEF Refs
    <3>2. refcount'[c] = refcount[c] - 1
      BY <1>1, <1>2, <2>1 DEF Account, CountAfter, Freed
    <3> QED BY <3>1, <3>2, LostDrops
  <2>2. CASE c # old
    <3>1. Refs(c)' = Refs(c)
      BY <1>4, <2>2, BlocksAssumption DEF Refs
    <3>2. refcount'[c] = refcount[c]
      BY <1>1, <2>2 DEF Account, CountAfter, Freed, IInv, TypeOK
    <3> QED BY <3>1, <3>2, LostSame
  <2> QED BY <2>1, <2>2
<1>7. RefsCounted'
  BY <1>3, <1>6, LostCounted DEF NothingLost, RefsCounted
<1>8. WritableIsExclusive'
  <2>1. \A r \in Spaces, q \in Pages :
          writable'[r][q] => writable[r][q] /\ ~(r = s /\ q = p)
    BY <1>1 DEF IInv, TypeOK
  <2> QED BY <1>4, <2>1, SlotFacts, ExclusiveBefore, ExclusiveAfter
<1>9. BlockMappedOnce'
  BY <1>4, SlotFacts DEF IInv, BlockMappedOnce
<1>10. AbsentIsEmpty'
  <2>1. ASSUME NEW r \in Spaces, ~Exists(r)'
        PROVE  frame'[r] = NoSlots
    <3>1. ~Exists(r)
      BY <1>4, <2>1, SlotFacts DEF Exists
    <3>2. r # s
      BY <1>1, <3>1, SlotFacts DEF IInv, AbsentIsEmpty, NoSlots
    <3>3. frame'[r] = frame[r]
      BY <1>1, <3>2 DEF IInv, TypeOK
    <3> QED BY <3>1, <3>3 DEF IInv, AbsentIsEmpty
  <2>2. \A r \in Spaces, q \in Pages : ~Present(r, q)' => ~writable'[r][q] /\ ~cow'[r][q]
    BY <1>1, <1>4, SlotFacts DEF Present, IInv, AbsentIsEmpty, TypeOK
  <2> QED BY <2>1, <2>2 DEF AbsentIsEmpty
<1> QED BY <1>3, <1>5, <1>6, <1>8, <1>9, <1>10, <1>7 DEF IInv

\* vmm_map_page keeps the invariant, also over an entry that was present.
LEMMA MapPageStep ==
  ASSUME IInv, NEW s \in Spaces, NEW p \in Pages, NEW w \in BOOLEAN, NEW v \in Values,
         MapPage(s, p, w, v)
  PROVE  IInv' /\ (Present(s, p) \/ NothingLost)
<1>1. PICK b \in Free, t \in Blocks :
        /\ IF frame[s][Table] = NoBlock THEN t \in Free \ {b}
                                        ELSE t = frame[s][Table]
        /\ Account({b, t} \ used, {}, {})
        /\ frame' = [frame EXCEPT ![s][p] = b, ![s][Table] = t]
        /\ data' = [data EXCEPT ![b] = v]
  BY Zenon DEF MapPage
<1>2. /\ b \in Blocks /\ b # NoBlock /\ t # NoBlock /\ t # b
      /\ \A r \in Spaces, k \in Slots : frame[r][k] # b
      /\ \A r \in Spaces, k \in Slots : frame[r][k] = t => r = s /\ k = Table
      /\ frame[s][Table] # NoBlock => t \in used
  <2>1. b \in Blocks /\ \A r \in Spaces, k \in Slots : frame[r][k] # b
    BY FreeIsUnreferenced
  <2>2. CASE frame[s][Table] = NoBlock
    <3>1. t \in Free \ {b}
      BY <1>1, <2>2, SMTT(30)
    <3>2. \A r \in Spaces, k \in Slots : frame[r][k] # t
      BY <3>1, FreeIsUnreferenced
    <3> QED BY <2>1, <2>2, <3>1, <3>2, BlocksAssumption
  <2>3. CASE frame[s][Table] # NoBlock
    <3>1. t = frame[s][Table]
      BY <1>1, <2>3, SMTT(30)
    <3>2. t \in used
      BY <2>3, <3>1, SlotFacts, ReferencedIsUsed
    <3>3. \A r \in Spaces, k \in Slots : frame[r][k] = t => r = s /\ k = Table
      BY <2>3, <3>1 DEF IInv, BlockMappedOnce
    <3> QED BY <2>1, <2>3, <3>1, <3>2, <3>3, SlotFacts, BlocksAssumption
  <2> QED BY <2>2, <2>3
<1>3. /\ used' \subseteq Blocks /\ refcount' \in [Blocks -> 0..MaxRef]
      /\ free_blocks' \in Nat /\ PmmRecordsAgree'
  <2>1. {b, t} \ used \in SUBSET Free
    BY DEF Free
  <2> QED BY <1>1, <2>1, AccountRecords, SMTT(30) DEF IInv
<1>4. \A r \in Spaces, k \in Slots :
        frame'[r][k] = IF r = s /\ k = p THEN b
                       ELSE IF r = s /\ k = Table THEN t ELSE frame[r][k]
  BY <1>1, SlotFacts DEF IInv, TypeOK
<1>5. /\ writable' = [writable EXCEPT ![s][p] = w]
      /\ cow' = [cow EXCEPT ![s][p] = FALSE]
  BY DEF MapPage
<1>6. TypeOK'
  BY <1>1, <1>2, <1>3, <1>5, SlotFacts, Zenon DEF IInv, TypeOK
<1>7. RefsCounted' /\ (Present(s, p) \/ NothingLost)
  <2> SUFFICES ASSUME NEW c \in Blocks
               PROVE  /\ Cardinality(Refs(c)') <= refcount'[c]
                      /\ Present(s, p) \/ Lost(c)' = Lost(c)
    BY DEF RefsCounted, NothingLost
  <2>1. CASE c = b
    <3>1. Refs(c)' = {<<s, p>>}
      BY <1>2, <1>4, <2>1, SlotFacts DEF Refs
    <3>2. refcount'[c] = 1
      BY <1>1, <2>1 DEF Account, CountAfter, Freed, Free
    <3>3. Lost(c)' = Lost(c)
      BY <2>1, <3>1, <3>2, LostFresh, Zenon
    <3> QED BY <1>3, <3>3, LostCounted, Zenon
  <2>2. CASE c = t /\ t \notin used
    <3>1. Refs(c)' = {<<s, Table>>}
      BY <1>2, <1>4, <2>2, SlotFacts DEF Refs
    <3>2. refcount'[c] = 1
      BY <1>1, <2>2 DEF Account, CountAfter, Freed
    <3>3. c \in Free
      BY <2>2 DEF Free
    <3>4. Lost(c)' = Lost(c)
      BY <3>1, <3>2, <3>3, LostFresh, Zenon
    <3> QED BY <1>3, <3>4, LostCounted, Zenon
  <2>3. CASE c # b /\ ~(c = t /\ t \notin used)
    <3>1. Refs(c)' \subseteq Refs(c)
      <4>1. CASE c = t
        <5>1. frame[s][Table] = t
          BY <1>1, <2>3, <4>1 DEF Free
        <5> QED BY <1>4, <2>3, <5>1 DEF Refs
      <4>2. CASE c # t
        BY <1>4, <2>3, <4>2 DEF Refs
      <4> QED BY <4>1, <4>2
    <3>2. refcount'[c] = refcount[c]
      BY <1>1, <2>3, SMTT(30) DEF Account, CountAfter, Freed, IInv, TypeOK
    <3>3. Cardinality(Refs(c)') <= refcount'[c]
      BY <3>1, <3>2, CountKept
    <3>4. ASSUME ~Present(s, p) PROVE Lost(c)' = Lost(c)
      <4>1. frame[s][p] = NoBlock /\ c # NoBlock
        BY <3>4, BlocksAssumption DEF Present
      <4>2. frame[s][Table] = NoBlock \/ frame[s][Table] = t
        BY <1>1
      <4>3. c = t => frame[s][Table] = t
        BY <1>1, <2>3, <4>2 DEF Free
      <4>4. Refs(c)' = Refs(c)
        BY <1>4, <2>3, <4>1, <4>2, <4>3, SlotFacts DEF Refs
      <4> QED BY <3>2, <4>4, LostSame, Zenon
    <3> QED BY <3>3, <3>4
  <2> QED BY <2>1, <2>2, <2>3
<1>8. WritableIsExclusive'
  <2> SUFFICES ASSUME NEW r \in Spaces, NEW q \in Pages, writable'[r][q]
               PROVE  /\ frame'[r][q] # NoBlock
                      /\ \A x \in Spaces, j \in Slots :
                           frame'[x][j] = frame'[r][q] => x = r /\ j = q
    BY ExclusiveAfter, SMTT(30)
  <2>1. CASE r = s /\ q = p
    BY <1>2, <1>4, <2>1, SlotFacts
  <2>2. CASE ~(r = s /\ q = p)
    <3>1. writable[r][q]
      BY <1>5, <2>2 DEF IInv, TypeOK
    <3>2. /\ frame[r][q] # NoBlock
          /\ \A x \in Spaces, j \in Slots : frame[x][j] = frame[r][q] => x = r /\ j = q
      BY <3>1, ExclusiveBefore, SMTT(30)
    <3>3. frame'[r][q] = frame[r][q] /\ frame[r][q] # b /\ frame[r][q] # t
      BY <1>2, <1>4, <2>2, SlotFacts
    <3> QED BY <1>4, <3>2, <3>3
  <2> QED BY <2>1, <2>2, SMTT(30)
<1>9. BlockMappedOnce'
  <2>1. ASSUME NEW r \in Spaces, NEW j \in Slots, NEW k \in Slots,
               frame'[r][j] = frame'[r][k], frame'[r][j] # NoBlock
        PROVE  j = k
    BY <1>2, <1>4, <2>1 DEF IInv, BlockMappedOnce
  <2>2. ASSUME NEW x \in Spaces, NEW r \in Spaces,
               NEW j \in {Root, Table}, NEW k \in Slots,
               frame'[x][j] = frame'[r][k], frame'[x][j] # NoBlock
        PROVE  x = r /\ j = k
    <3>1. j \in Slots /\ j # p
      BY SlotFacts
    <3>2. CASE x = r
      BY <2>1, <2>2, <3>1, <3>2, SMTT(30)
    <3>3. CASE x # r
      BY <1>2, <1>4, <2>2, <3>1, <3>3, SMTT(30) DEF IInv, BlockMappedOnce
    <3> QED BY <3>2, <3>3
  <2> QED BY <2>1, <2>2, SMTT(30) DEF BlockMappedOnce
<1>10. AbsentIsEmpty'
  <2>1. ASSUME NEW r \in Spaces, ~Exists(r)'
        PROVE  frame'[r] = NoSlots
    <3>1. ~Exists(r)
      BY <1>4, <2>1, SlotFacts DEF Exists
    <3>2. r # s
      BY <3>1 DEF MapPage
    <3>3. frame'[r] = frame[r]
      BY <1>1, <3>2, SMTT(30) DEF IInv, TypeOK
    <3> QED BY <3>1, <3>3, SMTT(30) DEF IInv, AbsentIsEmpty
  <2>2. \A r \in Spaces, q \in Pages : ~Present(r, q)' => ~writable'[r][q] /\ ~cow'[r][q]
    BY <1>2, <1>4, <1>5, SlotFacts DEF Present, IInv, AbsentIsEmpty, TypeOK
  <2> QED BY <2>1, <2>2 DEF AbsentIsEmpty
<1> QED BY <1>3, <1>6, <1>7, <1>8, <1>9, <1>10 DEF IInv

\* Giving an entry a block of its own keeps the invariant, if an entry that
\* becomes writable in place had a block with a count of one.
LEMMA PrivatiseStep ==
  ASSUME IInv, NEW s \in Spaces, NEW p \in Pages, Present(s, p),
         NEW shared \in BOOLEAN, NEW v \in Values, NEW w \in BOOLEAN, NEW c0 \in BOOLEAN,
         Privatise(s, p, shared, v),
         w /\ ~shared => refcount[frame[s][p]] <= 1,
         writable' = [writable EXCEPT ![s][p] = w],
         cow' = [cow EXCEPT ![s][p] = c0]
  PROVE  IInv' /\ NothingLost
<1> DEFINE old == frame[s][p]
<1>1. /\ old # NoBlock /\ old \in used /\ old \in Blocks
      /\ refcount[old] >= 1 /\ refcount[old] \in Nat
  BY ReferencedIsUsed, SlotFacts DEF IInv, TypeOK, Present
<1>2. CASE shared
  <2>1. PICK n \in Free : /\ Account({n}, {}, {old})
                          /\ frame' = [frame EXCEPT ![s][p] = n]
                          /\ data' = [data EXCEPT ![n] = v]
    BY <1>2, Zenon DEF Privatise
  <2>2. /\ n \in Blocks /\ n # NoBlock /\ n # old
        /\ \A r \in Spaces, k \in Slots : frame[r][k] # n
    BY FreeIsUnreferenced, BlocksAssumption, SlotFacts
  <2>3. /\ used' \subseteq Blocks /\ refcount' \in [Blocks -> 0..MaxRef]
        /\ free_blocks' \in Nat /\ PmmRecordsAgree'
    BY <1>1, <2>1, AccountRecords, SMTT(30) DEF IInv
  <2>4. \A r \in Spaces, k \in Slots :
          frame'[r][k] = IF r = s /\ k = p THEN n ELSE frame[r][k]
    BY <2>1, SlotFacts DEF IInv, TypeOK
  <2>5. TypeOK'
    BY <2>1, <2>2, <2>3, SlotFacts, Zenon DEF IInv, TypeOK
  <2>6. NothingLost
    <3> SUFFICES ASSUME NEW c \in Blocks
                 PROVE  Lost(c)' = Lost(c)
      BY DEF NothingLost
    <3>1. CASE c = n
      <4>1. Refs(c)' = {<<s, p>>}
        BY <2>2, <2>4, <3>1, SlotFacts DEF Refs
      <4>2. refcount'[c] = 1
        BY <2>1, <3>1 DEF Account, CountAfter, Freed
      <4> QED BY <3>1, <4>1, <4>2, LostFresh, Zenon
    <3>2. CASE c = old
      <4>1. <<s, p>> \in Refs(c) /\ Refs(c)' = Refs(c) \ {<<s, p>>}
        BY <2>2, <2>4, <3>2, SlotFacts, SMTT(30) DEF Refs
      <4>2. refcount'[c] = refcount[c] - 1
        BY <1>1, <2>1, <2>2, <3>2 DEF Account, CountAfter, Freed
      <4> QED BY <4>1, <4>2, LostDrops
    <3>3. CASE c # n /\ c # old
      <4>1. Refs(c)' = Refs(c)
        BY <2>4, <3>3, SMTT(30) DEF Refs
      <4>2. refcount'[c] = refcount[c]
        BY <2>1, <3>3 DEF Account, CountAfter, Freed, IInv, TypeOK
      <4> QED BY <4>1, <4>2, LostSame
    <3> QED BY <3>1, <3>2, <3>3
  <2>7. RefsCounted'
    BY <2>3, <2>6, LostCounted DEF NothingLost, RefsCounted
  <2>8. WritableIsExclusive'
    <3>1. \A r \in Spaces, q \in Pages :
            writable'[r][q] => writable[r][q] \/ (r = s /\ q = p)
      BY DEF IInv, TypeOK
    <3> QED BY <2>2, <2>4, <3>1, SlotFacts, ExclusiveBefore, ExclusiveAfter
  <2>9. BlockMappedOnce'
    BY <2>2, <2>4, SlotFacts DEF IInv, BlockMappedOnce
  <2>10. AbsentIsEmpty'
    <3>1. ASSUME NEW r \in Spaces, ~Exists(r)'
          PROVE  frame'[r] = NoSlots
      <4>1. ~Exists(r)
        BY <2>4, <3>1, SlotFacts DEF Exists
      <4>2. r # s
        BY <1>1, <4>1, SlotFacts DEF IInv, AbsentIsEmpty, NoSlots
      <4>3. frame'[r] = frame[r]
        BY <2>1, <4>2, SMTT(30) DEF IInv, TypeOK
      <4> QED BY <4>1, <4>3 DEF IInv, AbsentIsEmpty
    <3>2. \A r \in Spaces, q \in Pages :
            ~Present(r, q)' => ~writable'[r][q] /\ ~cow'[r][q]
      BY <2>2, <2>4, SlotFacts DEF Present, IInv, AbsentIsEmpty, TypeOK
    <3> QED BY <3>1, <3>2 DEF AbsentIsEmpty
  <2> QED BY <2>3, <2>5, <2>6, <2>8, <2>9, <2>10, <2>7 DEF IInv
<1>3. CASE ~shared
  <2>1. /\ data' = [data EXCEPT ![old] = v]
        /\ UNCHANGED <<used, refcount, free_blocks, frame>>
    BY <1>3 DEF Privatise
  <2>2. TypeOK'
    BY <2>1, Zenon DEF IInv, TypeOK
  <2>3. WritableIsExclusive'
    <3>1. ASSUME w PROVE Refs(old) = {<<s, p>>}
      BY <1>1, <1>3, <3>1, SlotFacts, CountOneIsExclusive
    <3>2. \A r \in Spaces, q \in Pages :
            writable'[r][q] => writable[r][q] \/ (r = s /\ q = p /\ w)
      BY SMTT(30) DEF IInv, TypeOK
    <3> QED BY <2>1, <3>1, <3>2 DEF IInv, WritableIsExclusive, Refs, Present
  <2>4. RefsCounted' /\ BlockMappedOnce' /\ PmmRecordsAgree'
    BY <2>1 DEF IInv, RefsCounted, Refs, BlockMappedOnce, PmmRecordsAgree
  <2>5. AbsentIsEmpty'
    BY <1>1, <2>1 DEF IInv, AbsentIsEmpty, Exists, Present, TypeOK
  <2>6. NothingLost
    BY <2>1 DEF NothingLost, Lost, Refs
  <2> QED BY <2>2, <2>3, <2>4, <2>5, <2>6 DEF IInv
<1> QED BY <1>2, <1>3

\* A resolved copy-on-write fault keeps the invariant.
LEMMA ResolveCowStep ==
  ASSUME IInv, NEW s \in Spaces, NEW p \in Pages, NEW v \in Values, ResolveCow(s, p, v)
  PROVE  IInv' /\ NothingLost
<1>1. frame[s][p] \in Blocks /\ refcount[frame[s][p]] \in Nat
  BY SlotFacts DEF ResolveCow, Present, IInv, TypeOK
<1> DEFINE shared == refcount[frame[s][p]] > 1
<1>2. /\ Present(s, p)
      /\ Privatise(s, p, shared, v)
      /\ writable' = [writable EXCEPT ![s][p] = TRUE]
      /\ cow' = [cow EXCEPT ![s][p] = FALSE]
  BY DEF ResolveCow, Shared
<1>3. shared \in BOOLEAN /\ (~shared => refcount[frame[s][p]] <= 1)
  BY <1>1
<1> HIDE DEF shared
<1> QED BY <1>2, <1>3, PrivatiseStep, Zenon

\* vmm_protect_page keeps the invariant.
LEMMA ProtectStep ==
  ASSUME IInv, NEW s \in Spaces, NEW p \in Pages, NEW w \in BOOLEAN, Protect(s, p, w)
  PROVE  IInv' /\ NothingLost
<1> DEFINE shared == w /\ (cow[s][p] \/ refcount[frame[s][p]] > 1)
<1>1. /\ frame[s][p] \in Blocks /\ refcount[frame[s][p]] \in Nat
      /\ data[frame[s][p]] \in Values
  BY SlotFacts DEF Protect, Present, IInv, TypeOK
<1>2. Privatise(s, p, shared, data[frame[s][p]])
  BY DEF Protect, MustCopy, Shared
<1>3. shared \in BOOLEAN /\ (~w /\ cow[s][p]) \in BOOLEAN
  OBVIOUS
<1>4. w /\ ~shared => refcount[frame[s][p]] <= 1
  BY <1>1
<1>5. /\ Present(s, p)
      /\ writable' = [writable EXCEPT ![s][p] = w]
      /\ cow' = [cow EXCEPT ![s][p] = ~w /\ cow[s][p]]
  BY SMTT(30) DEF Protect, MustCopy, Shared
<1> HIDE DEF shared
<1> QED BY <1>1, <1>2, <1>3, <1>4, <1>5, PrivatiseStep, Zenon

\* What one step may lose: a mapping over an entry that is present, or without a
\* table, leaves a block counted that nothing refers to.
MappingLoses ==
  \E s \in Spaces :
    \/ MapPageNoTable(s)
    \/ \E p \in Pages, w \in BOOLEAN, v \in Values : Present(s, p) /\ MapPage(s, p, w, v)

\* Every step keeps the invariant, and loses memory only by mapping.
LEMMA NextStep ==
  ASSUME IInv, [Next]_vars
  PROVE  IInv' /\ (NothingLost \/ MappingLoses)
<1>1. CASE UNCHANGED vars
  BY <1>1 DEF vars, IInv, TypeOK, RefsCounted, Refs, WritableIsExclusive, Present,
     BlockMappedOnce, PmmRecordsAgree, AbsentIsEmpty, Exists, NothingLost, Lost
<1>2. ASSUME NEW s \in Spaces, Create(s) \/ Destroy(s) \/ MapPageNoTable(s)
      PROVE  IInv' /\ (NothingLost \/ MappingLoses)
  BY <1>2, CreateStep, DestroyStep, MapPageNoTableStep, Zenon DEF MappingLoses
<1>3. ASSUME NEW src \in Spaces, NEW dst \in Spaces, Copy(src, dst) \/ CopyFails(src, dst)
      PROVE  IInv' /\ (NothingLost \/ MappingLoses)
  BY <1>3, CopyStep, CopyFailsStep
<1>4. ASSUME NEW s \in Spaces, NEW p \in Pages, Unmap(s, p)
      PROVE  IInv' /\ (NothingLost \/ MappingLoses)
  BY <1>4, UnmapStep
<1>5. ASSUME NEW s \in Spaces, NEW p \in Pages, CowFault(s, p)
      PROVE  IInv' /\ (NothingLost \/ MappingLoses)
  <2>1. data[frame[s][p]] \in Values
    BY <1>5, SlotFacts DEF CowFault, ResolveCow, Present, IInv, TypeOK
  <2> QED BY <1>5, <2>1, ResolveCowStep DEF CowFault
<1>6. ASSUME NEW s \in Spaces, NEW p \in Pages, NEW v \in Values, Write(s, p, v)
      PROVE  IInv' /\ (NothingLost \/ MappingLoses)
  <2>1. /\ UNCHANGED <<used, refcount, free_blocks, frame, writable, cow>>
        /\ data' = [data EXCEPT ![frame[s][p]] = v]
    BY <1>6 DEF Write
  <2>2. TypeOK'
    BY <2>1, Zenon DEF IInv, TypeOK
  <2>3. RefsCounted' /\ WritableIsExclusive'
    BY <2>1, SMTT(30) DEF IInv, RefsCounted, Refs, WritableIsExclusive, Present
  <2>4. BlockMappedOnce' /\ PmmRecordsAgree' /\ AbsentIsEmpty'
    BY <2>1 DEF IInv, BlockMappedOnce, PmmRecordsAgree, AbsentIsEmpty, Exists, Present
  <2>5. NothingLost
    BY <2>1 DEF NothingLost, Lost, Refs
  <2> QED BY <2>2, <2>3, <2>4, <2>5 DEF IInv
<1>7. ASSUME NEW s \in Spaces, NEW p \in Pages, NEW v \in Values, KernelWrite(s, p, v)
      PROVE  IInv' /\ (NothingLost \/ MappingLoses)
  BY <1>7, ResolveCowStep DEF KernelWrite
<1>8. ASSUME NEW s \in Spaces, NEW p \in Pages, NEW w \in BOOLEAN, Protect(s, p, w)
      PROVE  IInv' /\ (NothingLost \/ MappingLoses)
  BY <1>8, ProtectStep
<1>9. ASSUME NEW s \in Spaces, NEW p \in Pages, NEW w \in BOOLEAN, NEW v \in Values,
             MapPage(s, p, w, v)
      PROVE  IInv' /\ (NothingLost \/ MappingLoses)
  BY <1>9, MapPageStep, Zenon DEF MappingLoses
<1> QED BY <1>1, <1>2, <1>3, <1>4, <1>5, <1>6, <1>7, <1>8, <1>9, SMTT(30) DEF Next

\* The invariant holds at boot.
LEMMA InitInv == Init => IInv
<1> SUFFICES ASSUME Init PROVE IInv
  OBVIOUS
<1>1. TypeOK
  <2>1. Cardinality(Blocks) \in Nat
    BY BlocksAssumption, FS_CardinalityType
  <2>2. 0 \in 0..MaxRef
    BY MaxRefAssumption
  <2> QED BY <2>1, <2>2 DEF Init, TypeOK, NoSlots, NoFlags
<1>2. RefsCounted
  <2> SUFFICES ASSUME NEW b \in Blocks
               PROVE  Cardinality(Refs(b)) <= refcount[b]
    BY DEF RefsCounted
  <2>1. Refs(b) = {}
    BY BlocksAssumption DEF Init, Refs, NoSlots
  <2> QED BY <2>1, FS_EmptySet DEF Init
<1>3. PmmRecordsAgree
  <2>1. Blocks \ used = Blocks
    BY DEF Init
  <2> QED BY <2>1 DEF Init, PmmRecordsAgree
<1>4. WritableIsExclusive /\ BlockMappedOnce /\ AbsentIsEmpty
  BY SlotFacts DEF Init, WritableIsExclusive, BlockMappedOnce, AbsentIsEmpty, NoSlots, NoFlags
<1> QED BY <1>1, <1>2, <1>3, <1>4 DEF IInv

----------------------------------------------------------------------------
(* The theorems *)

\* The inductive invariant holds throughout.
THEOREM Invariance == Spec => []IInv
<1>1. IInv /\ [Next]_vars => IInv'
  BY NextStep
<1> QED BY <1>1, InitInv, PTL DEF Spec

\* Every variable of the allocator and of the page tables keeps its type; the
\* counts stay within 16 bits.
THEOREM TypeCorrect == Spec => []TypeOK
<1>1. IInv => TypeOK
  BY DEF IInv
<1> QED BY <1>1, Invariance, PTL

\* pmm_free_block never frees a block in use, for any number of processes,
\* pages and blocks.
THEOREM NoBlockFreedInUse == Spec => []RefsCounted
<1>1. IInv => RefsCounted
  BY DEF IInv
<1> QED BY <1>1, Invariance, PTL

\* An entry that the hardware lets a process write through is unshared.
THEOREM WritesStayPrivate == Spec => []WritableIsExclusive
<1>1. IInv => WritableIsExclusive
  BY DEF IInv
<1> QED BY <1>1, Invariance, PTL

\* Bitmap, reference counts and the free counter of pmm.c always agree.
THEOREM RecordsAgree == Spec => []PmmRecordsAgree
<1>1. IInv => PmmRecordsAgree
  BY DEF IInv
<1> QED BY <1>1, Invariance, PTL

\* vmm_free_user_space frees each block of an address space once: a space refers
\* to a block at most once, and its P4 and tables to blocks of its own.
THEOREM MappedOnce == Spec => []BlockMappedOnce
<1>1. IInv => BlockMappedOnce
  BY DEF IInv
<1> QED BY <1>1, Invariance, PTL

\* Fork (also when it fails halfway), exit, copy-on-write, mprotect and
\* unmapping lose no memory, for any number of processes, pages and blocks: only
\* vmm_map_page does, over an entry that is present or without a table.
THEOREM NothingElseLoses == Spec => LostOnlyByMapping
<1> DEFINE Step == (\E b \in Blocks : Lost(b)' # Lost(b)) => MappingLoses
<1>1. IInv /\ [Next]_vars => [Step]_vars
  BY NextStep, Zenon DEF NothingLost
<1>2. Spec => [][Step]_vars
  BY <1>1, Invariance, PTL DEF Spec
<1> QED BY <1>2 DEF LostOnlyByMapping, MappingLoses

----------------------------------------------------------------------------
(* Refinement of PrivateMemory *)

\* What space s reads at page p, and the spaces that exist.
View == [s \in Spaces |-> [p \in Pages |->
           IF Present(s, p) THEN data[frame[s][p]] ELSE Absent]]
Live == {s \in Spaces : Exists(s)}

\* Views are equal when they agree on every page.
LEMMA SameView ==
  ASSUME NEW f, NEW g,
         f = [s \in Spaces |-> [p \in Pages |-> f[s][p]]],
         g = [s \in Spaces |-> [p \in Pages |-> g[s][p]]],
         \A s \in Spaces, p \in Pages : f[s][p] = g[s][p]
  PROVE  f = g
<1>1. [s \in Spaces |-> [p \in Pages |-> f[s][p]]]
        = [s \in Spaces |-> [p \in Pages |-> g[s][p]]]
  BY SMTT(30)
<1> QED BY <1>1

\* The view is a function of spaces and pages.
LEMMA ViewShape ==
  /\ View = [s \in Spaces |-> [p \in Pages |-> View[s][p]]]
  /\ View' = [s \in Spaces |-> [p \in Pages |-> View'[s][p]]]
  BY DEF View

\* A step that changes the view of one space only.
LEMMA OneSpace ==
  ASSUME NEW s \in Spaces, NEW m, m = [p \in Pages |-> m[p]],
         \A r \in Spaces, q \in Pages :
           View'[r][q] = IF r = s THEN m[q] ELSE View[r][q]
  PROVE  View' = [View EXCEPT ![s] = m]
<1> DEFINE W == [View EXCEPT ![s] = m]
<1>1. \A r \in Spaces : W[r] = IF r = s THEN m ELSE View[r]
  BY DEF View
<1>2. W = [r \in Spaces |-> W[r]]
  BY Zenon DEF View
<1>3. \A r \in Spaces : W[r] = [q \in Pages |-> W[r][q]]
  BY <1>1 DEF View
<1>4. W = [r \in Spaces |-> [q \in Pages |-> W[r][q]]]
  BY <1>2, <1>3
<1>5. \A r \in Spaces, q \in Pages : View'[r][q] = W[r][q]
  BY <1>1
<1> HIDE DEF W
<1>6. View' = W
  BY <1>4, <1>5, ViewShape, SameView
<1> QED BY <1>6 DEF W

\* A step that changes the view of one page only.
LEMMA OnePage ==
  ASSUME NEW s \in Spaces, NEW p \in Pages, NEW v \in Values \cup {Absent},
         Exists(s), Live' = Live,
         \A r \in Spaces, q \in Pages :
           View'[r][q] = IF r = s /\ q = p THEN v ELSE View[r][q]
  PROVE  Private!Next
<1>1. View' = [View EXCEPT ![s][p] = v]
  <2> DEFINE m == [View[s] EXCEPT ![p] = v]
  <2>1. m = [q \in Pages |-> m[q]]
    BY Zenon DEF View
  <2>2. \A r \in Spaces, q \in Pages : View'[r][q] = IF r = s THEN m[q] ELSE View[r][q]
    <3>1. \A q \in Pages : m[q] = IF q = p THEN v ELSE View[s][q]
      BY DEF View
    <3> QED BY <3>1, SMTT(30)
  <2>3. View' = [View EXCEPT ![s] = m]
    <3> HIDE DEF m
    <3> QED BY <2>1, <2>2, OneSpace, SMTT(30)
  <2> QED BY <2>3
<1>2. Private!SetPage(s, p, v)
  BY <1>1 DEF Private!SetPage, View, Live
<1> QED BY <1>2 DEF Private!Next

\* Giving an entry a block of its own changes what one page holds, at most.
LEMMA PrivatiseView ==
  ASSUME IInv, NEW s \in Spaces, NEW p \in Pages, Present(s, p),
         NEW shared \in BOOLEAN, NEW v \in Values,
         Privatise(s, p, shared, v),
         ~shared => v = data[frame[s][p]] \/ refcount[frame[s][p]] <= 1
  PROVE  Private!Next
<1>1. /\ Exists(s)
      /\ \A r \in Spaces : Exists(r)' <=> Exists(r)
      /\ \A r \in Spaces, q \in Pages :
           View'[r][q] = IF r = s /\ q = p THEN v ELSE View[r][q]
  <2>1. Exists(s)
    BY SlotFacts DEF Present, IInv, AbsentIsEmpty, NoSlots
  <2>2. frame[s][p] \in Blocks /\ frame[s][p] # NoBlock
    BY SlotFacts, SMTT(30) DEF Present, IInv, TypeOK
  <2>3. CASE shared
    <3>1. PICK n \in Free : /\ frame' = [frame EXCEPT ![s][p] = n]
                            /\ data' = [data EXCEPT ![n] = v]
      BY <2>3, Zenon DEF Privatise
    <3>2. /\ n \in Blocks /\ n # NoBlock
          /\ \A r \in Spaces, k \in Slots : frame[r][k] # n
      BY FreeIsUnreferenced, BlocksAssumption, SMTT(30)
    <3>3. \A r \in Spaces, k \in Slots :
            frame'[r][k] = IF r = s /\ k = p THEN n ELSE frame[r][k]
      BY <3>1, SlotFacts DEF IInv, TypeOK
    <3>4. \A b \in Blocks : data'[b] = IF b = n THEN v ELSE data[b]
      BY <3>1 DEF IInv, TypeOK
    <3>5. \A r \in Spaces, q \in Pages : frame[r][q] \in Blocks \cup {NoBlock}
      BY SlotFacts, SMTT(30) DEF IInv, TypeOK
    <3>6. \A r \in Spaces : Exists(r)' <=> Exists(r)
      BY <3>3, SlotFacts, SMTT(30) DEF Exists
    <3> QED BY <2>1, <3>2, <3>3, <3>4, <3>5, <3>6, SlotFacts DEF View, Present
  <2>4. CASE ~shared
    <3>1. frame' = frame /\ data' = [data EXCEPT ![frame[s][p]] = v]
      BY <2>4 DEF Privatise
    <3>2. \A b \in Blocks : data'[b] = IF b = frame[s][p] THEN v ELSE data[b]
      BY <3>1 DEF IInv, TypeOK
    <3>3. \A r \in Spaces, q \in Pages : frame[r][q] \in Blocks \cup {NoBlock}
      BY SlotFacts, SMTT(30) DEF IInv, TypeOK
    <3>4. CASE v = data[frame[s][p]]
      BY <2>1, <2>2, <3>1, <3>2, <3>3, <3>4, SMTT(30) DEF View, Present, Exists
    <3>5. CASE refcount[frame[s][p]] <= 1
      <4>1. \A r \in Spaces, k \in Slots : frame[r][k] = frame[s][p] => r = s /\ k = p
        <5>1. p \in Slots
          BY SlotFacts
        <5>2. Refs(frame[s][p]) = {<<s, p>>}
          BY <2>2, <3>5, <5>1, CountOneIsExclusive, Zenon
        <5> SUFFICES ASSUME NEW r \in Spaces, NEW k \in Slots, frame[r][k] = frame[s][p]
                     PROVE  r = s /\ k = p
          OBVIOUS
        <5>3. <<r, k>> \in Refs(frame[s][p])
          BY DEF Refs
        <5> QED BY <5>2, <5>3, SMTT(30)
      <4> QED BY <2>1, <2>2, <3>1, <3>2, <3>3, <4>1, SlotFacts, SMTT(30) DEF View, Present, Exists
    <3> QED BY <2>4, <3>4, <3>5
  <2> QED BY <2>3, <2>4, Zenon
<1>2. Live' = Live
  BY <1>1, Zenon DEF Live
<1>3. v \in Values \cup {Absent}
  OBVIOUS
<1> QED BY <1>1, <1>2, <1>3, OnePage, Zenon

\* The spaces and the view at boot.
LEMMA InitRefines == Init => Private!Init
  BY SlotFacts, SMTT(30) DEF Init, NoSlots, Exists, Present, Private!Init, Private!Unmapped

\* Every step of the page tables is a step of the private memories, or none.
LEMMA StepRefines ==
  ASSUME IInv, [Next]_vars
  PROVE  [Private!Next]_(Private!vars)
<1> USE SlotFacts
<1>1. \A r \in Spaces, q \in Pages : frame[r][q] \in Blocks \cup {NoBlock}
  BY SMTT(30) DEF IInv, TypeOK
<1>2. CASE UNCHANGED vars
  BY <1>2 DEF vars, Private!vars, Exists, Present
<1>3. ASSUME NEW s \in Spaces, Create(s)
      PROVE  Private!Next
  <2>1. PICK b \in Free : frame' = [frame EXCEPT ![s] = [NoSlots EXCEPT ![Root] = b]]
    BY <1>3, Zenon DEF Create
  <2>2. frame[s] = NoSlots /\ data' = data /\ b # NoBlock
    BY <1>3, BlocksAssumption DEF Create, IInv, AbsentIsEmpty, Free
  <2>3. \A r \in Spaces, k \in Slots :
          frame'[r][k] = IF r = s /\ k = Root THEN b ELSE frame[r][k]
    BY <2>1, <2>2 DEF NoSlots, IInv, TypeOK
  <2>4. View[s] = Private!Unmapped
    BY <2>2 DEF View, Present, NoSlots, Private!Unmapped
  <2>5. View' = [View EXCEPT ![s] = Private!Unmapped]
    <3>1. \A r \in Spaces, q \in Pages :
            View'[r][q] = IF r = s THEN Private!Unmapped[q] ELSE View[r][q]
      BY <2>2, <2>3, <2>4 DEF View, Present
    <3> QED BY <3>1, OneSpace, Zenon DEF Private!Unmapped
  <2>6. Live' = Live \cup {s} /\ s \notin Live
    <3>1. \A r \in Spaces : Exists(r)' <=> r = s \/ Exists(r)
      BY <2>2, <2>3 DEF Exists
    <3>2. ~Exists(s)
      BY <1>3, SMTT(30) DEF Create
    <3> QED BY <3>1, <3>2, SMTT(30) DEF Live
  <2>7. Private!Create(s)
    BY <2>5, <2>6 DEF Private!Create, Live, View
  <2> QED BY <2>7 DEF Private!Next
<1>4. ASSUME NEW s \in Spaces, Destroy(s)
      PROVE  Private!Next
  <2>1. \A r \in Spaces, k \in Slots :
          frame'[r][k] = IF r = s THEN NoBlock ELSE frame[r][k]
    BY <1>4 DEF Destroy, NoSlots, IInv, TypeOK
  <2>2. View' = [View EXCEPT ![s] = Private!Unmapped]
    <3>1. \A r \in Spaces, q \in Pages :
            View'[r][q] = IF r = s THEN Private!Unmapped[q] ELSE View[r][q]
      <4> SUFFICES ASSUME NEW r \in Spaces, NEW q \in Pages
                   PROVE  View'[r][q] = IF r = s THEN Private!Unmapped[q] ELSE View[r][q]
        OBVIOUS
      <4>1. frame'[r][q] = IF r = s THEN NoBlock ELSE frame[r][q]
        BY <2>1
      <4>2. data' = data
        BY <1>4, SMTT(30) DEF Destroy
      <4> QED BY <4>1, <4>2, SMTT(30) DEF View, Present, Private!Unmapped
    <3> QED BY <3>1, OneSpace, Zenon DEF Private!Unmapped
  <2>3. Live' = Live \ {s} /\ s \in Live
    <3>1. \A r \in Spaces : Exists(r)' <=> r # s /\ Exists(r)
      BY <2>1 DEF Exists
    <3>2. Exists(s)
      BY <1>4, SMTT(30) DEF Destroy
    <3> QED BY <3>1, <3>2 DEF Live
  <2>4. Private!Destroy(s)
    BY <2>2, <2>3, SMTT(30) DEF Private!Destroy, Live, View
  <2> QED BY <2>4 DEF Private!Next
<1>5. ASSUME NEW s \in Spaces, MapPageNoTable(s)
      PROVE  UNCHANGED Private!vars
  BY <1>5 DEF MapPageNoTable, Private!vars, Exists, Present
<1>6. ASSUME NEW src \in Spaces, NEW dst \in Spaces, Copy(src, dst)
      PROVE  Private!Next
  <2>1. PICK b \in Free, t \in Free \cup {NoBlock} :
          frame' = [frame EXCEPT ![dst] = [frame[src] EXCEPT ![Root] = b, ![Table] = t]]
    BY <1>6, Zenon DEF Copy
  <2>2. b # NoBlock /\ data' = data /\ src # dst
    BY <1>6, BlocksAssumption, SMTT(30) DEF Copy, Free
  <2>3. \A r \in Spaces, k \in Slots :
          frame'[r][k] = IF r # dst THEN frame[r][k]
                         ELSE IF k = Root THEN b
                         ELSE IF k = Table THEN t ELSE frame[src][k]
    BY <2>1 DEF IInv, TypeOK
  <2>4. View' = [View EXCEPT ![dst] = View[src]]
    <3>1. \A r \in Spaces, q \in Pages :
            View'[r][q] = IF r = dst THEN View[src][q] ELSE View[r][q]
      BY <2>2, <2>3 DEF View, Present
    <3>2. View[src] = [q \in Pages |-> View[src][q]]
      BY SMTT(30) DEF View
    <3> QED BY <3>1, <3>2, OneSpace, SMTT(30)
  <2>5. Live' = Live \cup {dst} /\ src \in Live /\ dst \notin Live
    BY <1>6, <2>2, <2>3 DEF Live, Exists, Copy
  <2>6. Private!Fork(src, dst)
    BY <2>4, <2>5, Zenon DEF Private!Fork, Live, View
  <2> QED BY <2>6 DEF Private!Next
<1>7. ASSUME NEW src \in Spaces, NEW dst \in Spaces, CopyFails(src, dst)
      PROVE  UNCHANGED Private!vars
  BY <1>7, Zenon DEF CopyFails, Private!vars, Exists, Present
<1>8. ASSUME NEW s \in Spaces, NEW p \in Pages, Unmap(s, p)
      PROVE  Private!Next
  <2>1. \A r \in Spaces, k \in Slots :
          frame'[r][k] = IF r = s /\ k = p THEN NoBlock ELSE frame[r][k]
    BY <1>8, SMTT(30) DEF Unmap, IInv, TypeOK
  <2>2. \A r \in Spaces, q \in Pages :
          View'[r][q] = IF r = s /\ q = p THEN Absent ELSE View[r][q]
    BY <1>8, <2>1, SMTT(30) DEF Unmap, View, Present
  <2>3. Exists(s) /\ Live' = Live
    BY <1>8, <2>1, SMTT(30) DEF Unmap, Present, Exists, Live, IInv, AbsentIsEmpty, NoSlots
  <2> QED BY <2>2, <2>3, OnePage
<1>9. ASSUME NEW s \in Spaces, NEW p \in Pages, NEW v \in Values,
             ResolveCow(s, p, v)
      PROVE  Private!Next
  <2> DEFINE shared == refcount[frame[s][p]] > 1
  <2>1. refcount[frame[s][p]] \in Nat
    BY <1>9, SMTT(30) DEF ResolveCow, Present, IInv, TypeOK
  <2>2. Present(s, p) /\ Privatise(s, p, shared, v)
    BY <1>9, SMTT(30) DEF ResolveCow, Shared
  <2>3. shared \in BOOLEAN /\ (~shared => refcount[frame[s][p]] <= 1)
    BY <2>1
  <2> HIDE DEF shared
  <2> QED BY <2>2, <2>3, PrivatiseView
<1>10. ASSUME NEW s \in Spaces, NEW p \in Pages, CowFault(s, p)
      PROVE  Private!Next
  <2>1. data[frame[s][p]] \in Values
    BY <1>10 DEF CowFault, ResolveCow, Present, IInv, TypeOK
  <2> QED BY <1>9, <1>10, <2>1, SMTT(30) DEF CowFault
<1>11. ASSUME NEW s \in Spaces, NEW p \in Pages, NEW v \in Values, Write(s, p, v)
      PROVE  Private!Next
  <2>1. /\ frame[s][p] # NoBlock
        /\ \A r \in Spaces, k \in Slots : frame[r][k] = frame[s][p] => r = s /\ k = p
    BY <1>11, ExclusiveBefore, SMTT(30) DEF Write
  <2>2. frame' = frame /\ \A b \in Blocks : data'[b] = IF b = frame[s][p] THEN v ELSE data[b]
    BY <1>11, SMTT(30) DEF Write, IInv, TypeOK
  <2>3. \A r \in Spaces, q \in Pages :
          View'[r][q] = IF r = s /\ q = p THEN v ELSE View[r][q]
    BY <1>1, <2>1, <2>2, SMTT(30) DEF View, Present
  <2>4. Exists(s) /\ Live' = Live
    BY <2>1, <2>2 DEF Exists, Live, IInv, AbsentIsEmpty, NoSlots
  <2>5. v \in Values \cup {Absent}
    OBVIOUS
  <2> QED BY <2>3, <2>4, <2>5, OnePage, Zenon
<1>12. ASSUME NEW s \in Spaces, NEW p \in Pages, NEW w \in BOOLEAN, Protect(s, p, w)
      PROVE  Private!Next
  <2> DEFINE shared == w /\ (cow[s][p] \/ refcount[frame[s][p]] > 1)
             v == data[frame[s][p]]
  <2>1. Present(s, p) /\ Privatise(s, p, shared, v)
    BY <1>12 DEF Protect, MustCopy, Shared
  <2>2. shared \in BOOLEAN /\ v \in Values
    BY <2>1, SMTT(30) DEF Present, IInv, TypeOK
  <2>3. v = data[frame[s][p]]
    OBVIOUS
  <2> HIDE DEF shared, v
  <2> QED BY <2>1, <2>2, <2>3, PrivatiseView, SMTT(30)
<1>13. ASSUME NEW s \in Spaces, NEW p \in Pages, NEW w \in BOOLEAN, NEW v \in Values,
              MapPage(s, p, w, v)
      PROVE  Private!Next
  <2>1. PICK b \in Free, t \in Blocks :
          /\ IF frame[s][Table] = NoBlock THEN t \in Free \ {b} ELSE t = frame[s][Table]
          /\ frame' = [frame EXCEPT ![s][p] = b, ![s][Table] = t]
          /\ data' = [data EXCEPT ![b] = v]
    BY <1>13, Zenon DEF MapPage
  <2>2. /\ b \in Blocks /\ b # NoBlock
        /\ \A r \in Spaces, k \in Slots : frame[r][k] # b
    BY FreeIsUnreferenced, BlocksAssumption, SMTT(30)
  <2>3. \A r \in Spaces, k \in Slots :
          frame'[r][k] = IF r = s /\ k = p THEN b
                         ELSE IF r = s /\ k = Table THEN t ELSE frame[r][k]
    BY <2>1 DEF IInv, TypeOK
  <2>4. \A c \in Blocks : data'[c] = IF c = b THEN v ELSE data[c]
    BY <2>1 DEF IInv, TypeOK
  <2>5. \A r \in Spaces, q \in Pages :
          View'[r][q] = IF r = s /\ q = p THEN v ELSE View[r][q]
    <3> SUFFICES ASSUME NEW r \in Spaces, NEW q \in Pages
                 PROVE  View'[r][q] = IF r = s /\ q = p THEN v ELSE View[r][q]
      OBVIOUS
    <3>1. q \in Slots /\ q # Table
      BY SlotFacts
    <3>2. frame'[r][q] = IF r = s /\ q = p THEN b ELSE frame[r][q]
      BY <2>3, <3>1
    <3>3. frame[r][q] \in Blocks \cup {NoBlock} /\ frame[r][q] # b
      BY <2>2, <3>1, SMTT(30) DEF IInv, TypeOK
    <3>4. CASE r = s /\ q = p
      BY <2>2, <2>4, <3>2, <3>4, SMTT(30) DEF View, Present
    <3>5. CASE ~(r = s /\ q = p)
      BY <2>4, <3>2, <3>3, <3>5, SMTT(30) DEF View, Present
    <3> QED BY <3>4, <3>5
  <2>6. Exists(s) /\ Live' = Live
    <3>1. \A r \in Spaces : frame'[r][Root] = frame[r][Root]
      BY <2>3, SMTT(30)
    <3>2. \A r \in Spaces : Exists(r)' <=> Exists(r)
      BY <3>1 DEF Exists
    <3> QED BY <1>13, <3>2 DEF MapPage, Live
  <2>7. v \in Values \cup {Absent}
    OBVIOUS
  <2> QED BY <2>5, <2>6, <2>7, OnePage, Zenon
<1> QED BY <1>2, <1>3, <1>4, <1>5, <1>6, <1>7, <1>8, <1>9, <1>10, <1>11, <1>12, <1>13, SMTT(30)
        DEF Next, KernelWrite

\* Shared, copied and reused blocks implement private memories: no process sees
\* another one's stores.
THEOREM Refinement == Spec => ImplementsPrivateMemory
<1>1. IInv /\ [Next]_vars => [Private!Next]_(Private!vars)
  BY StepRefines
<1> QED BY <1>1, InitRefines, Invariance, PTL DEF Spec, ImplementsPrivateMemory, Private!Spec
=============================================================================
