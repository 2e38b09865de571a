-------------------------------- MODULE Phys --------------------------------
(***************************************************************************)
(* mem/phys.c: the buddy allocator of physical memory, together with the   *)
(* page accounting it drives (module Accounting).                          *)
(*                                                                         *)
(* An address is a number of minimal blocks.  The freelists are LIFO, the  *)
(* header of a free block lives in the block itself (hdr), and a bitmap    *)
(* (freeBit) has one bit per minimal block of which only the one at the    *)
(* head of a block is maintained: bits in the middle of a merged block go  *)
(* stale, as they do in the code.                                          *)
(*                                                                         *)
(* The allocator's data is touched only under m_phys_buddy_lock, so a      *)
(* critical section is cut into steps only where it runs an accounting     *)
(* instruction, which no lock orders.  A core that finds the mutex taken   *)
(* enters mutex_lock_slow, an assertion failure: it halts.                 *)
(***************************************************************************)
EXTENDS Accounting, Sequences, SequencesExt

CONSTANTS
  MAX_LEVEL,    \* PHYS_BUDDY_MAX_LEVEL: the number of levels
  PAGE_LEVEL,   \* PHYS_BUDDY_PAGE_LEVEL: the level of a block of one page
  MIN_ORDER,    \* PHYS_BUDDY_MIN_ORDER: log2 of the bytes in a minimal block
  NumUnits,     \* minimal blocks in the physical address space
  Regions,      \* the ranges <<start, end>> boot gives to phys_add_memory
  Sizes,        \* the byte sizes requested
  Requests,     \* the page counts reserved and unreserved
  BootCpu       \* the core that boots the machine

Levels == 0..(MAX_LEVEL - 1)
Units == 0..(NumUnits - 1)
UnitsPerPage == 2 ^ PAGE_LEVEL

Apart(A, B) == A \cap B = {}
RegionUnits(i) == Regions[i][1]..(Regions[i][2] - 1)

(* The pages that start in a set of minimal blocks *)
PagesIn(S) == {p \in 0..NumUnits : p * UnitsPerPage \in S}

ASSUME LevelAssumption ==
  /\ MAX_LEVEL \in Nat /\ PAGE_LEVEL \in Nat /\ PAGE_LEVEL < MAX_LEVEL
  /\ MIN_ORDER \in Nat \ {0} /\ NumUnits \in Nat
(* Boot hands over whole pages, which RAM has once and the accounting can  *)
(* count (boot/virt.c walks a sorted memory map of disjoint entries).      *)
ASSUME RegionAssumption ==
  /\ Regions \in Seq(Nat \X Nat)
  /\ \A i \in 1..Len(Regions) :
       /\ Regions[i][1] < Regions[i][2] /\ Regions[i][2] <= NumUnits
       /\ Regions[i][1] % UnitsPerPage = 0 /\ Regions[i][2] % UnitsPerPage = 0
  /\ \A i, j \in 1..Len(Regions) : i # j => Apart(RegionUnits(i), RegionUnits(j))
  /\ Cardinality(PagesIn(UNION {RegionUnits(i) : i \in 1..Len(Regions)})) <= MaxPages
ASSUME BootAssumption == BootCpu \in Cpus /\ Sizes \subseteq Nat /\ Requests \subseteq Word

VARIABLES
  freelist,   \* m_phys_buddy_levels
  hdr,        \* per minimal block: Zero, Data, or the level in its header
  freeBit,    \* g_buddy_bitmap_mapping
  lock,       \* m_phys_buddy_lock: 0, or 1 when taken
  op,         \* per core, the allocator call it is in
  owned,      \* the blocks handed out, as <<address, level>>
  boot        \* phys_add_memory: the region and the address it has reached

buddyVars == <<freelist, hdr, freeBit>>
physVars == <<acctVars, buddyVars, lock, op, owned, boot>>

-----------------------------------------------------------------------------
(* Sizes, levels and addresses *)

Max2(a, b) == IF a > b THEN a ELSE b

(* 64 - __builtin_clzll(x) *)
BitLength(x) ==
  CHOOSE n \in 0..(MAX_LEVEL + MIN_ORDER) : x < 2 ^ n /\ (n = 0 \/ x >= 2 ^ (n - 1))

get_level_by_size(size) ==
  IF size > 2 ^ (MAX_LEVEL - 1 + MIN_ORDER) THEN -1
  ELSE BitLength(Max2(size, 2 ^ MIN_ORDER) - 1) - MIN_ORDER

get_page_level_by_size(size) ==
  LET level == get_level_by_size(size)
  IN  IF level < PAGE_LEVEL \/ size # 2 ^ (level + MIN_ORDER) THEN -1 ELSE level

get_page_count_by_level(level) == 2 ^ (level - PAGE_LEVEL)

Span(ptr, level) == ptr..(ptr + 2 ^ level - 1)
AlignDown(ptr, level) == ptr - (ptr % 2 ^ level)

(* ptr ^ block_size for a block of this level *)
Neighbor(ptr, level) ==
  LET head == AlignDown(ptr, level)
  IN  IF head % 2 ^ (level + 1) = 0 THEN head + 2 ^ level ELSE head - 2 ^ level

get_best_level_for_block(start, end) ==
  CHOOSE i \in Levels :
    /\ start + 2 ^ i <= end /\ start % 2 ^ i = 0
    /\ \A j \in Levels : j > i => ~(start + 2 ^ j <= end /\ start % 2 ^ j = 0)

(* What the first bytes of a minimal block hold when they hold no header:  *)
(* zeros, or whatever the owner of the block wrote there.                  *)
Zero == -1
Data == -2

(* block->level: zeros read as level 0. *)
LevelAt(u) == IF hdr[u] = Zero THEN 0 ELSE hdr[u]

-----------------------------------------------------------------------------
NoBlock == -1
Idle == [pc |-> "idle", ptr |-> NoBlock, level |-> 0, at |-> 0, reserved |-> FALSE]

PhysInit ==
  /\ AcctInit
  /\ freelist = [l \in Levels |-> <<>>]
  /\ hdr = [u \in Units |-> Data]
  /\ freeBit = [u \in Units |-> FALSE]
  /\ lock = 0
  /\ op = [c \in Cpus |-> Idle]
  /\ owned = {}
  /\ boot = [region |-> 1, started |-> FALSE, at |-> 0]

Booted == boot.region > Len(Regions)
Ready(c) == Booted /\ op[c].pc = "idle" /\ frame[c].pc = "idle"

(* mutex_lock: the next control state, or the slow path's assertion; a     *)
(* core that halts there keeps what it has in hand.                        *)
LockOrHalt(c, next) ==
  \/ /\ lock = 0 /\ lock' = 1
     /\ op' = [op EXCEPT ![c] = next]
  \/ /\ lock = 1 /\ UNCHANGED lock
     /\ op' = [op EXCEPT ![c] = [next EXCEPT !.pc = "halted"]]

(* The function returns, dropping the lock. *)
Unlock(c) == lock' = 0 /\ op' = [op EXCEPT ![c] = Idle]

(* An ASSERT fails: the core spins for ever, with the lock if it has it. *)
Panic(c) == op' = [op EXCEPT ![c].pc = "panic"] /\ UNCHANGED lock

(* Reservations a core is about to turn into committed pages. *)
Claimed == SumOver([c \in Cpus |->
             IF op[c].pc = "search" /\ op[c].reserved
             THEN get_page_count_by_level(op[c].level) ELSE 0])

-----------------------------------------------------------------------------
(* Allocation *)

Search(level, reserved) ==
  [Idle EXCEPT !.pc = "search", !.level = level, !.reserved = reserved]

phys_alloc(c, size) ==
  /\ Ready(c) /\ get_level_by_size(size) >= 0
  /\ LockOrHalt(c, Search(get_level_by_size(size), FALSE))
  /\ UNCHANGED <<acctVars, buddyVars, owned, boot>>

(* A caller asks for reserved pages only against a reservation it holds. *)
phys_alloc_reserved(c, size) ==
  LET level == get_page_level_by_size(size)
  IN  /\ Ready(c) /\ level >= 0
      /\ get_page_count_by_level(level) + Claimed <= held["reserved"]
      /\ LockOrHalt(c, Search(level, TRUE))
      /\ UNCHANGED <<acctVars, buddyVars, owned, boot>>

NonEmptyFrom(level) == {l \in level..(MAX_LEVEL - 1) : freelist[l] # <<>>}

(* Mutant: splitting a page for a piece of it commits nothing. *)
CommitOnlyWholePages(level, at) ==
  IF level >= PAGE_LEVEL THEN get_page_count_by_level(level) ELSE 0

(* The pages an allocation commits: all of a block of pages; the page that *)
(* a smaller block splits; none for a piece of a page already split.       *)
PagesToCommit(level, at) ==
  IF level >= PAGE_LEVEL THEN get_page_count_by_level(level)
  ELSE IF at >= PAGE_LEVEL THEN 1 ELSE 0

(* phys_alloc_internal up to the commit: find the closest freelist that    *)
(* has a block, then commit the pages that leave the pool.                 *)
AllocSearch(c) ==
  LET level == op[c].level
      found == NonEmptyFrom(level)
      at == CHOOSE l \in found : \A m \in found : l <= m
  IN  /\ op[c].pc = "search"
      /\ UNCHANGED <<buddyVars, owned, boot>>
      /\ \/ /\ found = {}
            /\ IF op[c].reserved /\ level = PAGE_LEVEL THEN Panic(c) ELSE Unlock(c)
            /\ UNCHANGED acctVars
         \/ /\ found # {} /\ PagesToCommit(level, at) > 0
            /\ Call(c, IF op[c].reserved THEN "commit_reserved" ELSE "commit",
                    PagesToCommit(level, at))
            /\ op' = [op EXCEPT ![c].pc = "commit", ![c].at = at]
            /\ UNCHANGED lock
         \/ /\ found # {} /\ PagesToCommit(level, at) = 0
            /\ op' = [op EXCEPT ![c].pc = "take", ![c].at = at]
            /\ UNCHANGED <<acctVars, lock>>

(* mem_acct_commit said no: phys_alloc_internal returns NULL. *)
AllocRefused(c) ==
  /\ op[c].pc = "commit" /\ frame[c].pc = "idle" /\ ~frame[c].ok
  /\ Unlock(c)
  /\ UNCHANGED <<acctVars, buddyVars, owned, boot>>

(* The split of a block: the upper half of each level above the requested  *)
(* one goes on the freelist of its level.                                  *)
SplitHeads(ptr, level, at) == {ptr + 2 ^ l : l \in level..(at - 1)}

(* The rest of phys_alloc_internal: pop, zero the header, split, mark. *)
AllocTake(c) ==
  LET level == op[c].level
      at == op[c].at
      ptr == Head(freelist[at])
      upper == SplitHeads(ptr, level, at)
  IN  /\ \/ op[c].pc = "take"
         \/ op[c].pc = "commit" /\ frame[c].pc = "idle" /\ frame[c].ok
      /\ UNCHANGED <<acctVars, owned, boot>>
      /\ \/ /\ LevelAt(ptr) # at
            /\ Panic(c) /\ UNCHANGED buddyVars
         \/ /\ LevelAt(ptr) = at
            /\ freelist' = [l \in Levels |->
                 IF l = at THEN Tail(freelist[l])
                 ELSE IF l \in level..(at - 1) THEN <<ptr + 2 ^ l>> \o freelist[l]
                 ELSE freelist[l]]
            /\ hdr' = [u \in Units |->
                 IF u = ptr THEN Zero
                 ELSE IF u \in upper
                      THEN CHOOSE l \in level..(at - 1) : u = ptr + 2 ^ l
                 ELSE hdr[u]]
            /\ freeBit' = [u \in Units |-> u # ptr /\ (u \in upper \/ freeBit[u])]
            /\ lock' = 0
            /\ op' = [op EXCEPT ![c] =
                        [Idle EXCEPT !.pc = "return", !.ptr = ptr, !.level = level]]

(* The caller has the block, and writes what it likes in it. *)
AllocReturn(c) ==
  /\ op[c].pc = "return"
  /\ owned' = owned \cup {<<op[c].ptr, op[c].level>>}
  /\ hdr' = [u \in Units |-> IF u \in Span(op[c].ptr, op[c].level) THEN Data ELSE hdr[u]]
  /\ op' = [op EXCEPT ![c] = Idle]
  /\ UNCHANGED <<acctVars, freelist, freeBit, lock, boot>>

-----------------------------------------------------------------------------
(* Free *)

(* Mutant: the memset of phys_free_block is missing. *)
LeftAsIs(ptr, level) == [hdr EXCEPT ![ptr] = Zero]

Zeroed(ptr, level) ==
  [u \in Units |-> IF u \in Span(ptr, level) THEN Zero ELSE hdr[u]]

(* phys_free_block up to the lock of phys_free_internal *)
FreeBlock(c, block, reserved) ==
  /\ Ready(c)
  /\ owned' = owned \ {block}
  /\ hdr' = Zeroed(block[1], block[2])
  /\ LockOrHalt(c, [pc |-> "merge", ptr |-> block[1], level |-> block[2],
                    at |-> 0, reserved |-> reserved])
  /\ UNCHANGED <<acctVars, freelist, freeBit, boot>>

phys_free(c, block) == FreeBlock(c, block, FALSE)
phys_free_reserved(c, block) == block[2] >= PAGE_LEVEL /\ FreeBlock(c, block, TRUE)

(* Mutant: the level of the neighbour is not looked at. *)
MergeableAnyLevel(ptr, level) ==
  LET n == Neighbor(ptr, level) IN n \in Units /\ freeBit[n]

(* The test of the merge loop at one level.  The address space ends where  *)
(* the bitmap does: its bit reads as zero.                                 *)
Mergeable(ptr, level) ==
  LET n == Neighbor(ptr, level)
  IN  n \in Units /\ freeBit[n] /\ LevelAt(n) = level

(* Mutant: the loop stops one level early. *)
MergedTooLow(ptr, level) ==
  CHOOSE m \in level..(MAX_LEVEL - 1) :
    /\ \A l \in level..(m - 1) : Mergeable(ptr, l)
    /\ m >= MAX_LEVEL - 2 \/ ~Mergeable(ptr, m)

MergedLevel(ptr, level) ==
  CHOOSE m \in level..(MAX_LEVEL - 1) :
    /\ \A l \in level..(m - 1) : Mergeable(ptr, l)
    /\ m = MAX_LEVEL - 1 \/ ~Mergeable(ptr, m)

(* The loop of phys_free_internal and the insertion after it.  A merged    *)
(* neighbour leaves its freelist and its header is zeroed; its bit stays.  *)
MergeIn(ptr, level, check_allocated) ==
  LET m == MergedLevel(ptr, level)
      head == AlignDown(ptr, m)
      merged == {Neighbor(ptr, l) : l \in level..(m - 1)}
  IN  /\ freelist' = [l \in Levels |->
           IF l = m THEN <<head>> \o freelist[l]
           ELSE IF l \in level..(m - 1) THEN RemoveFirst(freelist[l], Neighbor(ptr, l))
           ELSE freelist[l]]
      /\ hdr' = [u \in Units |->
           IF u = head THEN m ELSE IF u \in merged THEN Zero ELSE hdr[u]]
      /\ freeBit' = [u \in Units |->
           u = head \/ (check_allocated /\ u = ptr) \/ freeBit[u]]

(* Mutants: a piece never gives its page back; it gives back the whole     *)
(* block it merged into.                                                   *)
UncommitOnlyWholePages(level, merged) ==
  IF level >= PAGE_LEVEL THEN get_page_count_by_level(level) ELSE 0
UncommitMergedBlock(level, merged) ==
  IF merged >= PAGE_LEVEL THEN get_page_count_by_level(merged) ELSE 0

(* The pages a free gives back: a piece of a page gives the page back when *)
(* the last of its pieces merges.                                          *)
PagesToUncommit(level, merged) ==
  IF level >= PAGE_LEVEL THEN get_page_count_by_level(level)
  ELSE IF merged >= PAGE_LEVEL THEN 1 ELSE 0

(* phys_free_internal under the lock, the unlock, and the call of          *)
(* phys_free_block that gives the pages back to the accounting.            *)
FreeMerge(c) ==
  LET ptr == op[c].ptr
      level == op[c].level
      n == PagesToUncommit(level, MergedLevel(ptr, level))
  IN  /\ op[c].pc = "merge"
      /\ UNCHANGED <<owned, boot>>
      /\ \/ /\ freeBit[ptr] \/ ptr % 2 ^ level # 0
            /\ Panic(c) /\ UNCHANGED <<acctVars, buddyVars>>
         \/ /\ ~freeBit[ptr] /\ ptr % 2 ^ level = 0
            /\ MergeIn(ptr, level, TRUE)
            /\ Unlock(c)
            /\ \/ n = 0 /\ UNCHANGED acctVars
               \/ n > 0 /\ Call(c, IF op[c].reserved THEN "uncommit_to_reserved"
                                  ELSE "uncommit", n)

-----------------------------------------------------------------------------
(* phys_add_memory, at boot: no other core runs yet *)

AddMemoryStart ==
  LET r == Regions[boot.region]
  IN  /\ ~Booted /\ ~boot.started /\ frame[BootCpu].pc = "idle"
      /\ hdr' = [u \in Units |-> IF u \in r[1]..(r[2] - 1) THEN Zero ELSE hdr[u]]
      /\ boot' = [boot EXCEPT !.started = TRUE, !.at = r[1]]
      /\ UNCHANGED <<acctVars, freelist, freeBit, lock, op, owned>>

AddMemoryBlock ==
  LET end == Regions[boot.region][2]
      level == get_best_level_for_block(boot.at, end)
  IN  /\ ~Booted /\ boot.started /\ boot.at < end
      /\ MergeIn(boot.at, level, FALSE)
      /\ boot' = [boot EXCEPT !.at = @ + 2 ^ level]
      /\ UNCHANGED <<acctVars, lock, op, owned>>

AddMemoryEnd ==
  LET r == Regions[boot.region]
  IN  /\ ~Booted /\ boot.started /\ boot.at = r[2]
      /\ Call(BootCpu, "add_total", (r[2] - r[1]) \div UnitsPerPage)
      /\ boot' = [region |-> boot.region + 1, started |-> FALSE, at |-> 0]
      /\ UNCHANGED <<buddyVars, lock, op, owned>>

-----------------------------------------------------------------------------
(* The other users of the accounting: virt_reserve_page_tables, virt_free *)
Reserving(c, n) ==
  /\ Ready(c) /\ Call(c, "reserve", n)
  /\ UNCHANGED <<buddyVars, lock, op, owned, boot>>

Unreserving(c, n) ==
  /\ Ready(c) /\ n + Claimed <= held["reserved"] /\ Call(c, "unreserve", n)
  /\ UNCHANGED <<buddyVars, lock, op, owned, boot>>

AcctRuns(c) == AcctStep(c) /\ UNCHANGED <<buddyVars, lock, op, owned, boot>>

PhysNext ==
  \/ AddMemoryStart \/ AddMemoryBlock \/ AddMemoryEnd
  \/ \E c \in Cpus :
       \/ \E size \in Sizes : phys_alloc(c, size) \/ phys_alloc_reserved(c, size)
       \/ AllocSearch(c) \/ AllocRefused(c) \/ AllocTake(c) \/ AllocReturn(c)
       \/ \E block \in owned : phys_free(c, block) \/ phys_free_reserved(c, block)
       \/ FreeMerge(c)
       \/ \E n \in Requests : Reserving(c, n) \/ Unreserving(c, n)
       \/ AcctRuns(c)

PhysSpec == PhysInit /\ [][PhysNext]_physVars

-----------------------------------------------------------------------------
(* Properties *)

FreeBlocks == UNION {{<<ptr, l>> : ptr \in Range(freelist[l])} : l \in Levels}

(* Blocks on their way out of the allocator or back into it, and those a   *)
(* core had in hand when it halted.                                        *)
BlocksInHand == {<<op[c].ptr, op[c].level>> : c \in {d \in Cpus : op[d].ptr # NoBlock}}

(* The pages that are free as a whole *)
FreePages == PagesIn(UNION {Span(b[1], b[2]) : b \in {f \in FreeBlocks : f[2] >= PAGE_LEVEL}})

(* No assertion of phys.c or accounting.c ever fails, other than the slow  *)
(* path of a contended mutex: in particular a reserved page always finds a *)
(* free page (phys.c:113, phys.h:37), a freelist holds blocks of its own   *)
(* level (phys.c:136), and a block being freed is not marked free          *)
(* (phys.c:192).                                                           *)
NoPanic == \A c \in Cpus : op[c].pc # "panic" /\ frame[c].pc # "panic"

(* No two blocks, free or handed out, share memory, whatever was split,    *)
(* merged, lost to a halted core or is on its way between a core and the   *)
(* freelists.                                                              *)
BlocksDisjoint ==
  LET free == FreeBlocks
      hand == BlocksInHand
      blocks == free \cup owned \cup hand
  IN  /\ \A a, b \in blocks : a # b => Apart(Span(a[1], a[2]), Span(b[1], b[2]))
      /\ Apart(owned, free \cup hand) /\ Apart(free, hand)
      /\ \A l \in Levels : \A i, j \in 1..Len(freelist[l]) :
           freelist[l][i] = freelist[l][j] => i = j

(* Free buddies are always merged (phys.c:196-227), so a block of the      *)
(* largest size that memory allows is never hidden as two halves.          *)
FullyMerged ==
  LET blocks == FreeBlocks
  IN  \A b \in blocks : b[2] < MAX_LEVEL - 1 => <<Neighbor(b[1], b[2]), b[2]>> \notin blocks

(* phys.c:138-140: what an allocation returns is entirely zero, also after *)
(* merges left old headers in the middle of the block.                     *)
ZeroedOnAlloc ==
  \A c \in Cpus : op[c].pc = "return" =>
    \A u \in Span(op[c].ptr, op[c].level) : hdr[u] = Zero

(* phys.c:107: "a reserved page always has a free page waiting for it".    *)
(* At every step the allocator has a free page for each page the counters  *)
(* promise, although pages and counters are never updated together.        *)
PromisesBacked ==
  pages["available"] + pages["reserved"] + Crediting("available") + Crediting("reserved")
    <= Cardinality(FreePages)

(* A page is committed exactly while some of it is out of the allocator or *)
(* a core is between the two updates: nothing stays committed for ever.    *)
CommittedExact ==
  (Booted /\ \A c \in Cpus : op[c].pc = "idle" /\ frame[c].pc = "idle") =>
    pages["available"] + pages["reserved"] = Cardinality(FreePages)

(* The allocator and its callers never leave the contract of mem_acct_*:   *)
(* seen from the counters every behaviour of phys.c is one of Accounting   *)
(* (AcctSpec), so what is proved of that holds here.                       *)
UsesAccounting == AcctInit /\ [][UNCHANGED acctVars \/ AcctNext]_acctVars
=============================================================================
