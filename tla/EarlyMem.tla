------------------------------ MODULE EarlyMem ------------------------------
(***************************************************************************)
(* boot/virt.c: memory before the buddy allocator exists.  Pages are cut   *)
(* off the front of the usable entries of the bootloader's memory map, for *)
(* the first page tables and for the buddy bitmap; what is left goes to    *)
(* the buddy allocator.                                                    *)
(*                                                                         *)
(* One core runs.  A loop makes one step per iteration, and a page table   *)
(* that is missing on the way to an entry is a step of its own.  Addresses *)
(* are page numbers; permissions are left out.                             *)
(***************************************************************************)
EXTENDS Integers, Sequences, FiniteSets

CONSTANTS
  MemoryMaps,   \* what the bootloader may report: sequences of entries
                \* [base, length, type], sorted and disjoint (external)
  Sections,     \* the mappings of the kernel image: [virt, phys, length]
  RegionPages,  \* pages of g_kernel_region
  DirectBase,   \* the bootloader's offset of the direct map
  TableSpan,    \* entries of a page table
  TableLevels,  \* g_page_table_levels
  Block,        \* pages of the largest buddy block, PHYS_BUDDY_MAX_SIZE
  BitmapSpan,   \* pages whose bits fill a page of the bitmap
  None

Entry == [base : Nat, length : Nat \ {0}, type : STRING]

ASSUME EarlyAssumption ==
  /\ TableSpan \in Nat \ {0} /\ TableLevels \in Nat \ {0}
  /\ Block \in Nat \ {0} /\ BitmapSpan \in Nat \ {0}
  /\ RegionPages \in Nat /\ DirectBase \in Nat /\ None \notin Int
  /\ Sections \in Seq([virt : Nat, phys : Nat, length : Nat])
  /\ MemoryMaps \subseteq Seq(Entry)
  /\ \A m \in MemoryMaps : \A i, j \in 1..Len(m) :
       i < j => m[j].base >= m[i].base + m[i].length

VPages == 0 .. RegionPages - 1

VARIABLES
  memmap,      \* m_memmap_request.response
  early,       \* m_early_alloc_top, m_early_alloc_size, m_early_alloc_page_count
  tables,      \* the page tables: [<<level, index>> -> page], the root at TableLevels
  pte,         \* per virtual page of the kernel region, what its leaf entry maps
  bitmapAt,    \* g_buddy_bitmap_mapping.base, None until it is allocated
  given,       \* pages handed to phys_add_memory
  total,       \* the accounting's total and committed pages
  committed,
  at           \* where the code is: the phase, the entry, the page in it

earlyVars == <<memmap, early, tables, pte, bitmapAt, given, total, committed, at>>

IsUsable(e) == e.type = "usable"
(* usable or bootloader reclaimable *)
IsMapped(e) == e.type \in {"usable", "reclaimable"}
PagesOf(e) == e.base .. e.base + e.length - 1

EarlyInit ==
  /\ memmap \in MemoryMaps
  /\ early = [top |-> 0, size |-> 0, count |-> 0]
  /\ tables = <<>>
  /\ pte = [v \in VPages |-> None]
  /\ bitmapAt = None
  /\ given = {} /\ total = 0 /\ committed = 0
  /\ at = [phase |-> "root", entry |-> 1, page |-> 0]

Stop(how) == at' = [at EXCEPT !.phase = how]
Phase(p) == at' = [phase |-> p, entry |-> 1, page |-> 0]
NextEntry == at' = [at EXCEPT !.entry = @ + 1, !.page = 0]
NextPage == at' = [at EXCEPT !.page = @ + 1]

-----------------------------------------------------------------------------
(* The early allocator *)

(* An entry right behind the one that ran out does not count *)
CandidatesAbove == {i \in 1..Len(memmap) : IsUsable(memmap[i]) /\ memmap[i].base > early.top}

(* early_alloc_find_next_entry considers entries that start at or above the top. *)
Candidates == {i \in 1..Len(memmap) : IsUsable(memmap[i]) /\ memmap[i].base >= early.top}

(* The allocator after the first part of early_phys_alloc_page *)
Refilled ==
  IF early.size # 0 THEN early
  ELSE LET i == CHOOSE i \in Candidates : \A j \in Candidates : i <= j
       IN  [early EXCEPT !.top = memmap[i].base, !.size = memmap[i].length]

OutOfMemory == early.size = 0 /\ Candidates = {}

(* The page early_phys_alloc_page returns *)
NewPage == Refilled.top

early_phys_alloc_page ==
  /\ ~OutOfMemory
  /\ early' = [Refilled EXCEPT !.top = @ + 1, !.size = @ - 1, !.count = @ + 1]

-----------------------------------------------------------------------------
(* Page tables *)

(* The tables on the way to the entry of v, below the root *)
TableOf(v, level) == <<level, v \div TableSpan ^ level>>
Missing(v) == {l \in 1..(TableLevels - 1) : TableOf(v, l) \notin DOMAIN tables}

WithTable(id, p) == [t \in DOMAIN tables \cup {id} |-> IF t = id THEN p ELSE tables[t]]

(* g_page_table = early_phys_alloc_page() *)
AllocRoot ==
  /\ at.phase = "root"
  /\ early_phys_alloc_page
  /\ tables' = WithTable(<<TableLevels, 0>>, NewPage)
  /\ Phase("kernel")
  /\ UNCHANGED <<memmap, pte, bitmapAt, given, total, committed>>

(* init_direct_map: up to the end of the last entry that is mapped *)
DirectPages ==
  LET mapped == {i \in 1..Len(memmap) : IsMapped(memmap[i])}
      last == CHOOSE i \in mapped : \A j \in mapped : j <= i
  IN  IF mapped = {} THEN 0 ELSE memmap[last].base + memmap[last].length

AlignDown(n, k) == n - (n % k)
AlignUp(n, k) == AlignDown(n + k - 1, k)
DivRoundUp(n, k) == (n + k - 1) \div k

SectionPages(i) == Sections[i].virt .. Sections[i].virt + Sections[i].length - 1

(* The linker keeps the sections apart, and the kernel's region, which is  *)
(* 128 TB, has room for the direct map of all memory and for its bitmap.   *)
ASSUME LayoutAssumption ==
  /\ \A i \in DOMAIN Sections : SectionPages(i) \subseteq VPages
  /\ \A i, j \in DOMAIN Sections : i # j => SectionPages(i) \cap SectionPages(j) = {}
  /\ \A m \in MemoryMaps : \E n \in 0..RegionPages :
       LET direct == DirectBase .. DirectBase + n - 1
           size   == DivRoundUp(AlignUp(n, Block), BitmapSpan)
       IN  /\ \A i \in 1..Len(m) : IsMapped(m[i]) => m[i].base + m[i].length <= n
           /\ direct \subseteq VPages
           /\ \A i \in DOMAIN Sections : direct \cap SectionPages(i) = {}
           /\ \E b \in 0..(RegionPages - size) :
                /\ (b .. b + size - 1) \cap direct = {}
                /\ \A i \in DOMAIN Sections : (b .. b + size - 1) \cap SectionPages(i) = {}

(* early_map_direct_map leaves out the reclaimable entries *)
DirectUsable(e) ==
  [virt |-> DirectBase + e.base, phys |-> e.base, length |-> IF IsUsable(e) THEN e.length ELSE 0]

(* What early_map_direct_map maps for an entry *)
DirectRange(e) ==
  [virt |-> DirectBase + e.base, phys |-> e.base, length |-> IF IsMapped(e) THEN e.length ELSE 0]

(* The last block of an entry left out when the entry ends inside it *)
BitmapWholeBlocks(e) ==
  LET start == AlignDown(e.base, Block) \div BitmapSpan
      end   == DivRoundUp(AlignDown(e.base + e.length, Block), BitmapSpan)
  IN  [virt |-> bitmapAt + start, phys |-> None, length |-> IF IsMapped(e) THEN end - start ELSE 0]

(* The pages of the bitmap that early_create_buddy_bitmap maps for an      *)
(* entry: all bits of the largest blocks the entry touches                 *)
BitmapRange(e) ==
  LET start == AlignDown(e.base, Block) \div BitmapSpan
      end   == DivRoundUp(AlignUp(e.base + e.length, Block), BitmapSpan)
  IN  [virt |-> bitmapAt + start, phys |-> None, length |-> IF IsMapped(e) THEN end - start ELSE 0]

(* The ranges each phase maps, one after the other *)
Ranges ==
  CASE at.phase = "kernel" -> Sections
    [] at.phase = "direct" -> [i \in 1..Len(memmap) |-> DirectRange(memmap[i])]
    [] at.phase = "bitmap" -> [i \in 1..Len(memmap) |-> BitmapRange(memmap[i])]
    [] OTHER               -> <<>>

Mapping == at.entry <= Len(Ranges)
Inside == Mapping /\ at.page < Ranges[at.entry].length
Virt == Ranges[at.entry].virt + at.page
Phys == Ranges[at.entry].phys + at.page

(* early_virt_get_next_level: the highest table that is missing *)
early_virt_get_next_level ==
  /\ Inside /\ Missing(Virt) # {}
  /\ early_phys_alloc_page
  /\ LET l == CHOOSE l \in Missing(Virt) : \A m \in Missing(Virt) : m <= l
     IN  tables' = WithTable(TableOf(Virt, l), NewPage)
  /\ UNCHANGED <<memmap, pte, bitmapAt, given, total, committed, at>>

(* One page of early_virt_map, and its assertion *)
early_virt_map ==
  /\ Inside /\ Missing(Virt) = {} /\ at.phase \in {"kernel", "direct"}
  /\ \/ pte[Virt] # None /\ Stop("panic") /\ UNCHANGED pte
     \/ pte[Virt] = None /\ pte' = [pte EXCEPT ![Virt] = Phys] /\ NextPage
  /\ UNCHANGED <<memmap, early, tables, bitmapAt, given, total, committed>>

(* One page of the bitmap: neighbouring entries may share it. *)
BitmapPage ==
  /\ Inside /\ Missing(Virt) = {} /\ at.phase = "bitmap"
  /\ \/ pte[Virt] # None /\ UNCHANGED <<early, pte>>
     \/ pte[Virt] = None /\ early_phys_alloc_page /\ pte' = [pte EXCEPT ![Virt] = NewPage]
  /\ NextPage
  /\ UNCHANGED <<memmap, tables, bitmapAt, given, total, committed>>

RangeDone ==
  /\ Mapping /\ at.page = Ranges[at.entry].length
  /\ NextEntry
  /\ UNCHANGED <<memmap, early, tables, pte, bitmapAt, given, total, committed>>

KernelDone ==
  /\ at.phase = "kernel" /\ ~Mapping /\ Phase("direct")
  /\ UNCHANGED <<memmap, early, tables, pte, bitmapAt, given, total, committed>>

(* After the direct map: the new table is loaded, the kernel's vmars are   *)
(* linked, and the bitmap is placed, first fit (module Gaps).              *)
Taken ==
  (DirectBase .. DirectBase + DirectPages - 1)
    \cup UNION {SectionPages(i) : i \in DOMAIN Sections}
BitmapPages == DivRoundUp(AlignUp(DirectPages, Block), BitmapSpan)
BitmapPlaces == {v \in 0..(RegionPages - BitmapPages) : (v .. v + BitmapPages - 1) \cap Taken = {}}

DirectDone ==
  /\ at.phase = "direct" /\ ~Mapping
  /\ \/ BitmapPlaces = {} /\ Stop("panic") /\ UNCHANGED bitmapAt
     \/ /\ BitmapPlaces # {}
        /\ bitmapAt' = CHOOSE v \in BitmapPlaces : \A w \in BitmapPlaces : v <= w
        /\ Phase("bitmap")
  /\ UNCHANGED <<memmap, early, tables, pte, given, total, committed>>

BitmapDone ==
  /\ at.phase = "bitmap" /\ ~Mapping /\ Phase("add")
  /\ UNCHANGED <<memmap, early, tables, pte, bitmapAt, given, total, committed>>

(* ASSERT(!"Ran out of memory during boot"), wherever a page is needed *)
NeedsPage ==
  \/ at.phase = "root"
  \/ Inside /\ (Missing(Virt) # {} \/ (at.phase = "bitmap" /\ pte[Virt] = None))
RanOut ==
  /\ NeedsPage /\ OutOfMemory
  /\ Stop("out of memory")
  /\ UNCHANGED <<memmap, early, tables, pte, bitmapAt, given, total, committed>>

-----------------------------------------------------------------------------
(* early_phys_add_memory *)

(* The entry the early allocator is in given away whole *)
WholeEntry(e) == IF ~IsUsable(e) \/ e.base + e.length < early.top THEN {} ELSE PagesOf(e)

(* What of an entry is left for the buddy allocator *)
LeftOf(e) ==
  LET end  == e.base + e.length
      base == IF e.base < early.top THEN early.top ELSE e.base
  IN  IF ~IsUsable(e) \/ end < early.top THEN {} ELSE base .. end - 1

AddEntry ==
  /\ at.phase = "add" /\ at.entry <= Len(memmap)
  /\ given' = given \cup LeftOf(memmap[at.entry])
  /\ total' = total + Cardinality(LeftOf(memmap[at.entry]))
  /\ NextEntry
  /\ UNCHANGED <<memmap, early, tables, pte, bitmapAt, committed>>

(* mem_acct_add_committed: committed, and part of the total *)
AddCommitted ==
  /\ at.phase = "add" /\ at.entry > Len(memmap)
  /\ committed' = committed + early.count
  /\ total' = total + early.count
  /\ Phase("done")
  /\ UNCHANGED <<memmap, early, tables, pte, bitmapAt, given>>

EarlyNext ==
  \/ AllocRoot \/ early_virt_get_next_level \/ early_virt_map \/ BitmapPage
  \/ RangeDone \/ KernelDone \/ DirectDone \/ BitmapDone \/ RanOut
  \/ AddEntry \/ AddCommitted

EarlySpec == EarlyInit /\ [][EarlyNext]_earlyVars

-----------------------------------------------------------------------------
(* Properties *)

UsablePages == UNION {PagesOf(memmap[i]) : i \in {j \in DOMAIN memmap : IsUsable(memmap[j])}}
MappedPages == UNION {PagesOf(memmap[i]) : i \in {j \in DOMAIN memmap : IsMapped(memmap[j])}}
BitmapUsed == IF bitmapAt = None THEN {}
              ELSE {v \in bitmapAt .. bitmapAt + BitmapPages - 1 : pte[v] # None}
EarlyPages == {tables[t] : t \in DOMAIN tables} \cup {pte[v] : v \in BitmapUsed}

(* Every page of a table and of the bitmap is a usable page of its own,    *)
(* however the allocator moved from entry to entry, and none of them goes  *)
(* to the buddy allocator (virt.c:284).                                    *)
EarlyPagesApart ==
  /\ EarlyPages \subseteq UsablePages
  /\ Cardinality(EarlyPages) = Cardinality(DOMAIN tables) + Cardinality(BitmapUsed)
  /\ given \cap EarlyPages = {} /\ given \subseteq UsablePages

(* In the end no usable page is lost: it was handed out early and counts   *)
(* as committed, or the buddy allocator has it, and the total is exact.    *)
NoMemoryLost ==
  at.phase = "done" =>
    /\ given \cup EarlyPages = UsablePages
    /\ committed = Cardinality(EarlyPages)
    /\ total = Cardinality(UsablePages)

(* "merging with a buddy outside the entry never touches an unmapped page" *)
(* (virt.c:243): all bits of the largest block around a page that the      *)
(* buddy allocator got are mapped, inside g_buddy_bitmap_mapping.          *)
BitmapCovers ==
  at.phase = "done" =>
    \A p \in given : \A q \in AlignDown(p, Block) .. AlignDown(p, Block) + Block - 1 :
      bitmapAt + q \div BitmapSpan \in BitmapUsed

(* After the switch to the new table every page table, every page of the   *)
(* bitmap and every page of the buddy allocator can be reached through the *)
(* direct map, which shows exactly the usable and the reclaimable pages;   *)
(* the kernel image is mapped whole, and no entry is written twice.        *)
DirectMapExact ==
  /\ at.phase # "panic"
  /\ at.phase \in {"bitmap", "add", "done"} =>
       /\ \A p \in 0 .. DirectPages - 1 :
            pte[DirectBase + p] = (IF p \in MappedPages THEN p ELSE None)
       /\ EarlyPages \cup given \subseteq MappedPages
       /\ \A i \in DOMAIN Sections : \A k \in 0 .. Sections[i].length - 1 :
            pte[Sections[i].virt + k] = Sections[i].phys + k
=============================================================================
