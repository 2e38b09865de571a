--------------------------- MODULE EarlyMemProofs ---------------------------
(***************************************************************************)
(* The memory that is handed out before the buddy allocator exists, for    *)
(* every memory map the bootloader may report, sorted and disjoint, every  *)
(* image, size of the region, depth of the page table and size of a block: *)
(* no page is used twice, none is lost, the bitmap of the buddy allocator  *)
(* covers every block that it can touch, and the direct map is exact.      *)
(***************************************************************************)
EXTENDS EarlyMem, FiniteSetTheorems, WellFoundedInduction, TLAPS

Phases == {"root", "kernel", "direct", "bitmap", "add", "done", "panic", "out of memory"}

EarlyTypeOK ==
  /\ memmap \in MemoryMaps
  /\ early \in [top : Nat, size : Nat, count : Nat]
  /\ IsFiniteSet(DOMAIN tables)
  /\ pte \in [VPages -> Nat \cup {None}]
  /\ bitmapAt \in Nat \cup {None}
  /\ total \in Nat /\ committed \in Nat
  /\ at \in [phase : Phases, entry : Nat \ {0}, page : Nat]

(* The early allocator is inside a usable entry that it will use to the    *)
(* end, or between two: no usable entry reaches across the top.            *)
AllocatorOK ==
  /\ early.size # 0 =>
       \E i \in 1..Len(memmap) :
         /\ IsUsable(memmap[i]) /\ memmap[i].base <= early.top
         /\ early.top + early.size = memmap[i].base + memmap[i].length
  /\ early.size = 0 =>
       \A i \in 1..Len(memmap) : IsUsable(memmap[i]) =>
         memmap[i].base + memmap[i].length <= early.top \/ memmap[i].base >= early.top

(* What was handed out is all usable memory below the top, and each page   *)
(* of it is one table or one page of the bitmap.                           *)
PagesCounted ==
  /\ EarlyPages = {p \in UsablePages : p < early.top}
  /\ IsFiniteSet(EarlyPages) /\ Cardinality(EarlyPages) = early.count
  /\ Cardinality(DOMAIN tables) + Cardinality(BitmapUsed) = early.count

(* The root is the first table. *)
RootFirst == at.phase = "root" => DOMAIN tables = {}

(* The bitmap is placed apart from what is mapped before it. *)
BitmapApart ==
  /\ at.phase \in {"root", "kernel", "direct"} =>
       bitmapAt = None /\ \A v \in VPages : pte[v] # None => v \in Taken
  /\ at.phase \in {"bitmap", "add", "done"} => bitmapAt # None
  /\ bitmapAt # None => bitmapAt \in BitmapPlaces

(* The pages of the bitmap that must be mapped by now *)
MustBeMapped(i, k) ==
  /\ \/ at.phase = "bitmap" /\ (i < at.entry \/ (i = at.entry /\ k < at.page))
     \/ at.phase \in {"add", "done"}
  /\ k < BitmapRange(memmap[i]).length

BitmapMapped ==
  \A i \in 1..Len(memmap) : \A k \in Nat :
    MustBeMapped(i, k) => pte[BitmapRange(memmap[i]).virt + k] # None

(* What the buddy allocator got so far *)
GivenOK ==
  /\ IsFiniteSet(given) /\ total = Cardinality(given) + committed
  /\ at.phase \notin {"add", "done"} => given = {}
  /\ at.phase = "add" =>
       given = {p \in UsablePages : p >= early.top /\
                  \E i \in 1..Len(memmap) : i < at.entry /\ p \in PagesOf(memmap[i])}
  /\ at.phase = "done" => given = {p \in UsablePages : p >= early.top}
  /\ committed = IF at.phase = "done" THEN early.count ELSE 0

EarlyInv ==
  /\ EarlyTypeOK /\ AllocatorOK /\ PagesCounted /\ RootFirst
  /\ BitmapApart /\ BitmapMapped /\ GivenOK

-----------------------------------------------------------------------------
(* Division and alignment *)

LEMMA DivMod ==
  ASSUME NEW a \in Int, NEW k \in Nat \ {0}
  PROVE  a \div k \in Int /\ a % k \in 0..(k - 1) /\ a = k * (a \div k) + (a % k)
OBVIOUS

LEMMA MulMono ==
  ASSUME NEW q \in Int, NEW r \in Int, NEW k \in Nat, q <= r
  PROVE  k * q <= k * r
OBVIOUS

LEMMA DivMono ==
  ASSUME NEW a \in Int, NEW b \in Int, NEW k \in Nat \ {0}, a <= b
  PROVE  a \div k <= b \div k
OBVIOUS

LEMMA DivNext ==
  ASSUME NEW a \in Int, NEW k \in Nat \ {0}
  PROVE  (a + k) \div k = a \div k + 1
OBVIOUS

LEMMA AlignDownMono ==
  ASSUME NEW a \in Int, NEW b \in Int, NEW k \in Nat \ {0}, a <= b
  PROVE  AlignDown(a, k) \in Int /\ AlignDown(b, k) \in Int /\ AlignDown(a, k) <= AlignDown(b, k)
<1>1. a % k \in Int /\ b % k \in Int
  BY DivMod
<1> QED
  BY <1>1 DEF AlignDown

(* The block around a page below the end of an entry ends before the end   *)
(* that is aligned up.                                                     *)
LEMMA BlockBelowEnd ==
  ASSUME NEW a \in Int, NEW b \in Int, NEW k \in Nat \ {0}, a < b
  PROVE  /\ AlignDown(a, k) \in Int /\ AlignUp(b, k) \in Int
         /\ AlignDown(a, k) + k <= AlignUp(b, k)
<1>1. PICK q \in Int, m \in 0..(k - 1) : a = k * q + m /\ m = a % k
  BY DivMod
<1>2. PICK r \in Int, n \in 0..(k - 1) : b + k - 1 = k * r + n /\ n = (b + k - 1) % k
  <2>1. b + k - 1 \in Int
    OBVIOUS
  <2> QED
    BY <2>1, DivMod
<1>3. k * q \in Int /\ k * r \in Int /\ k * (q + 1) = k * q + k
  OBVIOUS
<1>4. q + 1 <= r
  <2> SUFFICES ASSUME r <= q PROVE FALSE
    OBVIOUS
  <2>1. k * r <= k * q
    BY MulMono
  <2> QED
    BY <1>1, <1>2, <1>3, <2>1
<1>5. k * (q + 1) <= k * r
  BY <1>4, MulMono
<1>6. AlignDown(a, k) = k * q
  BY <1>1, <1>3 DEF AlignDown
<1>7. AlignUp(b, k) = k * r
  BY <1>2, <1>3 DEF AlignUp, AlignDown
<1> QED
  BY <1>3, <1>5, <1>6, <1>7

LEMMA LeastExists ==
  ASSUME NEW T, T \subseteq Nat, T # {}
  PROVE  \E x \in T : \A y \in T : x <= y
<1>1. PICK x \in T : \A y \in T : ~ (<<y, x>> \in OpToRel(<, Nat))
  BY NatLessThanWellFounded, WFMin
<1>2. \A y \in T : ~ (y < x)
  BY <1>1 DEF OpToRel
<1> QED
  BY <1>2

LEMMA GreatestExists ==
  ASSUME NEW T, NEW n \in Nat, T \subseteq 0..n, T # {}
  PROVE  \E x \in T : \A y \in T : y <= x
<1> DEFINE U == {n - x : x \in T}
<1>1. U \subseteq Nat /\ U # {}
  <2>1. \A x \in T : n - x \in Nat
    OBVIOUS
  <2> QED
    BY <2>1
<1>2. PICK u \in U : \A y \in U : u <= y
  <2> HIDE DEF U
  <2> QED
    BY <1>1, LeastExists
<1>3. PICK x \in T : u = n - x
  OBVIOUS
<1>4. \A y \in T : n - x <= n - y
  BY <1>2, <1>3
<1> QED
  BY <1>4

-----------------------------------------------------------------------------
(* The entries of the memory map are in order and apart. *)
MapInOrder ==
  /\ Len(memmap) \in Nat /\ DOMAIN memmap = 1..Len(memmap)
  /\ \A i \in 1..Len(memmap) : memmap[i].base \in Nat /\ memmap[i].length \in Nat \ {0}
  /\ \A i, j \in 1..Len(memmap) :
       i < j => memmap[j].base >= memmap[i].base + memmap[i].length

LEMMA MapFacts ==
  ASSUME memmap \in MemoryMaps
  PROVE  MapInOrder
<1>1. memmap \in Seq(Entry)
  BY EarlyAssumption
<1>2. /\ Len(memmap) \in Nat /\ DOMAIN memmap = 1..Len(memmap)
      /\ \A i \in 1..Len(memmap) : memmap[i] \in Entry
  BY <1>1
<1> QED
  BY <1>2, EarlyAssumption DEF Entry, MapInOrder

LEMMA UsableIff ==
  ASSUME memmap \in MemoryMaps
  PROVE  \A p : p \in UsablePages <=>
           p \in Nat /\ \E i \in 1..Len(memmap) :
             /\ IsUsable(memmap[i])
             /\ memmap[i].base <= p /\ p < memmap[i].base + memmap[i].length
<1>1. \A p : p \in UsablePages <=>
        \E i \in 1..Len(memmap) : IsUsable(memmap[i]) /\ p \in PagesOf(memmap[i])
  BY MapFacts DEF UsablePages, MapInOrder
<1>2. \A i \in 1..Len(memmap) : \A p : p \in PagesOf(memmap[i]) <=>
        p \in Nat /\ memmap[i].base <= p /\ p < memmap[i].base + memmap[i].length
  BY MapFacts DEF PagesOf, MapInOrder
<1> QED
  BY <1>1, <1>2

(* early_phys_alloc_page hands out the next usable page at or above the    *)
(* top, skips none, and stays inside the usable entries.                   *)
LEMMA NextPageHandedOut ==
  ASSUME memmap \in MemoryMaps, early \in [top : Nat, size : Nat, count : Nat],
         AllocatorOK, early_phys_alloc_page, memmap' = memmap
  PROVE  /\ early' \in [top : Nat, size : Nat, count : Nat] /\ early'.count = early.count + 1
         /\ NewPage \in UsablePages /\ NewPage \in Nat /\ NewPage >= early.top
         /\ {p \in UsablePages : p < early'.top} = {p \in UsablePages : p < early.top} \cup {NewPage}
         /\ AllocatorOK'
<1>1. MapInOrder
  BY MapFacts
<1>2. PICK i \in 1..Len(memmap), n \in Nat, z \in Nat \ {0} :
        /\ Refilled = [top |-> n, size |-> z, count |-> early.count]
        /\ IsUsable(memmap[i]) /\ memmap[i].base <= n /\ n + z = memmap[i].base + memmap[i].length
        /\ early.top <= n
        /\ \A j \in 1..Len(memmap) :
             IsUsable(memmap[j]) /\ memmap[j].base + memmap[j].length > early.top
               => n = early.top \/ memmap[j].base >= n
  <2>1. CASE early.size # 0
    <3>1. Refilled = [top |-> early.top, size |-> early.size, count |-> early.count]
      BY <2>1 DEF Refilled
    <3>2. PICK i \in 1..Len(memmap) :
            /\ IsUsable(memmap[i]) /\ memmap[i].base <= early.top
            /\ early.top + early.size = memmap[i].base + memmap[i].length
      BY <2>1 DEF AllocatorOK
    <3> QED
      BY <2>1, <3>1, <3>2
  <2>2. CASE early.size = 0
    <3>1. Candidates # {} /\ Candidates \subseteq Nat
      BY <1>1, <2>2 DEF early_phys_alloc_page, OutOfMemory, Candidates, MapInOrder
    <3>2. PICK k \in Candidates : \A j \in Candidates : k <= j
      BY <3>1, LeastExists
    <3> DEFINE i == CHOOSE i \in Candidates : \A j \in Candidates : i <= j
    <3>3. i \in Candidates /\ \A j \in Candidates : i <= j
      BY <3>2
    <3>4. Refilled = [early EXCEPT !.top = memmap[i].base, !.size = memmap[i].length]
      BY <2>2 DEF Refilled
    <3> HIDE DEF i
    <3>5. i \in 1..Len(memmap) /\ IsUsable(memmap[i]) /\ memmap[i].base >= early.top
      BY <3>3 DEF Candidates
    <3>6. /\ Refilled = [top |-> memmap[i].base, size |-> memmap[i].length, count |-> early.count]
          /\ memmap[i].base \in Nat /\ memmap[i].length \in Nat \ {0}
      BY <1>1, <3>4, <3>5 DEF MapInOrder
    <3>7. ASSUME NEW j \in 1..Len(memmap), IsUsable(memmap[j]),
                 memmap[j].base + memmap[j].length > early.top
          PROVE  memmap[j].base >= memmap[i].base
      <4>1. memmap[j].base \in Nat /\ memmap[j].length \in Nat
        BY <1>1 DEF MapInOrder
      <4>2. memmap[j].base >= early.top
        BY <2>2, <3>7, <4>1 DEF AllocatorOK
      <4>3. i <= j
        BY <3>3, <3>7, <4>2 DEF Candidates
      <4> QED
        BY <1>1, <3>5, <4>3 DEF MapInOrder
    <3>8. \A j \in 1..Len(memmap) :
            IsUsable(memmap[j]) /\ memmap[j].base + memmap[j].length > early.top
              => memmap[i].base = early.top \/ memmap[j].base >= memmap[i].base
      BY <3>7
    <3>9. early.top <= memmap[i].base /\ memmap[i].base <= memmap[i].base
      BY <3>5, <3>6
    <3> QED
      BY <3>5, <3>6, <3>8, <3>9, Zenon
  <2> QED
    BY <2>1, <2>2
<1>3. early' = [top |-> n + 1, size |-> z - 1, count |-> early.count + 1]
  BY <1>2 DEF early_phys_alloc_page
<1>4. early' \in [top : Nat, size : Nat, count : Nat] /\ early'.count = early.count + 1
  BY <1>3
<1>5. /\ early'.top = n + 1 /\ early'.size = z - 1 /\ early.top \in Nat
      /\ memmap[i].base \in Nat /\ memmap[i].length \in Nat
  BY <1>1, <1>3 DEF MapInOrder
<1>6. NewPage = n /\ n >= early.top
  BY <1>2 DEF NewPage
<1>7. n \in UsablePages
  BY <1>2, <1>5, UsableIff
<1>8. ASSUME NEW p \in UsablePages, p < n PROVE p < early.top
  <2>1. PICK j \in 1..Len(memmap) : /\ IsUsable(memmap[j]) /\ p \in Nat
                                   /\ memmap[j].base <= p /\ p < memmap[j].base + memmap[j].length
    BY UsableIff
  <2>2. memmap[j].base \in Nat /\ memmap[j].length \in Nat
    BY <1>1 DEF MapInOrder
  <2>3. ASSUME early.top <= p PROVE FALSE
    <3>1. memmap[j].base + memmap[j].length > early.top
      BY <1>5, <2>1, <2>2, <2>3
    <3>2. n = early.top \/ memmap[j].base >= n
      BY <1>2, <2>1, <3>1
    <3> QED
      BY <1>5, <1>8, <2>1, <2>2, <2>3, <3>2
  <2> QED
    BY <1>5, <2>1, <2>3
<1>9. {p \in UsablePages : p < early'.top} = {p \in UsablePages : p < early.top} \cup {NewPage}
  <2>1. \A p \in UsablePages : p \in Nat
    BY UsableIff
  <2>2. \A p \in UsablePages : p < early'.top <=> p < early.top \/ p = n
    BY <1>5, <1>6, <1>8, <2>1
  <2> QED
    BY <1>6, <1>7, <2>2
<1>10. AllocatorOK'
  <2>1. CASE z # 1
    <3>1. early'.size # 0 /\ memmap[i].base <= early'.top
      BY <1>2, <1>5, <2>1
    <3>2. early'.top + early'.size = n + z
      BY <1>5
    <3>3. IsUsable(memmap[i]) /\ early'.top + early'.size = memmap[i].base + memmap[i].length
      BY <1>2, <3>2
    <3> QED
      BY <3>1, <3>3 DEF AllocatorOK
  <2>2. CASE z = 1
    <3>1. early'.top = memmap[i].base + memmap[i].length /\ early'.size = 0
      BY <1>2, <1>5, <2>2
    <3>2. ASSUME NEW j \in 1..Len(memmap)
          PROVE  memmap[j].base + memmap[j].length <= early'.top \/ memmap[j].base >= early'.top
      <4>1. j < i \/ j = i \/ i < j
        BY <1>1 DEF MapInOrder
      <4>2. memmap[j].base \in Nat /\ memmap[j].length \in Nat
        BY <1>1 DEF MapInOrder
      <4>3. j < i => memmap[i].base >= memmap[j].base + memmap[j].length
        BY <1>1 DEF MapInOrder
      <4>4. i < j => memmap[j].base >= memmap[i].base + memmap[i].length
        BY <1>1 DEF MapInOrder
      <4> QED
        BY <1>5, <3>1, <4>1, <4>2, <4>3, <4>4
    <3> QED
      BY <3>1, <3>2 DEF AllocatorOK
  <2> QED
    BY <2>1, <2>2
<1> QED
  BY <1>4, <1>6, <1>7, <1>9, <1>10

(* The direct map reaches the end of every entry it has to show. *)
LEMMA DirectReaches ==
  ASSUME memmap \in MemoryMaps
  PROVE  /\ DirectPages \in Nat
         /\ \A i \in 1..Len(memmap) :
              IsMapped(memmap[i]) => memmap[i].base + memmap[i].length <= DirectPages
<1>0. MapInOrder
  BY MapFacts
<1> DEFINE mapped == {i \in 1..Len(memmap) : IsMapped(memmap[i])}
           last == CHOOSE i \in mapped : \A j \in mapped : j <= i
<1>1. CASE mapped = {}
  BY <1>0, <1>1 DEF DirectPages
<1>2. CASE mapped # {}
  <2>1. mapped \subseteq 0..Len(memmap)
    BY <1>0 DEF MapInOrder
  <2>2. PICK k \in mapped : \A j \in mapped : j <= k
    <3> HIDE DEF mapped
    <3> QED
      BY <1>0, <1>2, <2>1, GreatestExists DEF MapInOrder
  <2>3. last \in mapped /\ \A j \in mapped : j <= last
    BY <2>2
  <2>4. DirectPages = memmap[last].base + memmap[last].length
    BY <1>2 DEF DirectPages
  <2> HIDE DEF last
  <2>5. ASSUME NEW i \in mapped
        PROVE  memmap[i].base + memmap[i].length <= memmap[last].base + memmap[last].length
    <3>1. i = last \/ i < last
      BY <1>0, <2>3 DEF MapInOrder
    <3> QED
      BY <1>0, <2>3, <3>1 DEF MapInOrder
  <2> QED
    BY <1>0, <2>3, <2>4, <2>5 DEF MapInOrder
<1> QED
  BY <1>1, <1>2

(* The size and the place of the bitmap *)
LEMMA BitmapPlaced ==
  ASSUME memmap \in MemoryMaps
  PROVE  /\ BitmapPages \in Nat /\ BitmapPlaces \subseteq Nat
         /\ \A b \in BitmapPlaces : \A v \in b..(b + BitmapPages - 1) : v \in VPages \ Taken
<1>1. Block \in Nat \ {0} /\ BitmapSpan \in Nat \ {0} /\ RegionPages \in Nat /\ DirectPages \in Nat
  BY EarlyAssumption, DirectReaches
<1>2. AlignUp(DirectPages, Block) \in Nat
  <2>1. DirectPages + Block - 1 \in Int /\ 0 <= DirectPages + Block - 1 /\ 0 \in Int
    BY <1>1
  <2>2. /\ AlignDown(0, Block) <= AlignDown(DirectPages + Block - 1, Block)
        /\ AlignDown(DirectPages + Block - 1, Block) \in Int
    BY <1>1, <2>1, AlignDownMono
  <2>3. AlignDown(0, Block) = 0
    BY <1>1 DEF AlignDown
  <2> QED
    BY <2>2, <2>3 DEF AlignUp
<1>3. BitmapPages \in Nat
  BY <1>1, <1>2 DEF BitmapPages, DivRoundUp
<1>4. ASSUME NEW b \in BitmapPlaces, NEW v \in b..(b + BitmapPages - 1)
      PROVE  v \in VPages /\ v \notin Taken
  BY <1>1, <1>3 DEF BitmapPlaces, VPages
<1> QED
  BY <1>1, <1>3, <1>4 DEF BitmapPlaces

(* The part of the bitmap that an entry needs is inside the bitmap. *)
LEMMA BitmapRangeInside ==
  ASSUME memmap \in MemoryMaps, bitmapAt \in BitmapPlaces, NEW i \in 1..Len(memmap),
         NEW k \in Nat, k < BitmapRange(memmap[i]).length
  PROVE  BitmapRange(memmap[i]).virt + k \in bitmapAt..(bitmapAt + BitmapPages - 1)
<1> DEFINE e == memmap[i]
           start == AlignDown(e.base, Block) \div BitmapSpan
           end == DivRoundUp(AlignUp(e.base + e.length, Block), BitmapSpan)
<1>1. Block \in Nat \ {0} /\ BitmapSpan \in Nat \ {0} /\ e.base \in Nat /\ e.length \in Nat
  BY EarlyAssumption, MapFacts DEF MapInOrder
<1>2. /\ BitmapRange(e).virt = bitmapAt + start
      /\ BitmapRange(e).length = IF IsMapped(e) THEN end - start ELSE 0
  BY DEF BitmapRange
<1>3. IsMapped(e) /\ k < end - start
  BY <1>2
<1>4. DirectPages \in Nat /\ e.base + e.length <= DirectPages
  BY <1>3, DirectReaches
<1>5. start \in Nat
  <2>1. AlignDown(e.base, Block) \in Int /\ AlignDown(0, Block) <= AlignDown(e.base, Block)
    <3>1. 0 \in Int /\ e.base \in Int /\ 0 <= e.base
      BY <1>1
    <3> HIDE DEF e
    <3> QED
      BY <1>1, <3>1, AlignDownMono
  <2>2. AlignDown(0, Block) = 0
    BY <1>1 DEF AlignDown
  <2> QED
    BY <1>1, <2>1, <2>2
<1>6. end \in Int /\ end <= BitmapPages
  <2> DEFINE x == e.base + e.length + Block - 1
             y == DirectPages + Block - 1
  <2>1. x \in Int /\ y \in Int /\ x <= y
    BY <1>1, <1>4
  <2>2. AlignDown(x, Block) \in Int /\ AlignDown(y, Block) \in Int /\ AlignDown(x, Block) <= AlignDown(y, Block)
    <3> HIDE DEF x, y
    <3> QED
      BY <1>1, <2>1, AlignDownMono
  <2>3. AlignUp(e.base + e.length, Block) = AlignDown(x, Block) /\ AlignUp(DirectPages, Block) = AlignDown(y, Block)
    BY DEF AlignUp
  <2> HIDE DEF x, y
  <2>4. (AlignDown(x, Block) + BitmapSpan - 1) \div BitmapSpan
          <= (AlignDown(y, Block) + BitmapSpan - 1) \div BitmapSpan
    <3>1. /\ AlignDown(x, Block) + BitmapSpan - 1 \in Int /\ AlignDown(y, Block) + BitmapSpan - 1 \in Int
          /\ AlignDown(x, Block) + BitmapSpan - 1 <= AlignDown(y, Block) + BitmapSpan - 1
      BY <1>1, <2>2
    <3> QED
      BY <1>1, <3>1, DivMono
  <2>5. end = (AlignDown(x, Block) + BitmapSpan - 1) \div BitmapSpan
    BY <2>3 DEF DivRoundUp
  <2>6. BitmapPages = (AlignDown(y, Block) + BitmapSpan - 1) \div BitmapSpan
    BY <2>3 DEF BitmapPages, DivRoundUp
  <2>7. (AlignDown(x, Block) + BitmapSpan - 1) \div BitmapSpan \in Int
    BY <1>1, <2>2
  <2> HIDE DEF end
  <2> QED
    BY <2>4, <2>5, <2>6, <2>7
<1>7. bitmapAt \in Nat /\ BitmapPages \in Nat
  BY BitmapPlaced
<1> HIDE DEF start, end
<1> QED
  BY <1>2, <1>3, <1>5, <1>6, <1>7

(* What the kernel's sections and the direct map take is what the bitmap   *)
(* is placed around.                                                       *)
LEMMA MappedBefore ==
  ASSUME memmap \in MemoryMaps, at \in [phase : Phases, entry : Nat \ {0}, page : Nat],
         at.phase \in {"kernel", "direct"}, Inside
  PROVE  Virt \in Taken /\ Phys \in Nat
<1>1. CASE at.phase = "kernel"
  <2>1. Ranges = Sections /\ at.entry \in 1..Len(Sections) /\ at.page < Sections[at.entry].length
    BY <1>1, EarlyAssumption DEF Ranges, Inside, Mapping
  <2>2. /\ Sections[at.entry].virt \in Nat /\ Sections[at.entry].phys \in Nat
        /\ Sections[at.entry].length \in Nat /\ at.entry \in DOMAIN Sections
    <3> DEFINE Section == [virt : Nat, phys : Nat, length : Nat]
    <3>1. Sections \in Seq(Section)
      BY EarlyAssumption
    <3> HIDE DEF Section
    <3>2. \A i \in 1..Len(Sections) : i \in DOMAIN Sections /\ Sections[i] \in Section
      BY <3>1
    <3> QED
      BY <2>1, <3>2 DEF Section
  <2>3. /\ Virt \in Sections[at.entry].virt .. Sections[at.entry].virt + Sections[at.entry].length - 1
        /\ Phys \in Nat
    BY <2>1, <2>2 DEF Virt, Phys
  <2> QED
    BY <2>2, <2>3 DEF Taken, SectionPages
<1>2. CASE at.phase = "direct"
  <2>1. MapInOrder
    BY MapFacts
  <2>2. Ranges = [i \in 1..Len(memmap) |-> DirectRange(memmap[i])]
    BY <1>2 DEF Ranges
  <2>3. Len(Ranges) = Len(memmap)
    BY <2>1, <2>2 DEF MapInOrder
  <2>4. at.entry \in 1..Len(memmap) /\ Ranges[at.entry] = DirectRange(memmap[at.entry])
    BY <2>1, <2>2, <2>3 DEF MapInOrder, Inside, Mapping
  <2>5. /\ memmap[at.entry].base \in Nat /\ memmap[at.entry].length \in Nat
        /\ IsMapped(memmap[at.entry]) /\ at.page < memmap[at.entry].length
        /\ Virt = DirectBase + memmap[at.entry].base + at.page
        /\ Phys = memmap[at.entry].base + at.page
    BY <2>1, <2>4 DEF MapInOrder, Inside, DirectRange, Virt, Phys
  <2>6. memmap[at.entry].base + memmap[at.entry].length <= DirectPages /\ DirectPages \in Nat
    BY <2>4, <2>5, DirectReaches
  <2>7. Virt \in DirectBase .. DirectBase + DirectPages - 1 /\ Phys \in Nat
    <3>1. DirectBase \in Nat /\ at.page \in Nat
      BY EarlyAssumption
    <3> QED
      BY <2>5, <2>6, <3>1
  <2> QED
    BY <2>7 DEF Taken
<1> QED
  BY <1>1, <1>2

-----------------------------------------------------------------------------
(* What depends on the memory map alone does not change. *)
LEMMA MapUnchanged ==
  ASSUME memmap' = memmap
  PROVE  /\ UsablePages' = UsablePages /\ Taken' = Taken
         /\ BitmapPages' = BitmapPages /\ BitmapPlaces' = BitmapPlaces
<1>1. UsablePages' = UsablePages
  BY DEF UsablePages
<1>2. DirectPages' = DirectPages
  BY DEF DirectPages
<1>3. Taken' = Taken /\ BitmapPages' = BitmapPages
  BY <1>2 DEF Taken, BitmapPages
<1> QED
  BY <1>1, <1>3 DEF BitmapPlaces

LEMMA BitmapUsedFinite ==
  ASSUME EarlyInv
  PROVE  /\ IsFiniteSet(BitmapUsed) /\ BitmapUsed \subseteq VPages
         /\ bitmapAt # None => bitmapAt \in Nat /\ BitmapPages \in Nat
<1>1. CASE bitmapAt = None
  BY <1>1, FS_EmptySet DEF BitmapUsed
<1>2. CASE bitmapAt # None
  <2>1. bitmapAt \in BitmapPlaces /\ memmap \in MemoryMaps
    BY <1>2 DEF EarlyInv, BitmapApart, EarlyTypeOK
  <2>2. bitmapAt \in Nat /\ BitmapPages \in Nat
    BY <2>1, BitmapPlaced
  <2>3. BitmapUsed \subseteq bitmapAt..(bitmapAt + BitmapPages - 1)
    BY <1>2 DEF BitmapUsed
  <2>4. IsFiniteSet(bitmapAt..(bitmapAt + BitmapPages - 1))
    <3>1. bitmapAt \in Int /\ bitmapAt + BitmapPages - 1 \in Int
      BY <2>2
    <3> QED
      BY <3>1, FS_Interval
  <2>5. bitmapAt..(bitmapAt + BitmapPages - 1) \subseteq VPages
    BY <2>1, BitmapPlaced
  <2> QED
    BY <2>2, <2>3, <2>4, <2>5, FS_Subset
<1> QED
  BY <1>1, <1>2

(* A step that takes one page for one more table or page of the bitmap *)
LEMMA PageTaken ==
  ASSUME EarlyInv, early_phys_alloc_page, memmap' = memmap,
         EarlyPages' = EarlyPages \cup {NewPage},
         Cardinality(DOMAIN tables') + Cardinality(BitmapUsed')
           = Cardinality(DOMAIN tables) + Cardinality(BitmapUsed) + 1
  PROVE  /\ early' \in [top : Nat, size : Nat, count : Nat]
         /\ AllocatorOK' /\ PagesCounted'
<1>1. /\ memmap \in MemoryMaps /\ early \in [top : Nat, size : Nat, count : Nat] /\ AllocatorOK
      /\ early.count \in Nat /\ early.top \in Nat
  BY DEF EarlyInv, EarlyTypeOK
<1>2. /\ early' \in [top : Nat, size : Nat, count : Nat] /\ early'.count = early.count + 1
      /\ NewPage \in Nat /\ NewPage >= early.top
      /\ {p \in UsablePages : p < early'.top} = {p \in UsablePages : p < early.top} \cup {NewPage}
      /\ AllocatorOK'
  BY <1>1, NextPageHandedOut
<1>3. /\ EarlyPages = {p \in UsablePages : p < early.top}
      /\ IsFiniteSet(EarlyPages) /\ Cardinality(EarlyPages) = early.count
      /\ Cardinality(DOMAIN tables) + Cardinality(BitmapUsed) = early.count
  BY DEF EarlyInv, PagesCounted
<1>4. NewPage \notin EarlyPages
  BY <1>1, <1>2, <1>3
<1>5. IsFiniteSet(EarlyPages') /\ Cardinality(EarlyPages') = Cardinality(EarlyPages) + 1
  BY <1>3, <1>4, FS_AddElement
<1>6. EarlyPages' = {p \in UsablePages' : p < early'.top}
  BY <1>2, <1>3, MapUnchanged
<1>7. Cardinality(EarlyPages') = early'.count
  BY <1>2, <1>3, <1>5
<1>8. Cardinality(DOMAIN tables') + Cardinality(BitmapUsed') = early'.count
  BY <1>2, <1>3
<1> QED
  BY <1>2, <1>5, <1>6, <1>7, <1>8 DEF PagesCounted

(* A page table added in its place *)
LEMMA TableAdded ==
  ASSUME EarlyInv, early_phys_alloc_page, NEW id, id \notin DOMAIN tables,
         tables' = WithTable(id, NewPage), UNCHANGED <<memmap, pte, bitmapAt>>
  PROVE  /\ early' \in [top : Nat, size : Nat, count : Nat] /\ IsFiniteSet(DOMAIN tables')
         /\ AllocatorOK' /\ PagesCounted'
<1>1. BitmapUsed' = BitmapUsed
  BY MapUnchanged DEF BitmapUsed
<1>2. DOMAIN tables' = DOMAIN tables \cup {id}
  BY DEF WithTable
<1>3. /\ tables'[id] = NewPage /\ \A t \in DOMAIN tables : tables'[t] = tables[t]
  BY DEF WithTable
<1>4. EarlyPages' = EarlyPages \cup {NewPage}
  BY <1>1, <1>2, <1>3 DEF EarlyPages
<1>5. IsFiniteSet(DOMAIN tables) /\ IsFiniteSet(BitmapUsed)
  BY BitmapUsedFinite DEF EarlyInv, EarlyTypeOK
<1>6. IsFiniteSet(DOMAIN tables') /\ Cardinality(DOMAIN tables') = Cardinality(DOMAIN tables) + 1
  BY <1>2, <1>5, FS_AddElement
<1>7. Cardinality(DOMAIN tables) \in Nat /\ Cardinality(BitmapUsed) \in Nat
  BY <1>5, FS_CardinalityType
<1>8. Cardinality(DOMAIN tables') + Cardinality(BitmapUsed')
        = Cardinality(DOMAIN tables) + Cardinality(BitmapUsed) + 1
  BY <1>1, <1>6, <1>7
<1> QED
  BY <1>4, <1>6, <1>8, PageTaken

(* A step that takes no page and leaves the tables and the bitmap alone *)
LEMMA PagesStay ==
  ASSUME EarlyInv, UNCHANGED <<memmap, early, tables>>, BitmapUsed' = BitmapUsed,
         \A v \in BitmapUsed : pte'[v] = pte[v]
  PROVE  AllocatorOK' /\ PagesCounted'
<1>1. EarlyPages' = EarlyPages
  BY DEF EarlyPages
<1>2. AllocatorOK'
  BY DEF EarlyInv, AllocatorOK
<1> QED
  BY <1>1, <1>2, MapUnchanged DEF EarlyInv, PagesCounted

-----------------------------------------------------------------------------
(* Three phases map ranges. *)
LEMMA MappingPhases ==
  ASSUME EarlyInv, Mapping
  PROVE  at.phase \in {"kernel", "direct", "bitmap"}
<1> SUFFICES ASSUME at.phase \notin {"kernel", "direct", "bitmap"} PROVE FALSE
  OBVIOUS
<1>1. Ranges = <<>>
  BY DEF Ranges
<1>2. at.entry <= 0 /\ at.entry \in Nat \ {0}
  BY <1>1 DEF Mapping, EarlyInv, EarlyTypeOK
<1> QED
  BY <1>2

(* The program counter stays in its type. *)
LEMMA AtMoves ==
  ASSUME at \in [phase : Phases, entry : Nat \ {0}, page : Nat]
  PROVE  /\ NextPage => /\ at' \in [phase : Phases, entry : Nat \ {0}, page : Nat]
                        /\ at'.phase = at.phase /\ at'.entry = at.entry /\ at'.page = at.page + 1
         /\ NextEntry => /\ at' \in [phase : Phases, entry : Nat \ {0}, page : Nat]
                         /\ at'.phase = at.phase /\ at'.entry = at.entry + 1 /\ at'.page = 0
         /\ \A p \in Phases :
              Phase(p) => /\ at' \in [phase : Phases, entry : Nat \ {0}, page : Nat]
                          /\ at'.phase = p /\ at'.entry = 1 /\ at'.page = 0
         /\ \A p \in Phases :
              Stop(p) => at' \in [phase : Phases, entry : Nat \ {0}, page : Nat] /\ at'.phase = p
<1>1. ASSUME NextPage
      PROVE  /\ at' \in [phase : Phases, entry : Nat \ {0}, page : Nat]
             /\ at'.phase = at.phase /\ at'.entry = at.entry /\ at'.page = at.page + 1
  BY <1>1 DEF NextPage
<1>2. ASSUME NextEntry
      PROVE  /\ at' \in [phase : Phases, entry : Nat \ {0}, page : Nat]
             /\ at'.phase = at.phase /\ at'.entry = at.entry + 1 /\ at'.page = 0
  <2>1. at' = [phase |-> at.phase, entry |-> at.entry + 1, page |-> 0]
    BY <1>2 DEF NextEntry
  <2>2. at.phase \in Phases /\ at.entry + 1 \in Nat \ {0} /\ 0 \in Nat
    OBVIOUS
  <2> QED
    BY <2>1, <2>2
<1>3. ASSUME NEW p \in Phases, Phase(p)
      PROVE  /\ at' \in [phase : Phases, entry : Nat \ {0}, page : Nat]
             /\ at'.phase = p /\ at'.entry = 1 /\ at'.page = 0
  BY <1>3 DEF Phase
<1>4. ASSUME NEW p \in Phases, Stop(p)
      PROVE  at' \in [phase : Phases, entry : Nat \ {0}, page : Nat] /\ at'.phase = p
  BY <1>4 DEF Stop
<1> QED
  BY <1>1, <1>2, <1>3, <1>4

(* Before anything is handed out there is nothing to count. *)
LEMMA EarlyInitInv == EarlyInit => EarlyInv
<1> SUFFICES ASSUME EarlyInit PROVE EarlyInv
  OBVIOUS
<1> USE DEF EarlyInit
<1>1. BitmapUsed = {} /\ DOMAIN tables = {} /\ EarlyPages = {} /\ UsablePages \in SUBSET Nat
  <2>1. BitmapUsed = {} /\ DOMAIN tables = {}
    BY DEF BitmapUsed
  <2>2. EarlyPages = {}
    BY <2>1 DEF EarlyPages
  <2>3. UsablePages \subseteq Nat
    BY UsableIff
  <2> QED
    BY <2>1, <2>2, <2>3
<1>2. IsFiniteSet({}) /\ Cardinality({}) = 0
  BY FS_EmptySet
<1>3. EarlyTypeOK
  BY <1>1, <1>2 DEF EarlyTypeOK, Phases
<1>4. AllocatorOK
  BY MapFacts DEF AllocatorOK, MapInOrder
<1>5. PagesCounted
  <2>1. \A p \in UsablePages : p \in Nat /\ ~ (p < 0)
    BY <1>1
  <2>2. early.top = 0 /\ early.count = 0
    OBVIOUS
  <2>3. EarlyPages = {p \in UsablePages : p < early.top}
    BY <1>1, <2>1, <2>2
  <2>4. Cardinality(DOMAIN tables) + Cardinality(BitmapUsed) = early.count
    BY <1>1, <1>2, <2>2
  <2> QED
    BY <1>1, <1>2, <2>2, <2>3, <2>4 DEF PagesCounted
<1>6. RootFirst /\ BitmapApart /\ BitmapMapped
  BY <1>1 DEF RootFirst, BitmapApart, BitmapMapped, MustBeMapped
<1>7. GivenOK
  BY <1>2 DEF GivenOK
<1> QED
  BY <1>3, <1>4, <1>5, <1>6, <1>7 DEF EarlyInv

(* The root of the page table *)
LEMMA AllocRootKeepsInv ==
  ASSUME EarlyInv, AllocRoot
  PROVE  EarlyInv'
<1>1. /\ at.phase = "root" /\ early_phys_alloc_page /\ tables' = WithTable(<<TableLevels, 0>>, NewPage)
      /\ at' \in [phase : Phases, entry : Nat \ {0}, page : Nat] /\ at'.phase = "kernel"
      /\ UNCHANGED <<memmap, pte, bitmapAt, given, total, committed>>
  BY AtMoves DEF AllocRoot, Phases, EarlyInv, EarlyTypeOK
<1>2. <<TableLevels, 0>> \notin DOMAIN tables
  BY <1>1 DEF EarlyInv, RootFirst
<1>3. /\ early' \in [top : Nat, size : Nat, count : Nat] /\ IsFiniteSet(DOMAIN tables')
      /\ AllocatorOK' /\ PagesCounted'
  BY <1>1, <1>2, TableAdded
<1>4. EarlyTypeOK'
  BY <1>1, <1>3 DEF EarlyInv, EarlyTypeOK
<1>5. RootFirst' /\ BitmapMapped'
  BY <1>1 DEF RootFirst, BitmapMapped, MustBeMapped
<1>6. BitmapApart'
  BY <1>1, MapUnchanged DEF EarlyInv, BitmapApart
<1>7. GivenOK'
  BY <1>1 DEF EarlyInv, GivenOK
<1> QED
  BY <1>3, <1>4, <1>5, <1>6, <1>7 DEF EarlyInv

(* A table on the way to an entry *)
LEMMA NextLevelKeepsInv ==
  ASSUME EarlyInv, early_virt_get_next_level
  PROVE  EarlyInv'
<1> DEFINE l == CHOOSE l \in Missing(Virt) : \A m \in Missing(Virt) : m <= l
<1>1. /\ Inside /\ Missing(Virt) # {} /\ early_phys_alloc_page
      /\ tables' = WithTable(TableOf(Virt, l), NewPage)
      /\ UNCHANGED <<memmap, pte, bitmapAt, given, total, committed, at>>
  BY DEF early_virt_get_next_level
<1>2. TableOf(Virt, l) \notin DOMAIN tables
  <2>1. TableLevels - 1 \in Nat /\ Missing(Virt) \subseteq 0..(TableLevels - 1)
    BY EarlyAssumption DEF Missing
  <2>2. \E k \in Missing(Virt) : \A m \in Missing(Virt) : m <= k
    BY <1>1, <2>1, GreatestExists
  <2>3. l \in Missing(Virt)
    BY <2>2
  <2> QED
    BY <2>3 DEF Missing
<1> HIDE DEF l
<1>3. /\ early' \in [top : Nat, size : Nat, count : Nat] /\ IsFiniteSet(DOMAIN tables')
      /\ AllocatorOK' /\ PagesCounted'
  BY <1>1, <1>2, TableAdded
<1>4. at.phase \in {"kernel", "direct", "bitmap"}
  BY <1>1, MappingPhases DEF Inside
<1>5. EarlyTypeOK' /\ RootFirst'
  BY <1>1, <1>3, <1>4 DEF EarlyInv, EarlyTypeOK, RootFirst
<1>6. BitmapApart'
  BY <1>1, MapUnchanged DEF EarlyInv, BitmapApart
<1>7. BitmapMapped'
  BY <1>1 DEF EarlyInv, BitmapMapped, MustBeMapped, BitmapRange
<1>8. GivenOK'
  BY <1>1, <1>4 DEF EarlyInv, GivenOK
<1> QED
  BY <1>3, <1>5, <1>6, <1>7, <1>8 DEF EarlyInv

(* A page of the image or of the direct map, before the bitmap has a place *)
LEMMA VirtMapKeepsInv ==
  ASSUME EarlyInv, early_virt_map
  PROVE  EarlyInv'
<1>1. /\ Inside /\ at.phase \in {"kernel", "direct"} /\ bitmapAt = None
      /\ UNCHANGED <<memmap, early, tables, bitmapAt, given, total, committed>>
  BY DEF early_virt_map, EarlyInv, BitmapApart
<1>2. BitmapUsed = {} /\ BitmapUsed' = {}
  BY <1>1 DEF BitmapUsed
<1>3. AllocatorOK' /\ PagesCounted'
  BY <1>1, <1>2, PagesStay
<1>4. Virt \in Taken /\ Phys \in Nat
  BY <1>1, MappedBefore DEF EarlyInv, EarlyTypeOK
<1>5. \/ Stop("panic") /\ pte' = pte
      \/ NextPage /\ pte' = [pte EXCEPT ![Virt] = Phys]
  BY DEF early_virt_map
<1>6. /\ at' \in [phase : Phases, entry : Nat \ {0}, page : Nat]
      /\ at'.phase \in {"kernel", "direct", "panic"}
  <2>1. at \in [phase : Phases, entry : Nat \ {0}, page : Nat] /\ "panic" \in Phases
    BY DEF EarlyInv, EarlyTypeOK, Phases
  <2> QED
    BY <1>1, <1>5, <2>1, AtMoves
<1>7. pte' \in [VPages -> Nat \cup {None}]
  BY <1>4, <1>5 DEF EarlyInv, EarlyTypeOK
<1>8. \A v \in VPages : pte'[v] # None => v \in Taken
  BY <1>1, <1>4, <1>5 DEF EarlyInv, EarlyTypeOK, BitmapApart
<1>9. EarlyTypeOK' /\ RootFirst' /\ BitmapMapped'
  BY <1>1, <1>6, <1>7 DEF EarlyInv, EarlyTypeOK, RootFirst, BitmapMapped, MustBeMapped
<1>10. BitmapApart'
  BY <1>1, <1>6, <1>8, MapUnchanged DEF BitmapApart
<1>11. GivenOK'
  BY <1>1, <1>6 DEF EarlyInv, GivenOK
<1> QED
  BY <1>3, <1>9, <1>10, <1>11 DEF EarlyInv

(* The ranges of the phase that maps the bitmap *)
LEMMA BitmapRanges ==
  ASSUME EarlyInv, at.phase = "bitmap"
  PROVE  /\ Len(Ranges) = Len(memmap)
         /\ Mapping => /\ at.entry \in 1..Len(memmap)
                       /\ Ranges[at.entry] = BitmapRange(memmap[at.entry])
<1>1. MapInOrder /\ at.entry \in Nat \ {0}
  BY MapFacts DEF EarlyInv, EarlyTypeOK
<1>2. Ranges = [i \in 1..Len(memmap) |-> BitmapRange(memmap[i])]
  BY DEF Ranges
<1>3. Len(Ranges) = Len(memmap)
  BY <1>1, <1>2 DEF MapInOrder
<1> QED
  BY <1>1, <1>2, <1>3 DEF Mapping, MapInOrder

(* A page of the bitmap: it is inside the bitmap, and new unless it is     *)
(* already mapped.                                                         *)
LEMMA BitmapPageKeepsInv ==
  ASSUME EarlyInv, BitmapPage
  PROVE  EarlyInv'
<1>1. /\ Inside /\ at.phase = "bitmap" /\ NextPage
      /\ UNCHANGED <<memmap, tables, bitmapAt, given, total, committed>>
      /\ at \in [phase : Phases, entry : Nat \ {0}, page : Nat]
      /\ memmap \in MemoryMaps /\ pte \in [VPages -> Nat \cup {None}]
  BY DEF BitmapPage, EarlyInv, EarlyTypeOK
<1>2. PICK i \in 1..Len(memmap) : i = at.entry /\ Ranges[at.entry] = BitmapRange(memmap[i])
  BY <1>1, BitmapRanges DEF Inside
<1>3. /\ bitmapAt # None /\ bitmapAt \in BitmapPlaces
      /\ \A j \in 1..Len(memmap) : BitmapRange(memmap[j])' = BitmapRange(memmap[j])
  BY <1>1 DEF EarlyInv, BitmapApart, BitmapRange
<1>4. PICK v : v = BitmapRange(memmap[i]).virt + at.page
  OBVIOUS
<1>5. v = Virt
  BY <1>2, <1>4 DEF Virt
<1>6. v \in bitmapAt..(bitmapAt + BitmapPages - 1) /\ v \in VPages
  BY <1>1, <1>2, <1>3, <1>4, BitmapRangeInside, BitmapPlaced DEF Inside
<1>7. /\ at' \in [phase : Phases, entry : Nat \ {0}, page : Nat]
      /\ at'.phase = "bitmap" /\ at'.entry = i /\ at'.page = at.page + 1
  BY <1>1, <1>2, AtMoves
<1>8. /\ IsFiniteSet(DOMAIN tables') /\ early' \in [top : Nat, size : Nat, count : Nat]
      /\ pte' \in [VPages -> Nat \cup {None}] /\ AllocatorOK' /\ PagesCounted'
      /\ pte'[v] # None /\ \A w \in VPages : pte[w] # None => pte'[w] # None
  <2>1. CASE pte[v] # None /\ UNCHANGED <<early, pte>>
    <3>1. BitmapUsed' = BitmapUsed
      BY <1>1, <2>1, MapUnchanged DEF BitmapUsed
    <3>2. AllocatorOK' /\ PagesCounted'
      BY <1>1, <2>1, <3>1, PagesStay
    <3> QED
      BY <1>1, <2>1, <3>2 DEF EarlyInv, EarlyTypeOK
  <2>2. CASE pte[v] = None /\ early_phys_alloc_page /\ pte' = [pte EXCEPT ![v] = NewPage]
    <3>1. NewPage \in Nat /\ NewPage # None
      BY <1>1, <2>2, NextPageHandedOut, EarlyAssumption DEF EarlyInv, EarlyTypeOK
    <3>2. pte'[v] = NewPage /\ \A w \in VPages : w # v => pte'[w] = pte[w]
      BY <1>1, <1>6, <2>2
    <3>3. bitmapAt..(bitmapAt + BitmapPages - 1) \subseteq VPages /\ v \notin BitmapUsed
      BY <1>1, <1>3, <2>2, BitmapPlaced DEF BitmapUsed
    <3>4. BitmapUsed' = BitmapUsed \cup {v}
      BY <1>1, <1>3, <1>6, <3>1, <3>2, <3>3, MapUnchanged DEF BitmapUsed
    <3>5. IsFiniteSet(BitmapUsed) /\ BitmapUsed \subseteq VPages /\ IsFiniteSet(DOMAIN tables)
      BY BitmapUsedFinite DEF EarlyInv, EarlyTypeOK
    <3>6. EarlyPages' = EarlyPages \cup {NewPage}
      <4>1. {pte'[w] : w \in BitmapUsed'} = {pte[w] : w \in BitmapUsed} \cup {NewPage}
        BY <3>2, <3>3, <3>4, <3>5
      <4> QED
        BY <1>1, <4>1 DEF EarlyPages
    <3>7. Cardinality(BitmapUsed') = Cardinality(BitmapUsed) + 1
      BY <3>3, <3>4, <3>5, FS_AddElement
    <3>8. Cardinality(DOMAIN tables) \in Nat /\ Cardinality(BitmapUsed) \in Nat
      BY <3>5, FS_CardinalityType
    <3>9. Cardinality(DOMAIN tables') + Cardinality(BitmapUsed')
            = Cardinality(DOMAIN tables) + Cardinality(BitmapUsed) + 1
      BY <1>1, <3>7, <3>8
    <3>10. /\ early' \in [top : Nat, size : Nat, count : Nat]
           /\ AllocatorOK' /\ PagesCounted'
      BY <1>1, <2>2, <3>6, <3>9, PageTaken
    <3>11. pte' \in [VPages -> Nat \cup {None}]
      BY <1>1, <2>2, <3>1
    <3> QED
      BY <1>1, <3>1, <3>2, <3>5, <3>10, <3>11
  <2> QED
    BY <1>5, <2>1, <2>2 DEF BitmapPage
<1>9. EarlyTypeOK' /\ RootFirst'
  BY <1>1, <1>7, <1>8 DEF EarlyInv, EarlyTypeOK, RootFirst
<1>10. BitmapApart'
  BY <1>1, <1>7, MapUnchanged DEF EarlyInv, BitmapApart
<1>11. BitmapMapped'
  <2> SUFFICES ASSUME NEW j \in 1..Len(memmap), NEW k \in Nat, k < BitmapRange(memmap[j]).length,
                      j < i \/ (j = i /\ k < at.page + 1)
               PROVE  pte'[BitmapRange(memmap[j]).virt + k] # None
    BY <1>1, <1>3, <1>7 DEF BitmapMapped, MustBeMapped
  <2>1. CASE j = i /\ k = at.page
    BY <1>4, <1>8, <2>1
  <2>2. CASE ~ (j = i /\ k = at.page)
    <3>1. j < at.entry \/ (j = at.entry /\ k < at.page)
      BY <1>1, <1>2, <2>2
    <3>2. pte[BitmapRange(memmap[j]).virt + k] # None
      BY <1>1, <3>1 DEF EarlyInv, BitmapMapped, MustBeMapped
    <3>3. BitmapRange(memmap[j]).virt + k \in VPages
      BY <1>1, <1>3, BitmapRangeInside, BitmapPlaced
    <3> QED
      BY <1>8, <3>2, <3>3
  <2> QED
    BY <2>1, <2>2
<1>12. GivenOK'
  BY <1>1, <1>7 DEF EarlyInv, GivenOK
<1> QED
  BY <1>8, <1>9, <1>10, <1>11, <1>12 DEF EarlyInv

(* The steps that only move on *)
LEMMA MovesKeepInv ==
  ASSUME EarlyInv, RangeDone \/ KernelDone \/ BitmapDone \/ RanOut
  PROVE  EarlyInv'
<1>1. /\ UNCHANGED <<memmap, early, tables, pte, bitmapAt, given, total, committed>>
      /\ at \in [phase : Phases, entry : Nat \ {0}, page : Nat]
  BY DEF RangeDone, KernelDone, BitmapDone, RanOut, EarlyInv, EarlyTypeOK
<1>2. /\ at' \in [phase : Phases, entry : Nat \ {0}, page : Nat]
      /\ \/ /\ at.phase \in {"kernel", "direct"}
            /\ at'.phase \in {"kernel", "direct", "out of memory"}
         \/ /\ at.phase = "root" /\ at'.phase = "out of memory"
         \/ /\ at.phase = "bitmap" /\ Mapping /\ at.page = Ranges[at.entry].length
            /\ at'.phase = "bitmap" /\ at'.entry = at.entry + 1 /\ at'.page = 0
         \/ /\ at.phase = "bitmap" /\ ~ Mapping /\ at'.phase = "add" /\ at'.entry = 1
         \/ /\ at.phase = "bitmap" /\ at'.phase = "out of memory"
  <2> USE DEF Phases
  <2>1. CASE RangeDone
    <3>1. at.phase \in {"kernel", "direct", "bitmap"}
      BY <2>1, MappingPhases DEF RangeDone
    <3> QED
      BY <1>1, <2>1, <3>1, AtMoves DEF RangeDone
  <2>2. CASE KernelDone
    BY <1>1, <2>2, AtMoves DEF KernelDone
  <2>3. CASE BitmapDone
    BY <1>1, <2>3, AtMoves DEF BitmapDone
  <2>4. CASE RanOut
    <3>1. at.phase \in {"root", "kernel", "direct", "bitmap"}
      BY <2>4, MappingPhases DEF RanOut, NeedsPage, Inside
    <3> QED
      BY <1>1, <2>4, <3>1, AtMoves DEF RanOut
  <2> QED
    BY <2>1, <2>2, <2>3, <2>4
<1>3. BitmapUsed' = BitmapUsed
  BY <1>1, MapUnchanged DEF BitmapUsed
<1>4. AllocatorOK' /\ PagesCounted'
  BY <1>1, <1>3, PagesStay
<1>5. EarlyTypeOK' /\ RootFirst'
  BY <1>1, <1>2 DEF EarlyInv, EarlyTypeOK, RootFirst
<1>6. BitmapApart'
  BY <1>1, <1>2, MapUnchanged DEF EarlyInv, BitmapApart
<1>7. BitmapMapped'
  <2>1. CASE at.phase # "bitmap" \/ at'.phase = "out of memory"
    BY <1>2, <2>1 DEF BitmapMapped, MustBeMapped
  <2>2. CASE at.phase = "bitmap" /\ at'.phase # "out of memory"
    <3> SUFFICES ASSUME NEW j \in 1..Len(memmap), NEW k \in Nat, MustBeMapped(j, k)'
                 PROVE  MustBeMapped(j, k)
      BY <1>1 DEF EarlyInv, BitmapMapped, BitmapRange
    <3>1. k < BitmapRange(memmap[j]).length
      BY <1>1 DEF MustBeMapped, BitmapRange
    <3>2. Len(memmap) \in Nat
      BY MapFacts DEF EarlyInv, EarlyTypeOK, MapInOrder
    <3>3. CASE Mapping /\ at.page = Ranges[at.entry].length /\ at'.phase = "bitmap"
                 /\ at'.entry = at.entry + 1 /\ at'.page = 0
      <4>1. j < at.entry + 1
        BY <1>1, <3>3 DEF MustBeMapped
      <4>2. j = at.entry => k < at.page
        BY <2>2, <3>1, <3>3, BitmapRanges
      <4>3. at.entry \in Nat /\ j \in Nat
        BY <1>1, <3>2
      <4>4. j < at.entry \/ j = at.entry
        BY <4>1, <4>3
      <4> QED
        BY <2>2, <3>1, <4>2, <4>4 DEF MustBeMapped
    <3>4. CASE ~ Mapping
      <4>1. at.entry > Len(memmap)
        <5>1. at.entry \in Nat /\ ~ (at.entry <= Len(memmap))
          BY <1>1, <2>2, <3>4, BitmapRanges DEF Mapping
        <5> QED
          BY <3>2, <5>1
      <4>2. j < at.entry
        BY <1>1, <3>2, <4>1
      <4> QED
        BY <2>2, <3>1, <4>2 DEF MustBeMapped
    <3> QED
      BY <1>2, <2>2, <3>3, <3>4
  <2> QED
    BY <2>1, <2>2
<1>8. GivenOK'
  <2>1. /\ IsFiniteSet(given) /\ total = Cardinality(given) + committed /\ given = {} /\ committed = 0
        /\ at'.phase # "done"
    BY <1>2 DEF EarlyInv, GivenOK
  <2>2. at'.phase = "add" => \A i \in 1..Len(memmap) : ~ (i < at'.entry)
    BY <1>2
  <2> QED
    BY <1>1, <2>1, <2>2 DEF GivenOK
<1> QED
  BY <1>4, <1>5, <1>6, <1>7, <1>8 DEF EarlyInv

(* The bitmap gets its place: nothing is mapped there. *)
LEMMA DirectDoneKeepsInv ==
  ASSUME EarlyInv, DirectDone
  PROVE  EarlyInv'
<1>1. /\ UNCHANGED <<memmap, early, tables, pte, given, total, committed>>
      /\ at \in [phase : Phases, entry : Nat \ {0}, page : Nat] /\ memmap \in MemoryMaps
      /\ at.phase = "direct" /\ bitmapAt = None
      /\ \A v \in VPages : pte[v] # None => v \in Taken
  BY DEF DirectDone, EarlyInv, EarlyTypeOK, BitmapApart
<1>2. /\ at' \in [phase : Phases, entry : Nat \ {0}, page : Nat]
      /\ \/ at'.phase = "panic" /\ bitmapAt' = None
         \/ at'.phase = "bitmap" /\ at'.entry = 1 /\ at'.page = 0 /\ bitmapAt' \in BitmapPlaces
  <2>1. CASE BitmapPlaces = {} /\ Stop("panic") /\ UNCHANGED bitmapAt
    BY <1>1, <2>1, AtMoves DEF Phases
  <2>2. CASE /\ BitmapPlaces # {} /\ Phase("bitmap")
             /\ bitmapAt' = CHOOSE v \in BitmapPlaces : \A w \in BitmapPlaces : v <= w
    <3>1. \E v \in BitmapPlaces : \A w \in BitmapPlaces : v <= w
      BY <1>1, <2>2, BitmapPlaced, LeastExists
    <3>2. bitmapAt' \in BitmapPlaces
      BY <2>2, <3>1
    <3> QED
      BY <1>1, <2>2, <3>2, AtMoves DEF Phases
  <2> QED
    BY <2>1, <2>2 DEF DirectDone
<1>3. BitmapUsed = {} /\ BitmapUsed' = {}
  <2>1. bitmapAt' # None => BitmapUsed' = {v \in bitmapAt'..(bitmapAt' + BitmapPages - 1) : pte[v] # None}
    BY <1>1, MapUnchanged DEF BitmapUsed
  <2>2. bitmapAt' # None => \A v \in bitmapAt'..(bitmapAt' + BitmapPages - 1) : v \in VPages \ Taken
    BY <1>1, <1>2, BitmapPlaced
  <2>3. bitmapAt' = None => BitmapUsed' = {}
    BY DEF BitmapUsed
  <2> QED
    BY <1>1, <2>1, <2>2, <2>3 DEF BitmapUsed
<1>4. AllocatorOK' /\ PagesCounted'
  BY <1>1, <1>3, PagesStay
<1>5. bitmapAt' \in Nat \cup {None}
  BY <1>1, <1>2, BitmapPlaced
<1>6. EarlyTypeOK' /\ RootFirst'
  BY <1>1, <1>2, <1>5 DEF EarlyInv, EarlyTypeOK, RootFirst
<1>7. BitmapApart'
  <2>1. bitmapAt' # None => bitmapAt' \in BitmapPlaces'
    BY <1>1, <1>2, MapUnchanged
  <2>2. \A b \in BitmapPlaces : b # None
    BY <1>1, BitmapPlaced, EarlyAssumption
  <2> QED
    BY <1>2, <2>1, <2>2 DEF BitmapApart
<1>8. BitmapMapped'
  <2> SUFFICES ASSUME NEW j \in 1..Len(memmap'), NEW k \in Nat, MustBeMapped(j, k)' PROVE FALSE
    BY DEF BitmapMapped
  <2>1. at'.phase = "bitmap" /\ (j < 1 \/ k < 0)
    BY <1>2 DEF MustBeMapped
  <2> QED
    BY <2>1
<1>9. GivenOK'
  BY <1>1, <1>2 DEF EarlyInv, GivenOK
<1> QED
  BY <1>4, <1>6, <1>7, <1>8, <1>9 DEF EarlyInv

(* What of an entry is left: its usable pages from the top on *)
LEMMA LeftOfEntry ==
  ASSUME memmap \in MemoryMaps, early.top \in Nat, NEW i \in 1..Len(memmap)
  PROVE  /\ LeftOf(memmap[i]) = {p \in UsablePages : p >= early.top /\ p \in PagesOf(memmap[i])}
         /\ IsFiniteSet(LeftOf(memmap[i]))
<1>1. MapInOrder /\ memmap[i].base \in Nat /\ memmap[i].length \in Nat \ {0}
  BY MapFacts DEF MapInOrder
<1>2. CASE ~ IsUsable(memmap[i])
  <2>1. LeftOf(memmap[i]) = {}
    BY <1>2 DEF LeftOf
  <2>2. ASSUME NEW p \in UsablePages, p \in PagesOf(memmap[i]) PROVE FALSE
    <3>1. PICK j \in 1..Len(memmap) : /\ p \in Nat /\ IsUsable(memmap[j])
                                     /\ memmap[j].base <= p /\ p < memmap[j].base + memmap[j].length
      BY UsableIff
    <3>2. memmap[i].base <= p /\ p < memmap[i].base + memmap[i].length
      BY <1>1, <2>2 DEF PagesOf
    <3>3. i < j \/ j < i
      BY <1>1, <1>2, <3>1 DEF MapInOrder
    <3>4. /\ i < j => memmap[j].base >= memmap[i].base + memmap[i].length
          /\ j < i => memmap[i].base >= memmap[j].base + memmap[j].length
          /\ memmap[j].base \in Nat /\ memmap[j].length \in Nat
      BY <1>1 DEF MapInOrder
    <3> QED
      BY <1>1, <3>1, <3>2, <3>3, <3>4
  <2> QED
    BY <2>1, <2>2, FS_EmptySet
<1>3. CASE IsUsable(memmap[i])
  <2>1. \A p \in PagesOf(memmap[i]) : p \in UsablePages
    BY <1>1, <1>3 DEF UsablePages, MapInOrder
  <2> DEFINE b == memmap[i].base
             e == memmap[i].base + memmap[i].length
  <2>2. b \in Nat /\ e \in Nat
    BY <1>1
  <2>3. LeftOf(memmap[i]) = IF e < early.top THEN {} ELSE (IF b < early.top THEN early.top ELSE b) .. e - 1
    BY <1>3 DEF LeftOf
  <2>4. PagesOf(memmap[i]) = b .. e - 1
    <3>1. memmap[i].base + memmap[i].length - 1 = e - 1
      BY <1>1
    <3> QED
      BY <3>1, Zenon DEF PagesOf
  <2> HIDE DEF b, e
  <2>5. LeftOf(memmap[i]) = {p \in PagesOf(memmap[i]) : p >= early.top}
    BY <2>2, <2>3, <2>4
  <2>6. IsFiniteSet(b .. e - 1)
    <3>1. b \in Int /\ e - 1 \in Int
      BY <2>2
    <3> QED
      BY <3>1, FS_Interval
  <2>7. LeftOf(memmap[i]) \subseteq b .. e - 1
    BY <2>4, <2>5
  <2>8. IsFiniteSet(LeftOf(memmap[i]))
    BY <2>6, <2>7, FS_Subset
  <2> QED
    BY <2>1, <2>5, <2>8
<1> QED
  BY <1>2, <1>3

(* A page of an entry lies between the entry's base and its end. *)
LEMMA InsideEntry ==
  ASSUME MapInOrder, NEW i \in 1..Len(memmap), NEW p \in PagesOf(memmap[i])
  PROVE  p \in Nat /\ memmap[i].base <= p /\ p < memmap[i].base + memmap[i].length
BY DEF PagesOf, MapInOrder

(* One entry goes to the buddy allocator; the entries are apart, so none   *)
(* of its pages went there before.                                         *)
LEMMA AddEntryKeepsInv ==
  ASSUME EarlyInv, AddEntry
  PROVE  EarlyInv'
<1>1. /\ UNCHANGED <<memmap, early, tables, pte, bitmapAt, committed>>
      /\ at \in [phase : Phases, entry : Nat \ {0}, page : Nat] /\ memmap \in MemoryMaps
      /\ early.top \in Nat /\ at.phase = "add" /\ NextEntry
  BY DEF AddEntry, EarlyInv, EarlyTypeOK
<1>2. MapInOrder
  BY <1>1, MapFacts
<1>3. PICK n \in 1..Len(memmap) : n = at.entry
  BY <1>1, <1>2 DEF AddEntry, MapInOrder
<1>4. given' = given \cup LeftOf(memmap[n]) /\ total' = total + Cardinality(LeftOf(memmap[n]))
  BY <1>3 DEF AddEntry
<1>5. /\ at' \in [phase : Phases, entry : Nat \ {0}, page : Nat]
      /\ at'.phase = "add" /\ at'.entry = n + 1
  BY <1>1, <1>3, AtMoves
<1>6. /\ LeftOf(memmap[n]) = {p \in UsablePages : p >= early.top /\ p \in PagesOf(memmap[n])}
      /\ IsFiniteSet(LeftOf(memmap[n]))
  BY <1>1, LeftOfEntry
<1>7. /\ given = {p \in UsablePages : p >= early.top /\
                    \E i \in 1..Len(memmap) : i < n /\ p \in PagesOf(memmap[i])}
      /\ IsFiniteSet(given) /\ total = Cardinality(given) + committed /\ committed = 0
  BY <1>1, <1>3 DEF EarlyInv, GivenOK
<1>8. \A i \in 1..Len(memmap) : i < n + 1 <=> i < n \/ i = n
  BY <1>2 DEF MapInOrder
<1>9. given' = {p \in UsablePages : p >= early.top /\
                  \E i \in 1..Len(memmap) : i < n + 1 /\ p \in PagesOf(memmap[i])}
  BY <1>4, <1>6, <1>7, <1>8
<1>10. given \cap LeftOf(memmap[n]) = {}
  <2> SUFFICES ASSUME NEW i \in 1..Len(memmap), i < n, NEW p,
                      p \in PagesOf(memmap[i]), p \in PagesOf(memmap[n])
               PROVE  FALSE
    BY <1>6, <1>7
  <2>1. /\ memmap[n].base >= memmap[i].base + memmap[i].length
        /\ memmap[i].base \in Nat /\ memmap[i].length \in Nat
        /\ memmap[n].base \in Nat /\ memmap[n].length \in Nat
    BY <1>2 DEF MapInOrder
  <2>2. p \in Nat /\ p < memmap[i].base + memmap[i].length
    BY <1>2, InsideEntry
  <2>3. memmap[n].base <= p
    BY <1>2, InsideEntry
  <2> QED
    BY <2>1, <2>2, <2>3
<1>11. /\ IsFiniteSet(given')
       /\ Cardinality(given') = Cardinality(given) + Cardinality(LeftOf(memmap[n]))
  <2>1. /\ IsFiniteSet(given \cup LeftOf(memmap[n]))
        /\ Cardinality(given \cup LeftOf(memmap[n]))
             = Cardinality(given) + Cardinality(LeftOf(memmap[n])) - Cardinality(given \cap LeftOf(memmap[n]))
    BY <1>6, <1>7, FS_Union
  <2>2. Cardinality(given \cap LeftOf(memmap[n])) = 0
    BY <1>10, FS_EmptySet
  <2>3. Cardinality(given) \in Nat /\ Cardinality(LeftOf(memmap[n])) \in Nat
    BY <1>6, <1>7, FS_CardinalityType
  <2> QED
    BY <1>4, <2>1, <2>2, <2>3
<1>12. Cardinality(given) \in Nat /\ Cardinality(LeftOf(memmap[n])) \in Nat
  BY <1>6, <1>7, FS_CardinalityType
<1>13. total' \in Nat /\ total' = Cardinality(given') + committed'
  BY <1>1, <1>4, <1>7, <1>11, <1>12
<1>14. GivenOK'
  BY <1>1, <1>5, <1>7, <1>9, <1>11, <1>13, MapUnchanged DEF GivenOK
<1>15. BitmapUsed' = BitmapUsed
  BY <1>1, MapUnchanged DEF BitmapUsed
<1>16. AllocatorOK' /\ PagesCounted'
  BY <1>1, <1>15, PagesStay
<1>17. EarlyTypeOK' /\ RootFirst'
  BY <1>1, <1>5, <1>13 DEF EarlyInv, EarlyTypeOK, RootFirst
<1>18. BitmapApart' /\ BitmapMapped'
  BY <1>1, <1>5, MapUnchanged DEF EarlyInv, BitmapApart, BitmapMapped, MustBeMapped, BitmapRange
<1> QED
  BY <1>14, <1>16, <1>17, <1>18 DEF EarlyInv

(* What was handed out early is counted in the end. *)
LEMMA AddCommittedKeepsInv ==
  ASSUME EarlyInv, AddCommitted
  PROVE  EarlyInv'
<1>1. /\ UNCHANGED <<memmap, early, tables, pte, bitmapAt, given>>
      /\ at \in [phase : Phases, entry : Nat \ {0}, page : Nat] /\ memmap \in MemoryMaps
      /\ early.count \in Nat /\ total \in Nat /\ at.phase = "add" /\ at.entry > Len(memmap)
      /\ committed' = committed + early.count /\ total' = total + early.count
  BY DEF AddCommitted, EarlyInv, EarlyTypeOK
<1>2. MapInOrder
  BY <1>1, MapFacts
<1>3. at' \in [phase : Phases, entry : Nat \ {0}, page : Nat] /\ at'.phase = "done"
  BY <1>1, AtMoves DEF AddCommitted, Phases
<1>4. /\ given = {p \in UsablePages : p >= early.top /\
                    \E i \in 1..Len(memmap) : i < at.entry /\ p \in PagesOf(memmap[i])}
      /\ IsFiniteSet(given) /\ total = Cardinality(given) + committed /\ committed = 0
  BY <1>1 DEF EarlyInv, GivenOK
<1>5. \A p \in UsablePages : \E i \in 1..Len(memmap) : i < at.entry /\ p \in PagesOf(memmap[i])
  <2>1. \A i \in 1..Len(memmap) : i < at.entry
    BY <1>1, <1>2 DEF MapInOrder
  <2>2. \A p \in UsablePages : \E i \in 1..Len(memmap) : p \in PagesOf(memmap[i])
    BY <1>2 DEF UsablePages, MapInOrder
  <2> QED
    BY <2>1, <2>2
<1>6. given' = {p \in UsablePages : p >= early.top}
  BY <1>1, <1>4, <1>5
<1>7. Cardinality(given) \in Nat
  BY <1>4, FS_CardinalityType
<1>8. total' = Cardinality(given) + committed' /\ committed' = early.count /\ total' \in Nat /\ committed' \in Nat
  BY <1>1, <1>4, <1>7
<1>9. GivenOK'
  BY <1>1, <1>3, <1>4, <1>6, <1>8, MapUnchanged DEF GivenOK
<1>10. BitmapUsed' = BitmapUsed
  BY <1>1, MapUnchanged DEF BitmapUsed
<1>11. AllocatorOK' /\ PagesCounted'
  BY <1>1, <1>10, PagesStay
<1>12. EarlyTypeOK' /\ RootFirst'
  BY <1>1, <1>3, <1>8 DEF EarlyInv, EarlyTypeOK, RootFirst
<1>13. BitmapApart' /\ BitmapMapped'
  BY <1>1, <1>3, MapUnchanged DEF EarlyInv, BitmapApart, BitmapMapped, MustBeMapped, BitmapRange
<1> QED
  BY <1>9, <1>11, <1>12, <1>13 DEF EarlyInv

(* The invariant is inductive. *)
LEMMA EarlyStepInv == EarlyInv /\ [EarlyNext]_earlyVars => EarlyInv'
<1> SUFFICES ASSUME EarlyInv, [EarlyNext]_earlyVars PROVE EarlyInv'
  OBVIOUS
<1>1. CASE UNCHANGED earlyVars
  <2>1. UNCHANGED <<memmap, early, tables, pte, bitmapAt, given, total, committed, at>>
    BY <1>1 DEF earlyVars
  <2>2. BitmapUsed' = BitmapUsed
    BY <2>1, MapUnchanged DEF BitmapUsed
  <2>3. AllocatorOK' /\ PagesCounted'
    BY <2>1, <2>2, PagesStay
  <2>4. EarlyTypeOK' /\ RootFirst'
    BY <2>1 DEF EarlyInv, EarlyTypeOK, RootFirst
  <2>5. BitmapApart' /\ BitmapMapped'
    BY <2>1, MapUnchanged DEF EarlyInv, BitmapApart, BitmapMapped, MustBeMapped, BitmapRange
  <2>6. GivenOK'
    BY <2>1, MapUnchanged DEF EarlyInv, GivenOK
  <2> QED
    BY <2>3, <2>4, <2>5, <2>6 DEF EarlyInv
<1>2. CASE AllocRoot \/ early_virt_get_next_level \/ early_virt_map \/ BitmapPage
  BY <1>2, AllocRootKeepsInv, NextLevelKeepsInv, VirtMapKeepsInv, BitmapPageKeepsInv
<1>3. CASE RangeDone \/ KernelDone \/ BitmapDone \/ RanOut
  BY <1>3, MovesKeepInv
<1>4. CASE DirectDone \/ AddEntry \/ AddCommitted
  BY <1>4, DirectDoneKeepsInv, AddEntryKeepsInv, AddCommittedKeepsInv
<1> QED
  BY <1>1, <1>2, <1>3, <1>4 DEF EarlyNext

LEMMA EarlyAlwaysInv == EarlySpec => []EarlyInv
<1> QED
  BY EarlyInitInv, EarlyStepInv, PTL DEF EarlySpec

-----------------------------------------------------------------------------
(* boot/virt.c lines 52 to 93 and 269 to 289: for every memory map, every  *)
(* page table and every page of the bitmap is a usable page of its own,    *)
(* and none of them goes to the buddy allocator.                           *)
THEOREM EarlyApart == EarlySpec => []EarlyPagesApart
<1>1. ASSUME EarlyInv PROVE EarlyPagesApart
  <2> USE <1>1 DEF EarlyInv
  <2>1. memmap \in MemoryMaps /\ early.top \in Nat
    BY DEF EarlyTypeOK
  <2>2. \A p \in UsablePages : p \in Nat
    BY <2>1, UsableIff
  <2>3. /\ EarlyPages = {p \in UsablePages : p < early.top}
        /\ Cardinality(EarlyPages) = Cardinality(DOMAIN tables) + Cardinality(BitmapUsed)
    BY DEF PagesCounted
  <2>4. given \subseteq {p \in UsablePages : p >= early.top}
    BY DEF GivenOK, EarlyTypeOK
  <2>5. given \cap EarlyPages = {}
    BY <2>1, <2>2, <2>3, <2>4
  <2> QED
    BY <2>3, <2>4, <2>5 DEF EarlyPagesApart
<1> QED
  BY <1>1, EarlyAlwaysInv, PTL

(* boot/virt.c lines 269 to 294: at the end every usable page was handed   *)
(* out early and is counted as committed, or the buddy allocator has it.   *)
THEOREM EarlyNothingLost == EarlySpec => []NoMemoryLost
<1>1. ASSUME EarlyInv PROVE NoMemoryLost
  <2> SUFFICES ASSUME at.phase = "done"
               PROVE  /\ given \cup EarlyPages = UsablePages
                      /\ committed = Cardinality(EarlyPages)
                      /\ total = Cardinality(UsablePages)
    BY DEF NoMemoryLost
  <2> USE <1>1 DEF EarlyInv
  <2>1. memmap \in MemoryMaps /\ early.top \in Nat /\ early.count \in Nat
    BY DEF EarlyTypeOK
  <2>2. \A p \in UsablePages : p \in Nat
    BY <2>1, UsableIff
  <2>3. /\ EarlyPages = {p \in UsablePages : p < early.top}
        /\ IsFiniteSet(EarlyPages) /\ Cardinality(EarlyPages) = early.count
    BY DEF PagesCounted
  <2>4. /\ given = {p \in UsablePages : p >= early.top} /\ IsFiniteSet(given)
        /\ committed = early.count /\ total = Cardinality(given) + committed
    BY DEF GivenOK
  <2>5. given \cup EarlyPages = UsablePages /\ given \cap EarlyPages = {}
    BY <2>1, <2>2, <2>3, <2>4
  <2>6. Cardinality(given \cup EarlyPages)
          = Cardinality(given) + Cardinality(EarlyPages) - Cardinality(given \cap EarlyPages)
    BY <2>3, <2>4, FS_Union
  <2>7. Cardinality(given \cap EarlyPages) = 0 /\ Cardinality(given) \in Nat
    BY <2>4, <2>5, FS_EmptySet, FS_CardinalityType
  <2>8. Cardinality(UsablePages) = Cardinality(given) + early.count
    <3>1. Cardinality(UsablePages)
            = Cardinality(given) + Cardinality(EarlyPages) - Cardinality(given \cap EarlyPages)
      BY <2>5, <2>6
    <3> QED
      BY <2>1, <2>3, <2>7, <3>1
  <2> QED
    BY <2>3, <2>4, <2>5, <2>8
<1> QED
  BY <1>1, EarlyAlwaysInv, PTL

(* boot/virt.c lines 226 to 265: all bits of the largest block around a    *)
(* page of the buddy allocator are mapped, for every size of the blocks    *)
(* and of what a page of the bitmap holds.                                 *)
THEOREM EarlyBitmapCovers == EarlySpec => []BitmapCovers
<1>1. ASSUME EarlyInv PROVE BitmapCovers
  <2> SUFFICES ASSUME at.phase = "done", NEW p \in given,
                      NEW q \in AlignDown(p, Block) .. AlignDown(p, Block) + Block - 1
               PROVE  bitmapAt + q \div BitmapSpan \in BitmapUsed
    BY DEF BitmapCovers
  <2> USE <1>1 DEF EarlyInv
  <2>1. /\ memmap \in MemoryMaps /\ Block \in Nat \ {0} /\ BitmapSpan \in Nat \ {0}
        /\ bitmapAt \in BitmapPlaces /\ bitmapAt # None
    BY EarlyAssumption DEF EarlyTypeOK, BitmapApart
  <2>2. bitmapAt \in Nat /\ BitmapPages \in Nat
    BY <2>1, BitmapPlaced
  <2>3. p \in UsablePages
    BY DEF GivenOK
  <2>4. PICK i \in 1..Len(memmap) :
          /\ p \in Nat /\ IsUsable(memmap[i])
          /\ memmap[i].base <= p /\ p < memmap[i].base + memmap[i].length
    BY <2>1, <2>3, UsableIff
  <2>5. memmap[i].base \in Nat /\ memmap[i].length \in Nat /\ IsMapped(memmap[i])
    BY <2>1, <2>4, MapFacts DEF MapInOrder, IsUsable, IsMapped
  <2> DEFINE low == AlignDown(memmap[i].base, Block)
             high == AlignUp(memmap[i].base + memmap[i].length, Block)
             start == low \div BitmapSpan
             end == DivRoundUp(high, BitmapSpan)
  <2>6. low \in Int /\ AlignDown(p, Block) \in Int /\ low <= AlignDown(p, Block)
    <3>1. memmap[i].base \in Int /\ p \in Int /\ memmap[i].base <= p
      BY <2>4, <2>5
    <3> QED
      BY <2>1, <3>1, AlignDownMono
  <2>7. high \in Int /\ AlignDown(p, Block) + Block <= high
    <3>1. memmap[i].base + memmap[i].length \in Int /\ p \in Int
      BY <2>4, <2>5
    <3> QED
      BY <2>1, <2>4, <3>1, BlockBelowEnd
  <2>8. /\ BitmapRange(memmap[i]).virt = bitmapAt + start
        /\ BitmapRange(memmap[i]).length = end - start
    BY <2>5 DEF BitmapRange
  <2> HIDE DEF low, high
  <2>9. q \in Int /\ low <= q /\ q + 1 <= high
    BY <2>1, <2>6, <2>7
  <2>10. start \in Int /\ q \div BitmapSpan \in Int /\ start <= q \div BitmapSpan
    <3>1. start <= q \div BitmapSpan
      BY <2>1, <2>6, <2>9, DivMono
    <3> QED
      BY <2>1, <2>6, <2>9, <3>1
  <2>11. end \in Int /\ q \div BitmapSpan < end
    <3>1. q + BitmapSpan \in Int /\ high + BitmapSpan - 1 \in Int /\ q + BitmapSpan <= high + BitmapSpan - 1
      BY <2>1, <2>7, <2>9
    <3>2. (q + BitmapSpan) \div BitmapSpan <= (high + BitmapSpan - 1) \div BitmapSpan
      BY <2>1, <3>1, DivMono
    <3>3. (q + BitmapSpan) \div BitmapSpan = q \div BitmapSpan + 1
      BY <2>1, <2>9, DivNext
    <3>4. end = (high + BitmapSpan - 1) \div BitmapSpan /\ (high + BitmapSpan - 1) \div BitmapSpan \in Int
      BY <2>1, <3>1 DEF DivRoundUp
    <3> HIDE DEF end
    <3> QED
      BY <2>10, <3>2, <3>3, <3>4
  <2> HIDE DEF start, end
  <2>12. PICK k \in Nat : k = q \div BitmapSpan - start
    BY <2>10
  <2>13. k < BitmapRange(memmap[i]).length /\ BitmapRange(memmap[i]).virt + k = bitmapAt + q \div BitmapSpan
    BY <2>2, <2>8, <2>10, <2>11, <2>12
  <2>14. pte[BitmapRange(memmap[i]).virt + k] # None
    BY <2>13 DEF BitmapMapped, MustBeMapped
  <2>15. BitmapRange(memmap[i]).virt + k \in bitmapAt..(bitmapAt + BitmapPages - 1)
    BY <2>1, <2>13, BitmapRangeInside
  <2> QED
    BY <2>1, <2>13, <2>14, <2>15 DEF BitmapUsed
<1> QED
  BY <1>1, EarlyAlwaysInv, PTL

-----------------------------------------------------------------------------
(* The entries of the kernel region: which page of the image and of the    *)
(* direct map is mapped by now, in the order of the loops                  *)
Before(i, k) == i < at.entry \/ (i = at.entry /\ k < at.page)
ImageReached(i, k) ==
  \/ at.phase = "kernel" /\ Before(i, k)
  \/ at.phase \in {"direct", "bitmap", "add", "done"}
DirectReached(i, k) ==
  \/ at.phase = "direct" /\ Before(i, k)
  \/ at.phase \in {"bitmap", "add", "done"}

Shown(p) ==
  \E i \in 1..Len(memmap) :
    /\ IsMapped(memmap[i]) /\ p \in PagesOf(memmap[i])
    /\ DirectReached(i, p - memmap[i].base)

(* So far exactly these pages are mapped, each to its own frame. *)
ImageMapped ==
  \A i \in 1..Len(Sections) : \A k \in 0..(Sections[i].length - 1) :
    pte[Sections[i].virt + k] = (IF ImageReached(i, k) THEN Sections[i].phys + k ELSE None)
DirectMapped ==
  \A p \in 0..(DirectPages - 1) : pte[DirectBase + p] = (IF Shown(p) THEN p ELSE None)

MapInv ==
  /\ at.phase # "panic"
  /\ at.phase # "out of memory" => ImageMapped /\ DirectMapped

LEMMA SectionFacts ==
  /\ Len(Sections) \in Nat /\ DOMAIN Sections = 1..Len(Sections)
  /\ \A i \in 1..Len(Sections) :
       Sections[i].virt \in Nat /\ Sections[i].phys \in Nat /\ Sections[i].length \in Nat
<1> DEFINE Section == [virt : Nat, phys : Nat, length : Nat]
<1>1. Sections \in Seq(Section)
  BY EarlyAssumption
<1> HIDE DEF Section
<1>2. /\ Len(Sections) \in Nat /\ DOMAIN Sections = 1..Len(Sections)
      /\ \A i \in 1..Len(Sections) : Sections[i] \in Section
  BY <1>1
<1> QED
  BY <1>2 DEF Section

(* More pages take a larger bitmap. *)
LEMMA BitmapMono ==
  ASSUME NEW a \in Nat, NEW b \in Nat, a <= b
  PROVE  /\ DivRoundUp(AlignUp(a, Block), BitmapSpan) \in Int
         /\ DivRoundUp(AlignUp(b, Block), BitmapSpan) \in Int
         /\ DivRoundUp(AlignUp(a, Block), BitmapSpan) <= DivRoundUp(AlignUp(b, Block), BitmapSpan)
<1>1. Block \in Nat \ {0} /\ BitmapSpan \in Nat \ {0}
  BY EarlyAssumption
<1>2. PICK x, y \in Int : x = a + Block - 1 /\ y = b + Block - 1 /\ x <= y
  BY <1>1
<1>3. PICK c, d \in Int : c = AlignDown(x, Block) /\ d = AlignDown(y, Block) /\ c <= d
  BY <1>1, <1>2, AlignDownMono
<1>4. AlignUp(a, Block) = c /\ AlignUp(b, Block) = d
  BY <1>2, <1>3 DEF AlignUp
<1>5. PICK e, f \in Int : e = c + BitmapSpan - 1 /\ f = d + BitmapSpan - 1 /\ e <= f
  BY <1>1, <1>3
<1>6. e \div BitmapSpan \in Int /\ f \div BitmapSpan \in Int /\ e \div BitmapSpan <= f \div BitmapSpan
  BY <1>1, <1>5, DivMono
<1> QED
  BY <1>4, <1>5, <1>6 DEF DivRoundUp

(* The direct map ends where some entry does, if it is not empty. *)
LEMMA DirectEnds ==
  ASSUME memmap \in MemoryMaps
  PROVE  \/ DirectPages = 0
         \/ \E i \in 1..Len(memmap) :
              IsMapped(memmap[i]) /\ DirectPages = memmap[i].base + memmap[i].length
<1>0. MapInOrder
  BY MapFacts
<1> DEFINE mapped == {i \in 1..Len(memmap) : IsMapped(memmap[i])}
           last == CHOOSE i \in mapped : \A j \in mapped : j <= i
<1>1. CASE mapped = {}
  BY <1>1 DEF DirectPages
<1>2. CASE mapped # {}
  <2>1. mapped \subseteq 0..Len(memmap)
    BY <1>0 DEF MapInOrder
  <2>2. PICK k \in mapped : \A j \in mapped : j <= k
    <3> HIDE DEF mapped
    <3> QED
      BY <1>0, <1>2, <2>1, GreatestExists DEF MapInOrder
  <2>3. last \in mapped
    BY <2>2
  <2>4. DirectPages = memmap[last].base + memmap[last].length
    BY <1>2 DEF DirectPages
  <2> HIDE DEF last
  <2> QED
    BY <2>3, <2>4
<1> QED
  BY <1>1, <1>2

(* Whatever memory there is, image, direct map and bitmap have a place. *)
LEMMA LayoutFacts ==
  ASSUME memmap \in MemoryMaps
  PROVE  /\ \A p \in 0..(DirectPages - 1) : DirectBase + p \in VPages
         /\ \A i \in 1..Len(Sections) : \A k \in 0..(Sections[i].length - 1) :
              /\ Sections[i].virt + k \in VPages
              /\ \A p \in 0..(DirectPages - 1) : DirectBase + p # Sections[i].virt + k
              /\ \A j \in 1..Len(Sections) : \A l \in 0..(Sections[j].length - 1) :
                   Sections[j].virt + l = Sections[i].virt + k => i = j /\ k = l
         /\ BitmapPlaces # {}
<1> DEFINE size(n) == DivRoundUp(AlignUp(n, Block), BitmapSpan)
<1>1. PICK n \in 0..RegionPages :
        /\ \A i \in 1..Len(memmap) : IsMapped(memmap[i]) => memmap[i].base + memmap[i].length <= n
        /\ (DirectBase .. DirectBase + n - 1) \subseteq VPages
        /\ \A i \in DOMAIN Sections : (DirectBase .. DirectBase + n - 1) \cap SectionPages(i) = {}
        /\ \E b \in 0..(RegionPages - size(n)) :
             /\ (b .. b + size(n) - 1) \cap (DirectBase .. DirectBase + n - 1) = {}
             /\ \A i \in DOMAIN Sections : (b .. b + size(n) - 1) \cap SectionPages(i) = {}
  BY LayoutAssumption
<1>2. PICK b \in 0..(RegionPages - size(n)) :
        /\ (b .. b + size(n) - 1) \cap (DirectBase .. DirectBase + n - 1) = {}
        /\ \A i \in DOMAIN Sections : (b .. b + size(n) - 1) \cap SectionPages(i) = {}
  BY <1>1
<1>3. RegionPages \in Nat /\ DirectBase \in Nat /\ n \in Nat /\ DirectPages \in Nat
  BY EarlyAssumption, DirectReaches
<1>4. DirectPages <= n
  BY <1>1, <1>3, DirectEnds
<1>5. \A p \in 0..(DirectPages - 1) : DirectBase + p \in DirectBase .. DirectBase + n - 1
  BY <1>3, <1>4
<1>6. \A i \in 1..Len(Sections) :
        /\ i \in DOMAIN Sections
        /\ \A k \in 0..(Sections[i].length - 1) : Sections[i].virt + k \in SectionPages(i)
  BY SectionFacts DEF SectionPages
<1>7. size(n) \in Int /\ BitmapPages \in Int /\ BitmapPages <= size(n)
  <2>1. /\ size(DirectPages) \in Int /\ size(n) \in Int /\ size(DirectPages) <= size(n)
    BY <1>3, <1>4, BitmapMono
  <2> QED
    BY <2>1 DEF BitmapPages
<1> HIDE DEF size
<1>8. b \in BitmapPlaces
  <2>1. b \in 0..(RegionPages - BitmapPages)
    BY <1>2, <1>3, <1>7
  <2>2. (b .. b + BitmapPages - 1) \subseteq (b .. b + size(n) - 1)
    BY <1>2, <1>3, <1>7
  <2>3. (DirectBase .. DirectBase + DirectPages - 1) \subseteq (DirectBase .. DirectBase + n - 1)
    BY <1>3, <1>4
  <2>4. (b .. b + size(n) - 1) \cap Taken = {}
    BY <1>2, <2>3 DEF Taken
  <2> QED
    BY <2>1, <2>2, <2>4 DEF BitmapPlaces
<1>9. ASSUME NEW i \in 1..Len(Sections), NEW k \in 0..(Sections[i].length - 1),
             NEW j \in 1..Len(Sections), NEW l \in 0..(Sections[j].length - 1),
             Sections[j].virt + l = Sections[i].virt + k
      PROVE  i = j /\ k = l
  <2>1. i = j
    BY <1>6, <1>9, LayoutAssumption
  <2>2. Sections[i].virt \in Nat
    BY SectionFacts
  <2> QED
    BY <1>9, <2>1, <2>2
<1>10. \A i \in 1..Len(Sections) : \A k \in 0..(Sections[i].length - 1) :
         /\ Sections[i].virt + k \in VPages
         /\ \A p \in 0..(DirectPages - 1) : DirectBase + p # Sections[i].virt + k
  BY <1>1, <1>5, <1>6, LayoutAssumption
<1>11. \A p \in 0..(DirectPages - 1) : DirectBase + p \in VPages
  BY <1>1, <1>5
<1> QED
  BY <1>8, <1>9, <1>10, <1>11

LEMMA DirectStays == memmap' = memmap => DirectPages' = DirectPages
BY DEF DirectPages

(* Steps that write no entry: what has to be mapped must not change. *)
LEMMA EntriesStay ==
  ASSUME MapInv, UNCHANGED <<memmap, pte>>, at'.phase # "panic",
         at'.phase # "out of memory" =>
           /\ at.phase # "out of memory"
           /\ \A i \in 1..Len(Sections) : \A k \in 0..(Sections[i].length - 1) :
                ImageReached(i, k)' <=> ImageReached(i, k)
           /\ \A i \in 1..Len(memmap) : \A p \in PagesOf(memmap[i]) :
                IsMapped(memmap[i]) =>
                  (DirectReached(i, p - memmap[i].base)' <=> DirectReached(i, p - memmap[i].base))
  PROVE  MapInv'
<1> SUFFICES ASSUME at'.phase # "out of memory" PROVE ImageMapped' /\ DirectMapped'
  BY DEF MapInv
<1>1. ImageMapped /\ DirectMapped /\ DirectPages' = DirectPages
  BY DirectStays DEF MapInv
<1>2. ImageMapped'
  BY <1>1 DEF ImageMapped
<1>3. \A p : Shown(p)' <=> Shown(p)
  BY DEF Shown
<1>4. DirectMapped'
  BY <1>1, <1>3 DEF DirectMapped
<1> QED
  BY <1>2, <1>4

LEMMA MapInitInv == EarlyInit => MapInv
<1> SUFFICES ASSUME EarlyInit PROVE MapInv
  OBVIOUS
<1>1. /\ memmap \in MemoryMaps /\ pte = [v \in VPages |-> None] /\ at.phase = "root"
  BY DEF EarlyInit
<1>2. \A i, k : ~ImageReached(i, k) /\ ~DirectReached(i, k)
  BY <1>1 DEF ImageReached, DirectReached
<1>3. ImageMapped
  BY <1>1, <1>2, LayoutFacts DEF ImageMapped
<1>4. DirectMapped
  BY <1>1, <1>2, LayoutFacts DEF DirectMapped, Shown
<1> QED
  BY <1>1, <1>3, <1>4 DEF MapInv

(* The ranges of the image and of the direct map *)
LEMMA MapRanges ==
  ASSUME EarlyInv
  PROVE  /\ at.phase = "kernel" => Ranges = Sections
         /\ at.phase = "direct" =>
              /\ Len(Ranges) = Len(memmap)
              /\ \A i \in 1..Len(memmap) : Ranges[i] = DirectRange(memmap[i])
<1>1. MapInOrder
  BY MapFacts DEF EarlyInv, EarlyTypeOK
<1>2. at.phase = "direct" => Ranges = [i \in 1..Len(memmap) |-> DirectRange(memmap[i])]
  BY DEF Ranges
<1> QED
  BY <1>1, <1>2 DEF MapInOrder, Ranges

(* A page of the image: its entry is empty, and nobody else's *)
LEMMA ImagePage ==
  ASSUME EarlyInv, MapInv, early_virt_map, at.phase = "kernel"
  PROVE  MapInv'
<1>1. /\ memmap \in MemoryMaps /\ pte \in [VPages -> Nat \cup {None}]
      /\ at \in [phase : Phases, entry : Nat \ {0}, page : Nat] /\ memmap' = memmap
      /\ ImageMapped /\ DirectMapped /\ DirectPages' = DirectPages
  <2>1. memmap' = memmap
    BY DEF early_virt_map
  <2> QED
    BY <2>1, DirectStays DEF EarlyInv, EarlyTypeOK, MapInv
<1>2. /\ at.entry \in 1..Len(Sections) /\ at.page \in 0..(Sections[at.entry].length - 1)
      /\ Virt = Sections[at.entry].virt + at.page /\ Phys = Sections[at.entry].phys + at.page
  <2>1. Inside /\ Ranges = Sections
    BY MapRanges DEF early_virt_map
  <2>2. at.entry \in 1..Len(Sections)
    BY <1>1, <2>1, SectionFacts DEF Inside, Mapping
  <2>3. at.page \in Nat /\ at.page < Sections[at.entry].length /\ Sections[at.entry].length \in Nat
    BY <1>1, <2>1, <2>2, SectionFacts DEF Inside
  <2>4. Virt = Sections[at.entry].virt + at.page /\ Phys = Sections[at.entry].phys + at.page
    BY <2>1 DEF Virt, Phys
  <2> QED
    BY <2>2, <2>3, <2>4
<1>3. PICK n \in 1..Len(Sections), m \in Nat :
        n = at.entry /\ m = at.page /\ m \in 0..(Sections[n].length - 1)
  BY <1>2
<1>4. ~ImageReached(n, m)
  BY <1>1, <1>3 DEF ImageReached, Before
<1>5. pte[Virt] = None /\ Virt \in VPages
  BY <1>1, <1>2, <1>3, <1>4, LayoutFacts DEF ImageMapped
<1>6. pte' = [pte EXCEPT ![Virt] = Phys] /\ NextPage
  BY <1>5 DEF early_virt_map
<1>7. at'.phase = "kernel" /\ at'.entry = n /\ at'.page = m + 1
  BY <1>1, <1>3, <1>6, AtMoves
<1>8. \A p \in 0..(DirectPages - 1) : pte'[DirectBase + p] = pte[DirectBase + p]
  BY <1>1, <1>2, <1>3, <1>6, LayoutFacts
<1>9. \A i, k : DirectReached(i, k)' <=> DirectReached(i, k)
  BY <1>7 DEF DirectReached
<1>10. DirectMapped'
  BY <1>1, <1>8, <1>9 DEF DirectMapped, Shown
<1>11. ASSUME NEW i \in 1..Len(Sections), NEW k \in 0..(Sections[i].length - 1)
       PROVE  pte'[Sections[i].virt + k]
                = (IF ImageReached(i, k)' THEN Sections[i].phys + k ELSE None)
  <2>1. CASE i = n /\ k = m
    BY <1>1, <1>2, <1>3, <1>5, <1>6, <1>7, <2>1 DEF ImageReached, Before
  <2>2. CASE ~(i = n /\ k = m)
    <3>1. ImageReached(i, k)' <=> ImageReached(i, k)
      BY <1>3, <1>7, <2>2, SectionFacts DEF ImageReached, Before
    <3>2. Sections[i].virt + k # Virt /\ Sections[i].virt + k \in VPages
      BY <1>1, <1>2, <1>3, <2>2, LayoutFacts
    <3>3. pte'[Sections[i].virt + k] = pte[Sections[i].virt + k]
      BY <1>1, <1>6, <3>2
    <3> QED
      BY <1>1, <3>1, <3>3 DEF ImageMapped
  <2> QED
    BY <2>1, <2>2
<1> QED
  BY <1>7, <1>10, <1>11 DEF MapInv, ImageMapped

(* A page of the direct map: no two entries of the memory map show it *)
LEMMA DirectPage ==
  ASSUME EarlyInv, MapInv, early_virt_map, at.phase = "direct"
  PROVE  MapInv'
<1>1. /\ memmap \in MemoryMaps /\ pte \in [VPages -> Nat \cup {None}]
      /\ at \in [phase : Phases, entry : Nat \ {0}, page : Nat] /\ memmap' = memmap
      /\ ImageMapped /\ DirectMapped /\ DirectPages' = DirectPages
  <2>1. memmap' = memmap
    BY DEF early_virt_map
  <2> QED
    BY <2>1, DirectStays DEF EarlyInv, EarlyTypeOK, MapInv
<1>2. MapInOrder /\ DirectBase \in Nat
  BY <1>1, MapFacts, EarlyAssumption
<1>3. PICK n \in 1..Len(memmap) :
        /\ n = at.entry /\ IsMapped(memmap[n]) /\ at.page < memmap[n].length
        /\ Virt = DirectBase + memmap[n].base + at.page /\ Phys = memmap[n].base + at.page
  <2>1. Inside /\ Len(Ranges) = Len(memmap) /\ \A i \in 1..Len(memmap) : Ranges[i] = DirectRange(memmap[i])
    BY MapRanges DEF early_virt_map
  <2>2. at.entry \in 1..Len(memmap)
    BY <1>1, <1>2, <2>1 DEF Inside, Mapping, MapInOrder
  <2>3. /\ Ranges[at.entry] = DirectRange(memmap[at.entry]) /\ at.page < Ranges[at.entry].length
        /\ memmap[at.entry].base \in Nat /\ at.page \in Nat
    BY <1>1, <1>2, <2>1, <2>2 DEF Inside, MapInOrder
  <2>4. IsMapped(memmap[at.entry]) /\ at.page < memmap[at.entry].length
    BY <2>3 DEF DirectRange
  <2>5. Virt = DirectBase + memmap[at.entry].base + at.page /\ Phys = memmap[at.entry].base + at.page
    BY <2>3 DEF DirectRange, Virt, Phys
  <2> QED
    BY <2>2, <2>4, <2>5
<1>4. PICK q \in 0..(DirectPages - 1) :
        q = memmap[n].base + at.page /\ Virt = DirectBase + q /\ Phys = q /\ q \in PagesOf(memmap[n])
  <2>1. memmap[n].base \in Nat /\ memmap[n].length \in Nat /\ at.page \in Nat
    BY <1>1, <1>2 DEF MapInOrder
  <2>2. memmap[n].base + memmap[n].length <= DirectPages /\ DirectPages \in Nat
    BY <1>1, <1>3, DirectReaches
  <2>3. memmap[n].base + at.page \in 0..(DirectPages - 1)
    <3>1. PICK b, l, k, d \in Nat :
            b = memmap[n].base /\ l = memmap[n].length /\ k = at.page /\ d = DirectPages
      BY <2>1, <2>2
    <3>2. b + l <= d /\ k < l
      BY <1>3, <2>2, <3>1
    <3>3. b + k \in 0..(d - 1)
      BY <3>2
    <3> QED
      BY <3>1, <3>3
  <2>4. Virt = DirectBase + (memmap[n].base + at.page)
    BY <1>2, <1>3, <2>1
  <2>5. memmap[n].base + at.page \in PagesOf(memmap[n])
    <3>1. PICK b, l, k \in Nat : b = memmap[n].base /\ l = memmap[n].length /\ k = at.page
      BY <2>1
    <3>2. k < l
      BY <1>3, <3>1
    <3>3. b + k \in b..(b + l - 1)
      BY <3>2
    <3> QED
      BY <3>1, <3>3 DEF PagesOf
  <2> QED
    BY <1>3, <2>3, <2>4, <2>5
(* the only entry with this page is the one the loop is in *)
<1>5. \A i \in 1..Len(memmap) : q \in PagesOf(memmap[i]) => i = n
  <2> SUFFICES ASSUME NEW i \in 1..Len(memmap), q \in PagesOf(memmap[i]), i # n PROVE FALSE
    OBVIOUS
  <2>1. /\ memmap[i].base \in Nat /\ memmap[i].length \in Nat
        /\ memmap[n].base \in Nat /\ memmap[n].length \in Nat
        /\ memmap[i].base <= q /\ q < memmap[i].base + memmap[i].length
        /\ memmap[n].base <= q /\ q < memmap[n].base + memmap[n].length
    <3>1. /\ memmap[i].base \in Nat /\ memmap[i].length \in Nat
          /\ memmap[n].base \in Nat /\ memmap[n].length \in Nat
      BY <1>2 DEF MapInOrder
    <3>2. \A j \in 1..Len(memmap) : q \in PagesOf(memmap[j]) =>
            memmap[j].base <= q /\ q < memmap[j].base + memmap[j].length
      BY <1>2, InsideEntry
    <3> QED
      BY <1>4, <3>1, <3>2
  <2>2. i < n \/ n < i
    BY <1>2 DEF MapInOrder
  <2>3. \/ memmap[n].base >= memmap[i].base + memmap[i].length
        \/ memmap[i].base >= memmap[n].base + memmap[n].length
    BY <1>2, <2>2 DEF MapInOrder
  <2> QED
    BY <2>1, <2>3
<1>6. q - memmap[n].base = at.page
  BY <1>1, <1>2, <1>4 DEF MapInOrder
<1>7. ~Shown(q)
  BY <1>1, <1>3, <1>5, <1>6 DEF Shown, DirectReached, Before
<1>8. pte[Virt] = None /\ Virt \in VPages
  BY <1>1, <1>4, <1>7, LayoutFacts DEF DirectMapped
<1>9. pte' = [pte EXCEPT ![Virt] = Phys] /\ NextPage
  BY <1>8 DEF early_virt_map
<1>10. at'.phase = "direct" /\ at'.entry = n /\ at'.page = at.page + 1
  BY <1>1, <1>3, <1>9, AtMoves
<1>11. Shown(q)'
  BY <1>1, <1>3, <1>4, <1>6, <1>10 DEF Shown, DirectReached, Before
<1>12. ASSUME NEW p \in 0..(DirectPages - 1), p # q
       PROVE  Shown(p)' <=> Shown(p)
  <2>1. ASSUME NEW i \in 1..Len(memmap), p \in PagesOf(memmap[i])
        PROVE  DirectReached(i, p - memmap[i].base)' <=> DirectReached(i, p - memmap[i].base)
    <3>1. p \in Nat /\ memmap[i].base \in Nat /\ p - memmap[i].base \in Nat /\ at.page \in Nat
      BY <1>1, <1>2, <2>1 DEF MapInOrder, PagesOf
    <3>2. i = n => p - memmap[i].base # at.page
      BY <1>4, <1>12, <3>1
    <3>3. PICK k \in Nat : k = p - memmap[i].base
      BY <3>1
    <3>4. k < at.page + 1 <=> k < at.page \/ k = at.page
      BY <3>1
    <3>5. DirectReached(i, k)' <=> DirectReached(i, k)
      BY <1>3, <1>10, <3>2, <3>3, <3>4 DEF DirectReached, Before
    <3> QED
      BY <1>1, <3>3, <3>5 DEF DirectReached, Before
  <2> QED
    BY <1>1, <2>1 DEF Shown
<1>13. ASSUME NEW p \in 0..(DirectPages - 1)
       PROVE  pte'[DirectBase + p] = (IF Shown(p)' THEN p ELSE None)
  <2>1. CASE p = q
    BY <1>1, <1>4, <1>8, <1>9, <1>11, <2>1
  <2>2. CASE p # q
    <3>1. DirectBase + p \in VPages /\ DirectBase + p # Virt
      BY <1>1, <1>2, <1>4, <2>2, LayoutFacts
    <3>2. pte'[DirectBase + p] = pte[DirectBase + p]
      BY <1>1, <1>9, <3>1
    <3> QED
      BY <1>1, <1>12, <2>2, <3>2 DEF DirectMapped
  <2> QED
    BY <2>1, <2>2
<1>14. ImageMapped'
  <2>1. \A i \in 1..Len(Sections) : \A k \in 0..(Sections[i].length - 1) :
          pte'[Sections[i].virt + k] = pte[Sections[i].virt + k]
    BY <1>1, <1>4, <1>9, LayoutFacts
  <2>2. \A i, k : ImageReached(i, k)' <=> ImageReached(i, k)
    BY <1>10 DEF ImageReached
  <2> QED
    BY <1>1, <2>1, <2>2 DEF ImageMapped
<1> QED
  BY <1>1, <1>10, <1>13, <1>14 DEF MapInv, DirectMapped

(* A page of the bitmap: apart from both *)
LEMMA BitmapPageApart ==
  ASSUME EarlyInv, MapInv, BitmapPage
  PROVE  MapInv'
<1>1. /\ Inside /\ at.phase = "bitmap" /\ NextPage /\ memmap' = memmap /\ bitmapAt' = bitmapAt
      /\ at \in [phase : Phases, entry : Nat \ {0}, page : Nat]
      /\ memmap \in MemoryMaps /\ pte \in [VPages -> Nat \cup {None}]
      /\ pte' = pte \/ pte' = [pte EXCEPT ![Virt] = NewPage]
      /\ bitmapAt \in BitmapPlaces
  BY DEF BitmapPage, EarlyInv, EarlyTypeOK, BitmapApart
<1>2. ImageMapped /\ DirectMapped /\ DirectPages' = DirectPages
  BY <1>1, DirectStays DEF MapInv
<1>3. Virt \in VPages /\ Virt \notin Taken
  <2>1. PICK i \in 1..Len(memmap) : i = at.entry /\ Ranges[at.entry] = BitmapRange(memmap[i])
    BY <1>1, BitmapRanges DEF Inside
  <2>2. Virt = BitmapRange(memmap[i]).virt + at.page /\ at.page < BitmapRange(memmap[i]).length
    BY <1>1, <2>1 DEF Virt, Inside
  <2>3. Virt \in bitmapAt..(bitmapAt + BitmapPages - 1)
    BY <1>1, <2>2, BitmapRangeInside
  <2> QED
    BY <1>1, <2>3, BitmapPlaced
<1>4. \A v \in VPages : v \in Taken => pte'[v] = pte[v]
  BY <1>1, <1>3
<1>5. /\ \A p \in 0..(DirectPages - 1) : DirectBase + p \in Taken
      /\ \A i \in 1..Len(Sections) : \A k \in 0..(Sections[i].length - 1) :
           Sections[i].virt + k \in Taken
  <2>1. DirectBase \in Nat /\ DirectPages \in Nat
    BY <1>1, EarlyAssumption, DirectReaches
  <2>2. \A p \in 0..(DirectPages - 1) : DirectBase + p \in DirectBase .. DirectBase + DirectPages - 1
    BY <2>1
  <2>3. \A i \in 1..Len(Sections) : i \in DOMAIN Sections /\
          \A k \in 0..(Sections[i].length - 1) : Sections[i].virt + k \in SectionPages(i)
    BY SectionFacts DEF SectionPages
  <2> QED
    BY <2>2, <2>3 DEF Taken
<1>6. at'.phase = "bitmap"
  BY <1>1, AtMoves
<1>7. \A i, k : (ImageReached(i, k)' <=> ImageReached(i, k)) /\ (DirectReached(i, k)' <=> DirectReached(i, k))
  BY <1>1, <1>6 DEF ImageReached, DirectReached
<1>8. ImageMapped'
  BY <1>1, <1>2, <1>4, <1>5, <1>7, LayoutFacts DEF ImageMapped
<1>9. \A p : Shown(p)' <=> Shown(p)
  BY <1>1, <1>7 DEF Shown
<1>10. DirectMapped'
  BY <1>1, <1>2, <1>4, <1>5, <1>9, LayoutFacts DEF DirectMapped
<1> QED
  BY <1>6, <1>8, <1>10 DEF MapInv

(* One phase ends and the next begins: what the next has to map is not     *)
(* mapped yet, what the last had to map is.                                *)
LEMMA RangeDoneKeepsMap ==
  ASSUME EarlyInv, MapInv, RangeDone
  PROVE  MapInv'
<1>1. /\ Mapping /\ at.page = Ranges[at.entry].length /\ UNCHANGED <<memmap, pte>>
      /\ at \in [phase : Phases, entry : Nat \ {0}, page : Nat]
      /\ at'.phase = at.phase /\ at'.entry = at.entry + 1 /\ at'.page = 0
      /\ at.phase \in {"kernel", "direct", "bitmap"} /\ MapInOrder
  BY AtMoves, MappingPhases, MapFacts DEF RangeDone, EarlyInv, EarlyTypeOK
<1>2. ASSUME NEW i \in Nat, NEW k \in Nat, i = at.entry => k < at.page
      PROVE  Before(i, k)' <=> Before(i, k)
  BY <1>1, <1>2 DEF Before
<1>3. ASSUME NEW i \in 1..Len(Sections), NEW k \in 0..(Sections[i].length - 1)
      PROVE  ImageReached(i, k)' <=> ImageReached(i, k)
  <2>1. at.phase = "kernel" => (i = at.entry => k < at.page)
    BY <1>1, MapRanges, SectionFacts
  <2>2. i \in Nat /\ k \in Nat
    BY SectionFacts
  <2> QED
    BY <1>1, <1>2, <2>1, <2>2 DEF ImageReached
<1>4. ASSUME NEW i \in 1..Len(memmap), NEW p \in PagesOf(memmap[i]), IsMapped(memmap[i])
      PROVE  DirectReached(i, p - memmap[i].base)' <=> DirectReached(i, p - memmap[i].base)
  <2>1. PICK k \in Nat : k = p - memmap[i].base /\ k < memmap[i].length /\ i \in Nat
    <3>1. memmap[i].base \in Nat /\ memmap[i].length \in Nat /\ i \in Nat
      BY <1>1 DEF MapInOrder
    <3>2. p \in Nat /\ memmap[i].base <= p /\ p < memmap[i].base + memmap[i].length
      BY <1>1, InsideEntry
    <3> QED
      BY <3>1, <3>2
  <2>2. at.phase = "direct" => (i = at.entry => k < at.page)
    <3>1. DirectRange(memmap[i]).length = memmap[i].length
      BY <1>4 DEF DirectRange
    <3> QED
      BY <1>1, <2>1, <3>1, MapRanges
  <2>3. DirectReached(i, k)' <=> DirectReached(i, k)
    BY <1>1, <1>2, <2>1, <2>2 DEF DirectReached
  <2>4. (p - memmap[i].base)' = k
    BY <1>1, <2>1
  <2> QED
    BY <1>1, <2>1, <2>3 DEF DirectReached, Before
<1> QED
  BY <1>1, <1>3, <1>4, EntriesStay

LEMMA PhasesKeepMap ==
  ASSUME EarlyInv, MapInv,
         AllocRoot \/ KernelDone \/ DirectDone \/ BitmapDone \/ RanOut \/ AddEntry \/ AddCommitted
  PROVE  MapInv'
<1>1. /\ UNCHANGED <<memmap, pte>> /\ MapInOrder /\ memmap \in MemoryMaps
      /\ at \in [phase : Phases, entry : Nat \ {0}, page : Nat]
  BY MapFacts DEF AllocRoot, KernelDone, DirectDone, BitmapDone, RanOut, AddEntry, AddCommitted,
                  EarlyInv, EarlyTypeOK
<1>2. ASSUME NEW i \in Nat \ {0}, NEW k \in Nat, at'.entry = 1, at'.page = 0
      PROVE  ~Before(i, k)'
  BY <1>2 DEF Before
<1>3. ASSUME NEW i \in 1..Len(memmap), NEW p \in PagesOf(memmap[i])
      PROVE  p - memmap[i].base \in Nat /\ i \in Nat \ {0}
  BY <1>1 DEF MapInOrder, PagesOf
<1>4. \A i \in 1..Len(Sections) : i \in Nat \ {0} /\ \A k \in 0..(Sections[i].length - 1) : k \in Nat
  BY SectionFacts
<1>5. CASE AllocRoot
  <2>1. at.phase = "root" /\ at'.phase = "kernel" /\ at'.entry = 1 /\ at'.page = 0
    BY <1>1, <1>5, AtMoves DEF AllocRoot, Phases
  <2> QED
    BY <1>1, <1>2, <1>3, <1>4, <2>1, EntriesStay DEF ImageReached, DirectReached
<1>6. CASE KernelDone
  <2>1. at.phase = "kernel" /\ ~Mapping /\ at'.phase = "direct" /\ at'.entry = 1 /\ at'.page = 0
    BY <1>1, <1>6, AtMoves DEF KernelDone, Phases
  <2>2. \A i \in 1..Len(Sections) : i < at.entry
    BY <1>1, <2>1, MapRanges, SectionFacts DEF Mapping
  <2> QED
    BY <1>1, <1>2, <1>3, <1>4, <2>1, <2>2, EntriesStay DEF ImageReached, DirectReached, Before
<1>7. CASE DirectDone
  <2>1. at.phase = "direct" /\ ~Mapping /\ at'.phase = "bitmap"
    BY <1>1, <1>7, AtMoves, LayoutFacts DEF DirectDone, Phases
  <2>2. \A i \in 1..Len(memmap) : i < at.entry
    BY <1>1, <2>1, MapRanges DEF Mapping, MapInOrder
  <2> QED
    BY <1>1, <2>1, <2>2, EntriesStay DEF ImageReached, DirectReached, Before
<1>8. CASE BitmapDone \/ AddEntry \/ AddCommitted
  <2>1. at.phase \in {"bitmap", "add", "done"} /\ at'.phase \in {"bitmap", "add", "done"}
    BY <1>1, <1>8, AtMoves DEF BitmapDone, AddEntry, AddCommitted, Phases
  <2> QED
    BY <1>1, <2>1, EntriesStay DEF ImageReached, DirectReached
<1>9. CASE RanOut
  <2>1. at'.phase = "out of memory"
    BY <1>1, <1>9, AtMoves DEF RanOut, Phases
  <2> QED
    BY <2>1 DEF MapInv
<1> QED
  BY <1>5, <1>6, <1>7, <1>8, <1>9

LEMMA MapStepInv == EarlyInv /\ MapInv /\ [EarlyNext]_earlyVars => MapInv'
<1> SUFFICES ASSUME EarlyInv, MapInv, [EarlyNext]_earlyVars PROVE MapInv'
  OBVIOUS
<1>1. CASE early_virt_get_next_level \/ UNCHANGED earlyVars
  <2>1. UNCHANGED <<memmap, pte, at>>
    BY <1>1 DEF early_virt_get_next_level, earlyVars
  <2> QED
    BY <2>1, EntriesStay DEF MapInv, ImageReached, DirectReached, Before
<1>2. CASE early_virt_map
  BY <1>2, ImagePage, DirectPage DEF early_virt_map
<1>3. CASE BitmapPage \/ RangeDone
  BY <1>3, BitmapPageApart, RangeDoneKeepsMap
<1>4. CASE AllocRoot \/ KernelDone \/ DirectDone \/ BitmapDone \/ RanOut \/ AddEntry \/ AddCommitted
  BY <1>4, PhasesKeepMap
<1> QED
  BY <1>1, <1>2, <1>3, <1>4 DEF EarlyNext

(* boot/virt.c lines 163 to 218: no entry is written twice, the bitmap     *)
(* finds its place, and from the switch of the tables on the direct map    *)
(* shows exactly the usable and the reclaimable memory, with every page    *)
(* table, every page of the bitmap and all that the buddy allocator gets.  *)
THEOREM EarlyDirectMapExact == EarlySpec => []DirectMapExact
<1>1. ASSUME EarlyInv, MapInv PROVE DirectMapExact
  <2> SUFFICES ASSUME at.phase \in {"bitmap", "add", "done"}
               PROVE  /\ \A p \in 0 .. DirectPages - 1 :
                           pte[DirectBase + p] = (IF p \in MappedPages THEN p ELSE None)
                      /\ EarlyPages \cup given \subseteq MappedPages
                      /\ \A i \in DOMAIN Sections : \A k \in 0 .. Sections[i].length - 1 :
                           pte[Sections[i].virt + k] = Sections[i].phys + k
    BY <1>1 DEF DirectMapExact, MapInv
  <2>1. MapInOrder /\ ImageMapped /\ DirectMapped
    BY <1>1, MapFacts DEF EarlyInv, EarlyTypeOK, MapInv
  <2>2. \A p : Shown(p) <=> p \in MappedPages
    BY <2>1 DEF Shown, MappedPages, DirectReached, MapInOrder
  <2>3. \A p \in 0 .. DirectPages - 1 :
          pte[DirectBase + p] = (IF p \in MappedPages THEN p ELSE None)
    BY <2>1, <2>2 DEF DirectMapped
  <2>4. UsablePages \subseteq MappedPages
    BY DEF UsablePages, MappedPages, IsUsable, IsMapped
  <2>5. EarlyPages \cup given \subseteq UsablePages
    BY <1>1 DEF EarlyInv, PagesCounted, GivenOK
  <2>6. \A i \in DOMAIN Sections : \A k \in 0 .. Sections[i].length - 1 :
          pte[Sections[i].virt + k] = Sections[i].phys + k
    BY <2>1, SectionFacts DEF ImageMapped, ImageReached
  <2> QED
    BY <2>3, <2>4, <2>5, <2>6
<1>2. EarlySpec => []MapInv
  BY MapInitInv, MapStepInv, EarlyAlwaysInv, PTL DEF EarlySpec
<1> QED
  BY <1>1, <1>2, EarlyAlwaysInv, PTL
=============================================================================
