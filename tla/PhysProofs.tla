----------------------------- MODULE PhysProofs -----------------------------
(***************************************************************************)
(* The buddy allocator and the accounting it drives are right for any      *)
(* number of cores, levels, minimal blocks and regions of memory: blocks   *)
(* never overlap and merge fully, an allocation is zeroed, no assertion    *)
(* fails, and the counters promise only pages that are free.               *)
(***************************************************************************)
EXTENDS Phys, AccountingProofs, ListTheorems, WellFoundedInduction

(* The memory of a set of blocks *)
Area(B) == UNION {Span(b[1], b[2]) : b \in B}

(* A block is aligned to its size and ends within the address space. *)
Blocks == {b \in Units \X Levels : b[1] % 2 ^ b[2] = 0 /\ b[1] + 2 ^ b[2] <= NumUnits}

Free(fl) == UNION {{<<ptr, l>> : ptr \in Range(fl[l])} : l \in Levels}

(* What the freelists, the headers and the bitmap say of the free blocks   *)
(* and of the blocks `taken` that are out of the allocator.                *)
BuddyOK(fl, hd, fb, taken) ==
  /\ fl \in [Levels -> Seq(Units)] /\ \A l \in Levels : NoDuplicates(fl[l])
  /\ hd \in [Units -> Levels \cup {Zero, Data}]
  /\ fb \in [Units -> BOOLEAN]
  /\ Free(fl) \cup taken \subseteq Blocks
  /\ Apart(Free(fl), taken)
  /\ \A a, b \in Free(fl) \cup taken : a # b => Apart(Span(a[1], a[2]), Span(b[1], b[2]))
  /\ \A b \in Free(fl) :
       /\ hd[b[1]] = b[2] /\ fb[b[1]]
       /\ \A u \in Span(b[1], b[2]) : u # b[1] => hd[u] = Zero
       /\ b[2] < MAX_LEVEL - 1 => <<Neighbor(b[1], b[2]), b[2]>> \notin Free(fl)
  /\ \A b \in taken : ~fb[b[1]]
  /\ \A u \in Units : fb[u] => u \in Area(Free(fl) \cup taken)

InLock == {"search", "commit", "take", "merge"}
Taken == owned \cup BlocksInHand

OpStates ==
  [pc : {"idle", "return", "halted"} \cup InLock, ptr : Units \cup {NoBlock},
   level : Levels, at : Levels, reserved : BOOLEAN]

PhysTypes ==
  /\ lock \in {0, 1}
  /\ op \in [Cpus -> OpStates]
  /\ owned \subseteq Units \X Levels
  /\ boot \in [region : 1..(Len(Regions) + 1), started : BOOLEAN, at : Nat]

(* One core at a time is in a critical section, and the freelist it has    *)
(* chosen stays non-empty.                                                 *)
LockOK ==
  /\ \A c \in Cpus : op[c].pc \in InLock => lock = 1
  /\ \A c, d \in Cpus : op[c].pc \in InLock /\ op[d].pc \in InLock => c = d
  /\ \A c \in Cpus :
       /\ op[c].pc \in {"commit", "take"} => op[c].level <= op[c].at /\ freelist[op[c].at] # <<>>
       /\ op[c].pc \in {"idle", "search", "commit", "take"} => op[c].ptr = NoBlock
       /\ op[c].pc \in {"return", "merge"} => op[c].ptr # NoBlock

(* Each core has its own block in hand, and it is zero. *)
HandsOK ==
  /\ \A c \in Cpus : op[c].ptr # NoBlock =>
       /\ <<op[c].ptr, op[c].level>> \notin owned
       /\ \A u \in Span(op[c].ptr, op[c].level) : hdr[u] = Zero
  /\ \A c, d \in Cpus : c # d /\ op[c].ptr # NoBlock /\ op[d].ptr # NoBlock =>
       <<op[c].ptr, op[c].level>> # <<op[d].ptr, op[d].level>>

(* The memory phys_add_memory has put in the freelists so far *)
DoneUnits == UNION {RegionUnits(i) : i \in 1..(boot.region - 1)}
MemUnits == DoneUnits \cup (IF boot.started THEN Regions[boot.region][1]..(boot.at - 1) ELSE {})

BootOK ==
  /\ ~Booted => owned = {} /\ \A c \in Cpus : op[c] = Idle
  /\ boot.started =>
       /\ ~Booted
       /\ Regions[boot.region][1] <= boot.at /\ boot.at <= Regions[boot.region][2]
       /\ boot.at % UnitsPerPage = 0
       /\ \A u \in boot.at..(Regions[boot.region][2] - 1) : hdr[u] = Zero

BuddyInv ==
  /\ PhysTypes /\ LockOK /\ HandsOK /\ BootOK
  /\ BuddyOK(freelist, hdr, freeBit, Taken)
  /\ Area(FreeBlocks \cup Taken) = MemUnits

(* An accounting call belongs to the step of the allocator that made it.   *)
FrameFits(o, f) ==
  /\ f.pc # "idle" => o.pc \in {"idle", "commit"}
  /\ f.pc # "idle" /\ o.pc = "commit" =>
       f.op \in {"commit", "commit_reserved"} /\ f.n = PagesToCommit(o.level, o.at)
  /\ f.pc # "idle" /\ o.pc = "idle" =>
       f.op \in {"reserve", "unreserve", "uncommit", "uncommit_to_reserved", "add_total"}
  /\ o.reserved => o.level >= PAGE_LEVEL
  /\ o.pc = "take" => PagesToCommit(o.level, o.at) = 0

FramesOK == \A c \in Cpus : FrameFits(op[c], frame[c])

(* A core that searches a block for reserved pages still has them reserved. *)
ClaimsOK ==
  \A c \in Cpus : op[c].pc = "search" /\ op[c].reserved =>
    get_page_count_by_level(op[c].level) <= held["reserved"]

(* Pages that are committed while their block is still on a freelist *)
Granted(c) == op[c].pc = "commit" /\ frame[c].pc = "idle" /\ frame[c].ok

(* Every page of memory is free as a whole, or some caller has committed it. *)
PagesExact ==
  /\ (\A c \in Cpus : ~Granted(c)) =>
       Cardinality(FreePages) + held["committed"] = Cardinality(PagesIn(MemUnits))
  /\ \A c \in Cpus : Granted(c) =>
       Cardinality(FreePages) + held["committed"]
         = Cardinality(PagesIn(MemUnits)) + PagesToCommit(op[c].level, op[c].at)
  /\ held["outside"] + Cardinality(PagesIn(DoneUnits)) = MaxPages

PhysInv == AcctInv /\ BuddyInv /\ FramesOK /\ ClaimsOK /\ PagesExact

-----------------------------------------------------------------------------
(* Powers of two *)

LEMMA LeastExists ==
  ASSUME NEW T, T \subseteq Nat, T # {}
  PROVE  \E x \in T : \A y \in T : x <= y
<1>1. PICK x \in T : \A y \in T : ~ (<<y, x>> \in OpToRel(<, Nat))
  BY NatLessThanWellFounded, WFMin
<1>2. \A y \in T : ~ (y < x)
  BY <1>1 DEF OpToRel
<1> QED
  BY <1>2

LEMMA GreatestExists ==
  ASSUME NEW T, NEW n \in Nat, T \subseteq 0..n, T # {}
  PROVE  \E x \in T : \A y \in T : y <= x
<1> DEFINE U == {n - x : x \in T}
<1>1. U \subseteq Nat /\ U # {}
  <2>1. \A x \in T : n - x \in Nat
    OBVIOUS
  <2> QED
    BY <2>1
<1>2. PICK u \in U : \A y \in U : u <= y
  <2> HIDE DEF U
  <2> QED
    BY <1>1, LeastExists
<1>3. PICK x \in T : u = n - x
  OBVIOUS
<1>4. \A y \in T : n - x <= n - y
  BY <1>2, <1>3
<1> QED
  BY <1>4

(* The subsets of a set with one more element are twice as many: this is   *)
(* where the recursion of the exponential comes from.                      *)
LEMMA PowStep ==
  ASSUME NEW n \in Nat
  PROVE  2 ^ n \in Nat /\ 2 ^ (n + 1) = 2 * 2 ^ n
<1> DEFINE A == 1..n
           B == 1..(n + 1)
           P == SUBSET A
           Q == {X \cup {n + 1} : X \in P}
<1>1. IsFiniteSet(A) /\ Cardinality(A) = n /\ IsFiniteSet(B) /\ Cardinality(B) = n + 1
  BY FS_Interval
<1>2. IsFiniteSet(P) /\ Cardinality(P) = 2 ^ n
  BY <1>1, FS_SUBSET
<1>3. IsFiniteSet(SUBSET B) /\ Cardinality(SUBSET B) = 2 ^ (n + 1)
  BY <1>1, FS_SUBSET
<1>4. n + 1 \notin A /\ B = A \cup {n + 1}
  OBVIOUS
<1> HIDE DEF A, B
<1>5. P \cap Q = {} /\ P \cup Q = SUBSET B
  <2>1. P \cap Q = {}
    BY <1>4
  <2>2. P \cup Q \subseteq SUBSET B
    BY <1>4
  <2>3. ASSUME NEW X \in SUBSET B PROVE X \in P \cup Q
    <3>1. CASE n + 1 \in X
      <4>1. X \ {n + 1} \in P /\ X = (X \ {n + 1}) \cup {n + 1}
        BY <1>4, <3>1
      <4> QED
        BY <4>1
    <3>2. CASE n + 1 \notin X
      BY <1>4, <3>2
    <3> QED
      BY <3>1, <3>2
  <2> QED
    BY <2>1, <2>2, <2>3
<1>6. IsFiniteSet(Q) /\ Cardinality(Q) = Cardinality(P)
  <2> DEFINE f == [X \in P |-> X \cup {n + 1}]
  <2>1. f \in Bijection(P, Q)
    <3>1. f \in [P -> Q] /\ \A Y \in Q : \E X \in P : f[X] = Y
      OBVIOUS
    <3>2. \A X, Y \in P : f[X] = f[Y] => X = Y
      BY <1>4
    <3> QED
      BY <3>1, <3>2 DEF Bijection, Injection, Surjection, IsInjective
  <2>2. ExistsBijection(P, Q)
    BY <2>1 DEF ExistsBijection
  <2> QED
    BY <1>2, <2>2, FS_Bijection
<1>7. Cardinality(P) \in Nat /\ Cardinality(Q) \in Nat
  BY <1>2, <1>6, FS_CardinalityType
<1>8. Cardinality(P \cup Q) = Cardinality(P) + Cardinality(Q) - Cardinality(P \cap Q)
  BY <1>2, <1>6, FS_Union
<1>9. Cardinality(P \cap Q) = 0
  BY <1>5, FS_EmptySet
<1>10. 2 ^ (n + 1) = Cardinality(P \cup Q)
  BY <1>3, <1>5
<1> HIDE DEF P, Q
<1>11. Cardinality(P \cup Q) = 2 * Cardinality(P)
  BY <1>6, <1>7, <1>8, <1>9
<1> QED
  BY <1>2, <1>7, <1>10, <1>11

LEMMA PowZero == 2 ^ 0 = 1
OBVIOUS

LEMMA PowType ==
  ASSUME NEW n \in Nat
  PROVE  2 ^ n \in Nat \ {0}
<1> DEFINE T == {k \in Nat : 2 ^ k = 0}
<1> SUFFICES T = {}
  BY PowStep
<1> SUFFICES ASSUME T # {} PROVE FALSE
  OBVIOUS
<1>1. PICK k \in T : \A y \in T : k <= y
  BY LeastExists
<1>2. k # 0
  <2> SUFFICES ASSUME k = 0 PROVE FALSE
    OBVIOUS
  <2>1. 2 ^ k = 1
    BY PowZero
  <2> QED
    BY <1>1, <2>1
<1>3. k - 1 \in Nat /\ k = (k - 1) + 1
  BY <1>2
<1>4. 2 ^ (k - 1) \in Nat /\ 2 ^ k = 2 * 2 ^ (k - 1)
  BY <1>3, PowStep
<1>5. 2 ^ (k - 1) = 0
  BY <1>4
<1> QED
  BY <1>1, <1>3, <1>5

LEMMA PowAdd ==
  ASSUME NEW a \in Nat, NEW b \in Nat
  PROVE  2 ^ (a + b) = 2 ^ a * 2 ^ b
<1> DEFINE T == {k \in Nat : 2 ^ (a + k) # 2 ^ a * 2 ^ k}
<1> SUFFICES ASSUME T # {} PROVE FALSE
  OBVIOUS
<1>1. PICK k \in T : \A y \in T : k <= y
  BY LeastExists
<1>2. 2 ^ a \in Nat
  BY PowType
<1>3. k # 0
  <2> SUFFICES ASSUME k = 0 PROVE FALSE
    OBVIOUS
  <2>1. a + k = a /\ 2 ^ k = 1
    BY PowZero
  <2> QED
    BY <1>1, <1>2, <2>1
<1>4. k - 1 \in Nat /\ k = (k - 1) + 1 /\ a + (k - 1) \in Nat /\ a + k = (a + (k - 1)) + 1
  BY <1>3
<1>5. 2 ^ (k - 1) \in Nat /\ 2 ^ k = 2 * 2 ^ (k - 1)
  BY <1>4, PowStep
<1>6. 2 ^ (a + (k - 1)) \in Nat /\ 2 ^ (a + k) = 2 * 2 ^ (a + (k - 1))
  BY <1>4, PowStep
<1>7. k - 1 \notin T
  BY <1>1, <1>4
<1>8. 2 ^ (a + (k - 1)) = 2 ^ a * 2 ^ (k - 1)
  BY <1>4, <1>7
<1>9. 2 ^ a * 2 ^ k = 2 * (2 ^ a * 2 ^ (k - 1))
  BY <1>2, <1>5
<1> QED
  BY <1>1, <1>6, <1>8, <1>9

(* The size of a block of a higher level is a multiple of the size of a    *)
(* block of a lower one.                                                   *)
LEMMA PowMultiple ==
  ASSUME NEW l \in Nat, NEW m \in Nat, l <= m
  PROVE  /\ 2 ^ l \in Nat \ {0} /\ 2 ^ (m - l) \in Nat \ {0} /\ 2 ^ l <= 2 ^ m
         /\ 2 ^ m = 2 ^ (m - l) * 2 ^ l
<1>1. m - l \in Nat /\ m = (m - l) + l
  OBVIOUS
<1>2. 2 ^ m = 2 ^ (m - l) * 2 ^ l
  BY <1>1, PowAdd, Zenon
<1>3. 2 ^ l \in Nat \ {0} /\ 2 ^ (m - l) \in Nat \ {0}
  BY <1>1, PowType
<1>4. \A x, y \in Nat \ {0} : y <= x * y
  OBVIOUS
<1> QED
  BY <1>2, <1>3, <1>4

-----------------------------------------------------------------------------
(* Alignment and buddies *)

LEMMA MulMono ==
  ASSUME NEW q \in Int, NEW r \in Int, NEW k \in Nat, q <= r
  PROVE  q * k <= r * k
OBVIOUS

(* The remainder is the one number below s that leaves a multiple of s. *)
LEMMA ModUnique ==
  ASSUME NEW s \in Nat \ {0}, NEW k \in Int, NEW r \in 0..(s - 1)
  PROVE  (k * s + r) % s = r
<1> DEFINE a == k * s + r
           q == a \div s
           t == a % s
<1>1. a \in Int /\ q \in Int /\ t \in 0..(s - 1) /\ a = q * s + t
  OBVIOUS
<1>2. k * s \in Int /\ q * s \in Int /\ (k + 1) * s = k * s + s /\ (q + 1) * s = q * s + s
  BY <1>1
<1>3. a = k * s + r
  OBVIOUS
<1> HIDE DEF a, q, t
<1>4. q = k
  <2>1. CASE q < k
    <3>1. (q + 1) * s <= k * s
      BY <1>1, <2>1, MulMono
    <3> QED
      BY <1>1, <1>2, <1>3, <3>1
  <2>2. CASE k < q
    <3>1. (k + 1) * s <= q * s
      BY <1>1, <2>2, MulMono
    <3> QED
      BY <1>1, <1>2, <1>3, <3>1
  <2> QED
    BY <1>1, <2>1, <2>2
<1>5. t = r
  BY <1>1, <1>2, <1>3, <1>4
<1> QED
  BY <1>5 DEF t, a

LEMMA Multiple ==
  ASSUME NEW s \in Nat \ {0}, NEW p \in Nat
  PROVE  /\ p % s = 0 <=> \E k \in Nat : p = k * s
         /\ \E k \in Nat, r \in 0..(s - 1) : p = k * s + r /\ p % s = r /\ k * s \in Nat
<1>1. PICK k \in Int, r \in 0..(s - 1) : p = k * s + r /\ p % s = r
  OBVIOUS
<1>2. k \in Nat
  <2> SUFFICES ASSUME k <= -1 PROVE FALSE
    BY <1>1
  <2>1. k * s <= -1 * s
    BY MulMono
  <2> QED
    BY <1>1, <2>1
<1>3. k * s \in Nat
  BY <1>2
<1>4. ASSUME NEW i \in Nat, p = i * s PROVE p % s = 0
  <2>1. (i * s + 0) % s = 0
    BY ModUnique
  <2>2. i * s + 0 = p
    BY <1>4
  <2> QED
    BY <2>1, <2>2
<1>5. ASSUME p % s = 0 PROVE p = k * s
  BY <1>1, <1>3, <1>5
<1>6. p % s = 0 <=> \E i \in Nat : p = i * s
  BY <1>2, <1>4, <1>5, Zenon
<1> QED
  BY <1>1, <1>2, <1>3, <1>6, Zenon

(* The block of level l around p is one half of the block of level l + 1   *)
(* around p; Neighbor(p, l) is the other.                                  *)
LEMMA Buddies ==
  ASSUME NEW p \in Nat, NEW l \in Nat
  PROVE  /\ AlignDown(p, l) \in Nat /\ AlignDown(p, l) % 2 ^ l = 0
         /\ p \in Span(AlignDown(p, l), l)
         /\ Neighbor(p, l) \in Nat /\ Neighbor(p, l) % 2 ^ l = 0
         /\ Apart(Span(AlignDown(p, l), l), Span(Neighbor(p, l), l))
         /\ Span(AlignDown(p, l + 1), l + 1)
              = Span(AlignDown(p, l), l) \cup Span(Neighbor(p, l), l)
         /\ AlignDown(Neighbor(p, l), l + 1) = AlignDown(p, l + 1)
         /\ Neighbor(Neighbor(p, l), l) = AlignDown(p, l)
         /\ AlignDown(p, l) % 2 ^ (l + 1) = 0 => Neighbor(p, l) = AlignDown(p, l) + 2 ^ l
<1>1. PICK s : s = 2 ^ l
  OBVIOUS
<1>2. s \in Nat \ {0} /\ 2 ^ (l + 1) = 2 * s
  BY <1>1, PowType, PowStep
<1>3. PICK k \in Nat, r \in 0..(s - 1) : p = k * s + r /\ p % s = r /\ k * s \in Nat
  BY <1>2, Multiple
<1>4. PICK j \in Nat, e \in {0, 1} : k = 2 * j + e
  <2>1. k = 2 * (k \div 2) + (k % 2) /\ k \div 2 \in Nat /\ k % 2 \in {0, 1}
    OBVIOUS
  <2> QED
    BY <2>1
<1>5. PICK b : b = j * (2 * s)
  OBVIOUS
<1>6. b \in Nat /\ k * s = b + e * s /\ e * s \in {0, s} /\ (e = 0 => e * s = 0) /\ (e = 1 => e * s = s)
  BY <1>2, <1>4, <1>5
<1>7. \A t \in 0..(2 * s - 1) : (b + t) % (2 * s) = t
  BY <1>2, <1>5, ModUnique
<1>8. \A i \in {0, 1}, t \in 0..(s - 1) : (b + i * s + t) % s = t
  <2> TAKE i \in {0, 1}, t \in 0..(s - 1)
  <2>1. b + i * s + t = (2 * j + i) * s + t
    BY <1>2, <1>5
  <2>2. ((2 * j + i) * s + t) % s = t
    BY <1>2, ModUnique
  <2> QED
    BY <2>1, <2>2
<1>9. \A t \in 0..(s - 1) : (b + t) % s = t /\ (b + s + t) % s = t
  <2> TAKE t \in 0..(s - 1)
  <2>1. (b + 0 * s + t) % s = t /\ (b + 1 * s + t) % s = t
    BY <1>8
  <2>2. b + 0 * s + t = b + t /\ b + 1 * s + t = b + s + t
    BY <1>2, <1>6
  <2> QED
    BY <2>1, <2>2
<1>10. b % s = 0 /\ (b + s) % s = 0 /\ b % (2 * s) = 0 /\ (b + s) % (2 * s) = s
  <2>1. b + 0 = b /\ b + s + 0 = b + s /\ 0 \in 0..(s - 1) /\ 0 \in 0..(2 * s - 1) /\ s \in 0..(2 * s - 1)
    BY <1>2, <1>6
  <2> QED
    BY <1>7, <1>9, <2>1
<1>11. CASE e = 0
  <2>1. p = b + r /\ p % s = r /\ p % (2 * s) = r
    <3>1. p = b + r
      BY <1>3, <1>6, <1>11
    <3>2. r \in 0..(2 * s - 1)
      BY <1>2
    <3> QED
      BY <1>3, <1>7, <3>1, <3>2
  <2>2. AlignDown(p, l) = b /\ AlignDown(p, l + 1) = b
    <3>1. AlignDown(p, l) = p - r /\ AlignDown(p, l + 1) = p - r
      BY <1>1, <1>2, <2>1 DEF AlignDown
    <3> QED
      BY <1>2, <1>6, <2>1, <3>1
  <2>3. Neighbor(p, l) = b + s
    BY <1>1, <1>2, <1>10, <2>2 DEF Neighbor
  <2>4. AlignDown(b + s, l) = b + s /\ AlignDown(b + s, l + 1) = b
    BY <1>1, <1>2, <1>6, <1>10 DEF AlignDown
  <2>5. Neighbor(b + s, l) = b
    BY <1>1, <1>2, <1>6, <1>10, <2>4 DEF Neighbor
  <2>6. Span(b, l) = b..(b + s - 1) /\ Span(b + s, l) = (b + s)..(b + s + s - 1)
        /\ Span(b, l + 1) = b..(b + 2 * s - 1)
    BY <1>1, <1>2 DEF Span
  <2>7. p \in Span(b, l) /\ Apart(Span(b, l), Span(b + s, l))
        /\ Span(b, l + 1) = Span(b, l) \cup Span(b + s, l)
    <3>1. p \in Span(b, l)
      BY <1>2, <1>6, <2>1, <2>6
    <3>2. Apart(Span(b, l), Span(b + s, l))
      BY <1>2, <1>6, <2>6 DEF Apart
    <3>3. Span(b, l + 1) = Span(b, l) \cup Span(b + s, l)
      BY <1>2, <1>6, <2>6
    <3> QED
      BY <3>1, <3>2, <3>3
  <2> QED
    BY <1>1, <1>2, <1>6, <1>10, <2>2, <2>3, <2>4, <2>5, <2>7
<1>12. CASE e = 1
  <2>1. p = b + s + r /\ p % s = r /\ p % (2 * s) = s + r
    <3>1. p = b + s + r
      BY <1>3, <1>6, <1>12
    <3>2. s + r \in 0..(2 * s - 1) /\ p = b + (s + r)
      BY <1>2, <1>6, <3>1
    <3> QED
      BY <1>3, <1>7, <3>1, <3>2
  <2>2. AlignDown(p, l) = b + s /\ AlignDown(p, l + 1) = b
    BY <1>1, <1>2, <1>6, <2>1 DEF AlignDown
  <2>3. Neighbor(p, l) = b
    BY <1>1, <1>2, <1>6, <1>10, <2>2 DEF Neighbor
  <2>4. AlignDown(b, l) = b /\ AlignDown(b, l + 1) = b
    BY <1>1, <1>2, <1>6, <1>10 DEF AlignDown
  <2>5. Neighbor(b, l) = b + s
    BY <1>1, <1>2, <1>6, <1>10, <2>4 DEF Neighbor
  <2>6. Span(b, l) = b..(b + s - 1) /\ Span(b + s, l) = (b + s)..(b + s + s - 1)
        /\ Span(b, l + 1) = b..(b + 2 * s - 1)
    BY <1>1, <1>2 DEF Span
  <2>7. p \in Span(b + s, l) /\ Apart(Span(b + s, l), Span(b, l))
        /\ Span(b, l + 1) = Span(b + s, l) \cup Span(b, l)
    <3>1. p \in Span(b + s, l)
      BY <1>2, <1>6, <2>1, <2>6
    <3>2. Apart(Span(b + s, l), Span(b, l))
      BY <1>2, <1>6, <2>6 DEF Apart
    <3>3. Span(b, l + 1) = Span(b + s, l) \cup Span(b, l)
      BY <1>2, <1>6, <2>6
    <3> QED
      BY <3>1, <3>2, <3>3
  <2>8. b + s \in Nat /\ (b + s) % s = 0 /\ b % s = 0 /\ (b + s) % (2 * s) # 0
    BY <1>2, <1>6, <1>10
  <2> QED
    BY <1>1, <1>2, <1>6, <2>2, <2>3, <2>4, <2>5, <2>7, <2>8
<1> QED
  BY <1>4, <1>11, <1>12

(* Of two aligned blocks that meet, the smaller is inside the larger. *)
LEMMA Nested ==
  ASSUME NEW a \in Nat, NEW b \in Nat, NEW l \in Nat, NEW m \in Nat, l <= m,
         a % 2 ^ l = 0, b % 2 ^ m = 0, ~Apart(Span(a, l), Span(b, m))
  PROVE  Span(a, l) \subseteq Span(b, m)
<1>1. PICK s, q : s = 2 ^ l /\ q = 2 ^ (m - l)
  OBVIOUS
<1>2. s \in Nat \ {0} /\ q \in Nat \ {0} /\ 2 ^ m = q * s /\ q * s \in Nat \ {0}
  BY <1>1, PowMultiple
<1>3. PICK i \in Nat : a = i * s
  BY <1>1, <1>2, Multiple
<1>4. PICK j \in Nat : b = j * (q * s)
  <2>1. PICK t : t = q * s
    OBVIOUS
  <2>2. t \in Nat \ {0} /\ b % t = 0
    BY <1>2, <2>1
  <2>3. \E j \in Nat : b = j * t
    BY <2>2, Multiple
  <2> QED
    BY <2>1, <2>3
<1>5. PICK u : u \in a..(a + s - 1) /\ u \in b..(b + q * s - 1)
  BY <1>1, <1>2 DEF Apart, Span
<1>6. b < a + s /\ a < b + q * s
  BY <1>2, <1>5
<1>7. j * q \in Nat /\ b = (j * q) * s /\ b + q * s = (j * q + q) * s /\ a + s = (i + 1) * s
  BY <1>2, <1>3, <1>4
<1>8. j * q <= i
  <2> SUFFICES ASSUME i + 1 <= j * q PROVE FALSE
    BY <1>7
  <2>1. (i + 1) * s <= (j * q) * s
    BY <1>2, <1>7, MulMono
  <2> QED
    BY <1>2, <1>6, <1>7, <2>1
<1>9. i + 1 <= j * q + q
  <2> SUFFICES ASSUME j * q + q <= i PROVE FALSE
    BY <1>2, <1>7
  <2>1. (j * q + q) * s <= i * s
    BY <1>2, <1>7, MulMono
  <2> QED
    BY <1>2, <1>3, <1>6, <1>7, <2>1
<1>10. (j * q) * s <= i * s /\ (i + 1) * s <= (j * q + q) * s
  BY <1>2, <1>7, <1>8, <1>9, MulMono
<1>11. b <= a /\ a + s <= b + q * s
  BY <1>3, <1>7, <1>10
<1> QED
  BY <1>1, <1>2, <1>11 DEF Span

LEMMA AlignedBelow ==
  ASSUME NEW p \in Nat, NEW l \in Nat, NEW m \in Nat, l <= m, p % 2 ^ m = 0
  PROVE  AlignDown(p, l) = p /\ p % 2 ^ l = 0
<1>1. PICK a : a = AlignDown(p, l)
  OBVIOUS
<1>2. a \in Nat /\ a % 2 ^ l = 0 /\ p \in Span(a, l)
  BY <1>1, Buddies
<1>3. 2 ^ l \in Nat \ {0} /\ 2 ^ m \in Nat \ {0}
  BY PowType
<1>4. p \in Span(p, m) /\ a \in Span(a, l)
  BY <1>2, <1>3 DEF Span
<1>5. Span(a, l) \subseteq Span(p, m)
  BY <1>2, <1>4, Nested DEF Apart
<1>6. p <= a /\ a <= p
  BY <1>2, <1>4, <1>5 DEF Span
<1> QED
  BY <1>1, <1>2, <1>6

(* Halving a block: the lower half starts where the block does. *)
LEMMA UpperHalf ==
  ASSUME NEW p \in Nat, NEW l \in Nat, NEW m \in Nat, l < m, p % 2 ^ m = 0
  PROVE  Neighbor(p, l) = p + 2 ^ l
<1>1. l + 1 \in Nat /\ l + 1 <= m /\ l <= m
  OBVIOUS
<1>2. AlignDown(p, l) = p /\ p % 2 ^ (l + 1) = 0
  BY <1>1, AlignedBelow
<1> QED
  BY <1>2, Buddies

(* The buddies met on the way from a level to a higher one *)
Ring(p, level, m) == UNION {Span(Neighbor(p, l), l) : l \in level..(m - 1)}

(* They and the block at which the way starts make up the block at which   *)
(* it ends: what merging puts together and what splitting takes apart.     *)
LEMMA MergeCover ==
  ASSUME NEW p \in Nat, NEW level \in Nat, NEW m \in Nat, level <= m
  PROVE  Span(AlignDown(p, m), m) = Span(AlignDown(p, level), level) \cup Ring(p, level, m)
<1> DEFINE Good(n) == Span(AlignDown(p, n), n) = Span(AlignDown(p, level), level) \cup Ring(p, level, n)
           T == {n \in Nat : level <= n /\ ~Good(n)}
<1> SUFFICES ASSUME T # {} PROVE FALSE
  OBVIOUS
<1>1. PICK n \in T : \A y \in T : n <= y
  BY LeastExists
<1>2. n # level
  <2> SUFFICES ASSUME n = level PROVE FALSE
    OBVIOUS
  <2>1. level..(n - 1) = {}
    OBVIOUS
  <2>2. Ring(p, level, n) = {}
    BY <2>1 DEF Ring
  <2> QED
    BY <1>1, <2>2
<1>3. n - 1 \in Nat /\ level <= n - 1 /\ n = (n - 1) + 1 /\ n - 1 \in level..(n - 1)
      /\ level..(n - 1) = (level..((n - 1) - 1)) \cup {n - 1}
  BY <1>1, <1>2
<1>4. Good(n - 1)
  BY <1>1, <1>3
<1>5. Ring(p, level, n) = Ring(p, level, n - 1) \cup Span(Neighbor(p, n - 1), n - 1)
  BY <1>3 DEF Ring
<1>6. Span(AlignDown(p, (n - 1) + 1), (n - 1) + 1)
        = Span(AlignDown(p, n - 1), n - 1) \cup Span(Neighbor(p, n - 1), n - 1)
  BY <1>3, Buddies
<1>7. Good(n)
  BY <1>3, <1>4, <1>5, <1>6
<1> QED
  BY <1>1, <1>7

LEMMA RingApart ==
  ASSUME NEW p \in Nat, NEW level \in Nat, NEW m \in Nat, level <= m,
         NEW l \in level..(m - 1)
  PROVE  /\ Span(Neighbor(p, l), l) \subseteq Span(AlignDown(p, m), m)
         /\ Apart(Span(Neighbor(p, l), l), Span(AlignDown(p, level), level))
         /\ \A k \in level..(m - 1) :
              k # l => Apart(Span(Neighbor(p, l), l), Span(Neighbor(p, k), k))
<1>1. ASSUME NEW i \in level..(m - 1) PROVE i \in Nat /\ level <= i /\ i \in level..((i + 1) - 1)
  OBVIOUS
<1>2. Span(Neighbor(p, l), l) \subseteq Ring(p, level, m)
  BY DEF Ring
<1>3. ASSUME NEW i \in level..(m - 1)
      PROVE  /\ Span(AlignDown(p, i), i) = Span(AlignDown(p, level), level) \cup Ring(p, level, i)
             /\ Apart(Span(AlignDown(p, i), i), Span(Neighbor(p, i), i))
  BY <1>1, MergeCover, Buddies
<1>4. ASSUME NEW i \in level..(m - 1), NEW k \in level..(m - 1), i < k
      PROVE  Apart(Span(Neighbor(p, i), i), Span(Neighbor(p, k), k))
  <2>1. i \in level..(k - 1)
    BY <1>4
  <2>2. Span(Neighbor(p, i), i) \subseteq Ring(p, level, k)
    BY <2>1 DEF Ring
  <2> QED
    BY <1>3, <2>2 DEF Apart
<1>5. ASSUME NEW k \in level..(m - 1), k # l
      PROVE  Apart(Span(Neighbor(p, l), l), Span(Neighbor(p, k), k))
  <2>1. k < l \/ l < k
    BY <1>5
  <2> QED
    BY <1>4, <2>1 DEF Apart
<1> QED
  BY <1>2, <1>3, <1>5, MergeCover DEF Apart

-----------------------------------------------------------------------------
(* Counting pages *)

LEMMA UnitsPerPageType == UnitsPerPage \in Nat \ {0}
BY PowType, LevelAssumption DEF UnitsPerPage

LEMMA PagesFinite ==
  ASSUME NEW A
  PROVE  IsFiniteSet(PagesIn(A)) /\ Cardinality(PagesIn(A)) \in Nat
<1>1. IsFiniteSet(0..NumUnits)
  BY FS_Interval, LevelAssumption
<1>2. PagesIn(A) \subseteq 0..NumUnits
  BY DEF PagesIn
<1>3. IsFiniteSet(PagesIn(A))
  BY <1>1, <1>2, FS_Subset
<1> QED
  BY <1>3, FS_CardinalityType

LEMMA PagesUnion ==
  ASSUME NEW A, NEW B, Apart(A, B)
  PROVE  Cardinality(PagesIn(A \cup B)) = Cardinality(PagesIn(A)) + Cardinality(PagesIn(B))
<1> DEFINE P == PagesIn(A)
           Q == PagesIn(B)
<1>1. PagesIn(A \cup B) = P \cup Q /\ P \cap Q = {}
  BY DEF PagesIn, Apart
<1>2. IsFiniteSet(P) /\ IsFiniteSet(Q) /\ Cardinality(P) \in Nat /\ Cardinality(Q) \in Nat
  BY PagesFinite
<1> HIDE DEF P, Q
<1>3. Cardinality(P \cup Q) = Cardinality(P) + Cardinality(Q) - Cardinality(P \cap Q)
  BY <1>2, FS_Union
<1>4. Cardinality(P \cap Q) = 0
  BY <1>1, FS_EmptySet
<1>5. Cardinality(P \cup Q) = Cardinality(P) + Cardinality(Q)
  BY <1>2, <1>3, <1>4
<1> QED
  BY <1>1, <1>5 DEF P, Q

LEMMA PagesSubset ==
  ASSUME NEW A, NEW B, A \subseteq B
  PROVE  Cardinality(PagesIn(A)) <= Cardinality(PagesIn(B))
<1>1. PagesIn(A) \subseteq PagesIn(B)
  BY DEF PagesIn
<1> QED
  BY <1>1, PagesFinite, FS_Subset

LEMMA PagesOfInterval ==
  ASSUME NEW i \in Nat, NEW j \in Nat, i <= j, j * UnitsPerPage <= NumUnits
  PROVE  Cardinality(PagesIn((i * UnitsPerPage)..(j * UnitsPerPage - 1))) = j - i
<1>1. PICK s : s = UnitsPerPage
  OBVIOUS
<1>2. s \in Nat \ {0} /\ NumUnits \in Nat /\ j * s <= NumUnits
  BY <1>1, UnitsPerPageType, LevelAssumption
<1>3. ASSUME NEW p \in i..(j - 1) PROVE p \in 0..NumUnits /\ p * s \in (i * s)..(j * s - 1)
  <2>1. i * s <= p * s /\ (p + 1) * s <= j * s /\ p * 1 <= p * s
    BY <1>2, MulMono
  <2>2. (p + 1) * s = p * s + s /\ i * s \in Int /\ j * s \in Int /\ p * s \in Int
    BY <1>2
  <2> QED
    BY <1>2, <2>1, <2>2
<1>4. ASSUME NEW p \in 0..NumUnits, p * s \in (i * s)..(j * s - 1) PROVE p \in i..(j - 1)
  <2>1. p * s \in Int /\ i * s \in Int /\ j * s \in Int /\ (p + 1) * s = p * s + s
    BY <1>2
  <2>2. i <= p
    <3> SUFFICES ASSUME p + 1 <= i PROVE FALSE
      OBVIOUS
    <3>1. (p + 1) * s <= i * s
      BY <1>2, MulMono
    <3> QED
      BY <1>2, <1>4, <2>1, <3>1
  <2>3. p < j
    <3> SUFFICES ASSUME j <= p PROVE FALSE
      OBVIOUS
    <3>1. j * s <= p * s
      BY <1>2, MulMono
    <3> QED
      BY <1>4, <2>1, <3>1
  <2> QED
    BY <2>2, <2>3
<1>5. PagesIn((i * s)..(j * s - 1)) = i..(j - 1)
  <2>1. PagesIn((i * s)..(j * s - 1)) = {p \in 0..NumUnits : p * s \in (i * s)..(j * s - 1)}
    BY <1>1 DEF PagesIn
  <2> QED
    BY <1>3, <1>4, <2>1, Zenon
<1>6. Cardinality(i..(j - 1)) = j - i
  <2>1. Cardinality(i..(j - 1)) = IF i > j - 1 THEN 0 ELSE (j - 1) - i + 1
    BY FS_Interval
  <2> QED
    BY <2>1
<1> QED
  BY <1>1, <1>5, <1>6

LEMMA PagesOfBlock ==
  ASSUME NEW p \in Nat, NEW l \in Nat, l >= PAGE_LEVEL, p % 2 ^ l = 0, p + 2 ^ l <= NumUnits
  PROVE  /\ Cardinality(PagesIn(Span(p, l))) = get_page_count_by_level(l)
         /\ get_page_count_by_level(l) \in Nat \ {0}
<1>1. PICK s, q : s = UnitsPerPage /\ q = 2 ^ (l - PAGE_LEVEL)
  OBVIOUS
<1>2. s \in Nat \ {0} /\ q \in Nat \ {0} /\ 2 ^ l = q * s /\ q * s \in Nat \ {0}
  BY <1>1, PowMultiple, LevelAssumption DEF UnitsPerPage
<1>3. PICK j \in Nat : p = j * (q * s)
  <2>1. PICK t : t = q * s
    OBVIOUS
  <2>2. t \in Nat \ {0} /\ p % t = 0
    BY <1>2, <2>1
  <2>3. \E j \in Nat : p = j * t
    BY <2>2, Multiple
  <2> QED
    BY <2>1, <2>3
<1>4. PICK a, b : a = j * q /\ b = j * q + q
  OBVIOUS
<1>5. a \in Nat /\ b \in Nat /\ a <= b /\ b - a = q /\ p = a * s /\ p + q * s = b * s
  BY <1>2, <1>3, <1>4
<1>6. Span(p, l) = (a * s)..(b * s - 1)
  BY <1>2, <1>5 DEF Span
<1>7. b * s <= NumUnits
  BY <1>2, <1>5
<1>8. Cardinality(PagesIn((a * s)..(b * s - 1))) = b - a
  BY <1>1, <1>5, <1>7, PagesOfInterval
<1> QED
  BY <1>1, <1>2, <1>5, <1>6, <1>8 DEF get_page_count_by_level

-----------------------------------------------------------------------------
(* The levels the code computes *)

LEMMA BestLevel ==
  ASSUME NEW start \in Nat, NEW end \in Nat, start < end, end <= NumUnits,
         start % UnitsPerPage = 0, end % UnitsPerPage = 0
  PROVE  LET level == get_best_level_for_block(start, end)
         IN  /\ level \in Levels /\ level >= PAGE_LEVEL
             /\ start + 2 ^ level <= end /\ start % 2 ^ level = 0
<1> DEFINE Fits(i) == start + 2 ^ i <= end /\ start % 2 ^ i = 0
           T == {i \in Levels : Fits(i)}
<1>1. PICK s : s = UnitsPerPage
  OBVIOUS
<1>2. s \in Nat \ {0}
  BY <1>1, UnitsPerPageType
<1>3. PICK i, j \in Nat : start = i * s /\ end = j * s
  <2>1. PICK i \in Nat : start = i * s
    BY <1>1, <1>2, Multiple
  <2>2. PICK j \in Nat : end = j * s
    BY <1>1, <1>2, Multiple
  <2> QED
    BY <2>1, <2>2
<1>4. i + 1 <= j
  <2> SUFFICES ASSUME j <= i PROVE FALSE
    OBVIOUS
  <2>1. j * s <= i * s
    BY <1>2, MulMono
  <2> QED
    BY <1>3, <2>1
<1>5. (i + 1) * s <= j * s /\ (i + 1) * s = i * s + s
  BY <1>2, <1>4, MulMono
<1>6. start + s <= end
  BY <1>3, <1>5
<1>7. PAGE_LEVEL \in T
  BY <1>1, <1>6, LevelAssumption DEF Levels, UnitsPerPage
<1>8. PICK x \in T : \A y \in T : y <= x
  <2>1. MAX_LEVEL - 1 \in Nat /\ T \subseteq 0..(MAX_LEVEL - 1)
    BY LevelAssumption DEF Levels
  <2> HIDE DEF T
  <2> QED
    BY <1>7, <2>1, GreatestExists
<1>9. x \in Levels /\ Fits(x) /\ \A k \in Levels : k > x => ~Fits(k)
  <2>1. \A k \in Levels : k \in Int
    BY LevelAssumption DEF Levels
  <2> QED
    BY <1>8, <2>1
<1> DEFINE best == get_best_level_for_block(start, end)
<1>10. best \in Levels /\ Fits(best) /\ \A k \in Levels : k > best => ~Fits(k)
  BY <1>9 DEF get_best_level_for_block
<1>11. best >= PAGE_LEVEL
  BY <1>7, <1>10, LevelAssumption DEF Levels
<1> QED
  BY <1>10, <1>11

LEMMA BitLengthExact ==
  ASSUME NEW x \in Nat, NEW k \in Nat, x < 2 ^ k, k <= MAX_LEVEL + MIN_ORDER
  PROVE  BitLength(x) \in 0..k
<1> DEFINE T == {n \in Nat : x < 2 ^ n}
           Is(n) == x < 2 ^ n /\ (n = 0 \/ x >= 2 ^ (n - 1))
           b == BitLength(x)
<1>1. PICK n \in T : \A y \in T : n <= y
  BY LeastExists
<1>2. n <= k
  BY <1>1
<1>3. n = 0 \/ x >= 2 ^ (n - 1)
  <2> SUFFICES ASSUME n # 0 PROVE x >= 2 ^ (n - 1)
    OBVIOUS
  <2>1. n - 1 \in Nat /\ n - 1 \notin T
    BY <1>1
  <2>2. 2 ^ (n - 1) \in Nat
    BY <2>1, PowType
  <2> QED
    BY <2>1, <2>2
<1>4. n \in 0..(MAX_LEVEL + MIN_ORDER) /\ Is(n)
  BY <1>1, <1>2, <1>3, LevelAssumption
<1>5. b \in 0..(MAX_LEVEL + MIN_ORDER) /\ Is(b)
  BY <1>4 DEF BitLength
<1>6. b <= k
  <2> SUFFICES ASSUME k <= b - 1 PROVE FALSE
    BY <1>5
  <2>1. b - 1 \in Nat /\ b # 0
    BY <1>5
  <2>2. 2 ^ k <= 2 ^ (b - 1) /\ 2 ^ k \in Nat /\ 2 ^ (b - 1) \in Nat
    BY <2>1, PowMultiple, PowType
  <2> QED
    BY <1>5, <2>1, <2>2
<1> QED
  BY <1>5, <1>6

LEMMA LevelOfSize ==
  ASSUME NEW size \in Nat
  PROVE  /\ get_level_by_size(size) >= 0 => get_level_by_size(size) \in Levels
         /\ get_page_level_by_size(size) >= 0 =>
              get_page_level_by_size(size) \in Levels /\ get_page_level_by_size(size) >= PAGE_LEVEL
<1>1. PICK k : k = MAX_LEVEL - 1 + MIN_ORDER
  OBVIOUS
<1>2. k \in Nat /\ k <= MAX_LEVEL + MIN_ORDER /\ k - MIN_ORDER = MAX_LEVEL - 1 /\ MIN_ORDER <= k
  BY <1>1, LevelAssumption
<1>3. 2 ^ MIN_ORDER \in Nat \ {0} /\ 2 ^ k \in Nat \ {0} /\ 2 ^ MIN_ORDER <= 2 ^ k
  BY <1>2, PowMultiple, PowType, LevelAssumption
<1>4. ASSUME get_level_by_size(size) >= 0 PROVE get_level_by_size(size) \in Levels
  <2> DEFINE x == Max2(size, 2 ^ MIN_ORDER) - 1
  <2>1. size <= 2 ^ k
    BY <1>1, <1>3, <1>4 DEF get_level_by_size
  <2>2. x \in Nat /\ x < 2 ^ k
    BY <1>3, <2>1 DEF Max2
  <2>3. get_level_by_size(size) = BitLength(x) - MIN_ORDER
    BY <1>1, <1>3, <2>1 DEF get_level_by_size
  <2> HIDE DEF x
  <2>4. BitLength(x) \in 0..k
    BY <1>2, <2>2, BitLengthExact
  <2> QED
    BY <1>2, <1>4, <2>3, <2>4, LevelAssumption DEF Levels
<1>5. ASSUME get_page_level_by_size(size) >= 0
      PROVE  get_page_level_by_size(size) \in Levels /\ get_page_level_by_size(size) >= PAGE_LEVEL
  <2>1. PICK level : level = get_level_by_size(size)
    OBVIOUS
  <2>2. get_page_level_by_size(size) = level /\ ~(level < PAGE_LEVEL)
    BY <1>5, <2>1 DEF get_page_level_by_size
  <2>3. level \in Levels
    BY <1>4, <1>5, <2>1, <2>2
  <2> QED
    BY <2>2, <2>3, LevelAssumption DEF Levels
<1> QED
  BY <1>4, <1>5

LEMMA MergedLevelExact ==
  ASSUME NEW ptr, NEW level \in Levels
  PROVE  LET m == MergedLevel(ptr, level)
         IN  /\ m \in level..(MAX_LEVEL - 1)
             /\ \A l \in level..(m - 1) : Mergeable(ptr, l)
             /\ m = MAX_LEVEL - 1 \/ ~Mergeable(ptr, m)
<1> DEFINE Stop(n) == n = MAX_LEVEL - 1 \/ ~Mergeable(ptr, n)
           T == {n \in level..(MAX_LEVEL - 1) : Stop(n)}
<1>1. level \in Nat /\ MAX_LEVEL - 1 \in level..(MAX_LEVEL - 1) /\ MAX_LEVEL \in Nat
  BY LevelAssumption DEF Levels
<1>2. T \subseteq Nat /\ T # {}
  <2>1. \A n \in level..(MAX_LEVEL - 1) : n \in Nat
    BY <1>1
  <2>2. MAX_LEVEL - 1 \in T
    BY <1>1
  <2> QED
    BY <2>1, <2>2
<1>3. PICK n \in T : \A y \in T : n <= y
  <2> HIDE DEF T
  <2> QED
    BY <1>2, LeastExists
<1>4. \A l \in level..(n - 1) : Mergeable(ptr, l)
  <2> SUFFICES ASSUME NEW l \in level..(n - 1) PROVE Mergeable(ptr, l)
    OBVIOUS
  <2>1. l \in level..(MAX_LEVEL - 1) /\ ~(n <= l)
    BY <1>1, <1>3
  <2>2. l \notin T
    BY <1>3, <2>1
  <2> QED
    BY <2>1, <2>2
<1>5. n \in level..(MAX_LEVEL - 1) /\ (\A l \in level..(n - 1) : Mergeable(ptr, l))
      /\ (n = MAX_LEVEL - 1 \/ ~Mergeable(ptr, n))
  BY <1>3, <1>4
<1> QED
  BY <1>5, Zenon DEF MergedLevel

LEMMA ClosestLevel ==
  ASSUME NEW level \in Levels, NonEmptyFrom(level) # {}
  PROVE  LET at == CHOOSE l \in NonEmptyFrom(level) : \A m \in NonEmptyFrom(level) : l <= m
         IN  at \in Levels /\ level <= at /\ freelist[at] # <<>>
<1> DEFINE found == NonEmptyFrom(level)
<1>1. found \subseteq Nat /\ found # {}
  BY LevelAssumption DEF NonEmptyFrom, Levels
<1>2. PICK x \in found : \A y \in found : x <= y
  <2> HIDE DEF found
  <2> QED
    BY <1>1, LeastExists
<1>3. PICK at : at = CHOOSE l \in found : \A m \in found : l <= m
  OBVIOUS
<1>4. at \in found
  BY <1>2, <1>3
<1>5. at \in level..(MAX_LEVEL - 1) /\ freelist[at] # <<>>
  BY <1>4 DEF NonEmptyFrom
<1>6. at \in Levels /\ level <= at
  BY <1>5, LevelAssumption DEF Levels
<1> QED
  BY <1>3, <1>5, <1>6

-----------------------------------------------------------------------------
(* Free blocks, and merging one more into them *)

LEMMA FreeIn ==
  ASSUME NEW fl \in [Levels -> Seq(Units)]
  PROVE  /\ \A p, l : <<p, l>> \in Free(fl) <=> l \in Levels /\ p \in Range(fl[l])
         /\ \A b \in Free(fl) : b \in Units \X Levels /\ b = <<b[1], b[2]>>
<1>1. \A l \in Levels : Range(fl[l]) \subseteq Units
  <2> SUFFICES ASSUME NEW l \in Levels PROVE Range(fl[l]) \subseteq Units
    OBVIOUS
  <2>1. fl[l] \in Seq(Units)
    OBVIOUS
  <2> QED
    BY <2>1 DEF Range
<1>2. \A p, l : <<p, l>> \in Free(fl) <=> l \in Levels /\ p \in Range(fl[l])
  BY DEF Free
<1>3. \A b \in Free(fl) : \E p, l : b = <<p, l>> /\ l \in Levels /\ p \in Range(fl[l])
  BY DEF Free
<1>4. ASSUME NEW b \in Free(fl) PROVE b \in Units \X Levels /\ b = <<b[1], b[2]>>
  BY <1>1, <1>3
<1> QED
  BY <1>2, <1>4

LEMMA BlockFacts ==
  ASSUME NEW b \in Blocks
  PROVE  /\ b = <<b[1], b[2]>> /\ b[1] \in Nat /\ b[1] \in Units /\ b[2] \in Nat /\ b[2] \in Levels
         /\ b[1] % 2 ^ b[2] = 0 /\ 2 ^ b[2] \in Nat \ {0} /\ b[1] + 2 ^ b[2] <= NumUnits
         /\ b[1] \in Span(b[1], b[2]) /\ Span(b[1], b[2]) \subseteq Units
<1>1. b = <<b[1], b[2]>> /\ b[1] \in Units /\ b[2] \in Levels /\ b[1] % 2 ^ b[2] = 0
      /\ b[1] + 2 ^ b[2] <= NumUnits
  BY DEF Blocks
<1>2. b[1] \in Nat /\ b[2] \in Nat
  BY <1>1, LevelAssumption DEF Units, Levels
<1>3. 2 ^ b[2] \in Nat \ {0}
  BY <1>2, PowType
<1>4. b[1] \in Span(b[1], b[2]) /\ Span(b[1], b[2]) \subseteq Units
  BY <1>1, <1>2, <1>3, LevelAssumption DEF Span, Units
<1> QED
  BY <1>1, <1>2, <1>3, <1>4

(* The test of the merge loop, on a header and a bit that may be stale,    *)
(* finds exactly the free buddy of the same level.                         *)
LEMMA MergeableExact ==
  ASSUME NEW T, BuddyOK(freelist, hdr, freeBit, T), NEW ptr, NEW level, <<ptr, level>> \in T,
         NEW l \in Levels, level <= l
  PROVE  Mergeable(ptr, l) <=> <<Neighbor(ptr, l), l>> \in Free(freelist)
<1>1. PICK n, me : n = Neighbor(ptr, l) /\ me = <<ptr, level>>
  OBVIOUS
<1>2. me \in Blocks /\ me[1] = ptr /\ me[2] = level
  BY <1>1 DEF BuddyOK
<1>3. ptr \in Nat /\ level \in Nat /\ level \in Levels /\ ptr % 2 ^ level = 0 /\ ptr \in Span(ptr, level)
  BY <1>2, BlockFacts
<1>4. l \in Nat /\ MAX_LEVEL \in Nat
  BY LevelAssumption DEF Levels
<1>5. n \in Nat /\ n % 2 ^ l = 0 /\ Apart(Span(AlignDown(ptr, l), l), Span(n, l))
      /\ ptr \in Span(AlignDown(ptr, l), l) /\ AlignDown(n, l + 1) = AlignDown(ptr, l + 1)
      /\ Span(AlignDown(ptr, l + 1), l + 1) = Span(AlignDown(ptr, l), l) \cup Span(n, l)
      /\ AlignDown(ptr, l + 1) \in Nat /\ AlignDown(ptr, l + 1) % 2 ^ (l + 1) = 0
  <2>1. l + 1 \in Nat
    BY <1>4
  <2> QED
    BY <1>1, <1>3, <1>4, <2>1, Buddies
<1>6. n \in Span(n, l)
  <2>1. 2 ^ l \in Nat \ {0}
    BY <1>4, PowType
  <2> QED
    BY <1>5, <2>1 DEF Span
<1>7. ASSUME <<n, l>> \in Free(freelist) PROVE Mergeable(ptr, l)
  <2>1. PICK b : b = <<n, l>>
    OBVIOUS
  <2>2. b \in Free(freelist) /\ b \in Blocks /\ b[1] = n /\ b[2] = l
    BY <1>7, <2>1 DEF BuddyOK
  <2>3. n \in Units
    BY <2>2, BlockFacts
  <2>4. hdr[n] = l /\ freeBit[n]
    BY <2>2 DEF BuddyOK
  <2>5. LevelAt(n) = l
    BY <1>4, <2>4 DEF LevelAt, Zero
  <2> QED
    BY <1>1, <2>3, <2>4, <2>5 DEF Mergeable
<1>8. ASSUME Mergeable(ptr, l) PROVE <<n, l>> \in Free(freelist)
  <2>1. n \in Units /\ freeBit[n] /\ LevelAt(n) = l
    BY <1>1, <1>8 DEF Mergeable
  <2>2. PICK b \in Free(freelist) \cup T : n \in Span(b[1], b[2])
    BY <2>1 DEF BuddyOK, Area
  <2>3. b \in Blocks
    BY DEF BuddyOK
  <2>4. b = <<b[1], b[2]>> /\ b[1] \in Nat /\ b[2] \in Nat /\ b[1] % 2 ^ b[2] = 0
        /\ 2 ^ b[2] \in Nat \ {0} /\ b[1] \in Span(b[1], b[2])
    BY <2>3, BlockFacts
  <2>5. b # me
    <3> SUFFICES ASSUME b = me PROVE FALSE
      OBVIOUS
    <3>1. n \in Span(ptr, level)
      BY <1>2, <2>2
    <3>2. AlignDown(ptr, l) \in Nat /\ AlignDown(ptr, l) % 2 ^ l = 0
      BY <1>3, <1>4, Buddies
    <3>3. ~Apart(Span(ptr, level), Span(AlignDown(ptr, l), l))
      BY <1>3, <1>5 DEF Apart
    <3>4. Span(ptr, level) \subseteq Span(AlignDown(ptr, l), l)
      BY <1>3, <1>4, <3>2, <3>3, Nested
    <3> QED
      BY <1>5, <1>6, <3>1, <3>4 DEF Apart
  <2>6. Apart(Span(b[1], b[2]), Span(ptr, level))
    BY <1>1, <1>2, <2>5 DEF BuddyOK
  <2>7. b[2] <= l
    <3> SUFFICES ASSUME l + 1 <= b[2] PROVE FALSE
      BY <1>4, <2>4
    <3>1. n \in Span(AlignDown(ptr, l + 1), l + 1) /\ ptr \in Span(AlignDown(ptr, l + 1), l + 1)
      BY <1>5, <1>6
    <3>2. ~Apart(Span(AlignDown(ptr, l + 1), l + 1), Span(b[1], b[2]))
      BY <2>2, <3>1 DEF Apart
    <3>3. l + 1 \in Nat
      BY <1>4
    <3>4. Span(AlignDown(ptr, l + 1), l + 1) \subseteq Span(b[1], b[2])
      BY <1>5, <2>4, <3>2, <3>3, Nested
    <3> QED
      BY <1>3, <2>6, <3>1, <3>4 DEF Apart
  <2>8. b[1] = n
    <3>1. ~Apart(Span(b[1], b[2]), Span(n, l))
      BY <1>6, <2>2 DEF Apart
    <3>2. Span(b[1], b[2]) \subseteq Span(n, l)
      BY <1>4, <1>5, <2>4, <2>7, <3>1, Nested
    <3>3. n <= b[1] /\ b[1] <= n
      BY <1>4, <1>5, <2>2, <2>4, <3>2 DEF Span
    <3> QED
      BY <1>5, <2>4, <3>3
  <2>9. b \in Free(freelist)
    BY <2>1, <2>8 DEF BuddyOK
  <2>10. hdr[n] = b[2]
    BY <2>8, <2>9 DEF BuddyOK
  <2>11. b[2] = l
    BY <2>1, <2>4, <2>10 DEF LevelAt, Zero
  <2> QED
    BY <2>4, <2>8, <2>9, <2>11
<1> QED
  BY <1>1, <1>7, <1>8

(* The neighbours the loop of phys_free_internal merges, and the result *)
MergedBlocks(ptr, level) ==
  {<<Neighbor(ptr, l), l>> : l \in level..(MergedLevel(ptr, level) - 1)}
MergedInto(ptr, level) ==
  <<AlignDown(ptr, MergedLevel(ptr, level)), MergedLevel(ptr, level)>>

LEMMA MergeShape ==
  ASSUME NEW T, BuddyOK(freelist, hdr, freeBit, T), NEW ptr, NEW level, <<ptr, level>> \in T
  PROVE  LET m == MergedLevel(ptr, level)
             M == MergedBlocks(ptr, level)
             N == MergedInto(ptr, level)
         IN  /\ ptr \in Nat /\ level \in Levels /\ m \in Levels /\ level <= m
             /\ M \subseteq Free(freelist) /\ N \in Blocks
             /\ Area(M) = Ring(ptr, level, m)
             /\ Span(N[1], N[2]) = Span(ptr, level) \cup Area(M)
             /\ \A b \in (Free(freelist) \cup T) \ (M \cup {<<ptr, level>>}) :
                  Apart(Span(b[1], b[2]), Span(N[1], N[2]))
             /\ N \notin (Free(freelist) \cup T) \ (M \cup {<<ptr, level>>})
             /\ m < MAX_LEVEL - 1 => <<Neighbor(N[1], m), m>> \notin Free(freelist)
<1>1. PICK m, M, N, me : /\ m = MergedLevel(ptr, level) /\ M = MergedBlocks(ptr, level)
                         /\ N = MergedInto(ptr, level) /\ me = <<ptr, level>>
  OBVIOUS
<1>2. me \in Blocks /\ me[1] = ptr /\ me[2] = level
  BY <1>1 DEF BuddyOK
<1>3. /\ ptr \in Nat /\ level \in Nat /\ level \in Levels /\ ptr % 2 ^ level = 0
      /\ Span(ptr, level) \subseteq Units
  BY <1>2, BlockFacts
<1>4. /\ m \in level..(MAX_LEVEL - 1) /\ (\A l \in level..(m - 1) : Mergeable(ptr, l))
      /\ (m = MAX_LEVEL - 1 \/ ~Mergeable(ptr, m))
  BY <1>1, <1>3, MergedLevelExact
<1>5. /\ m \in Levels /\ m \in Nat /\ level <= m /\ MAX_LEVEL \in Nat
      /\ \A l \in level..(m - 1) : l \in Levels /\ level <= l /\ l \in Nat /\ l <= m
  BY <1>3, <1>4, LevelAssumption DEF Levels
<1>6. M = {<<Neighbor(ptr, l), l>> : l \in level..(m - 1)} /\ N = <<AlignDown(ptr, m), m>>
  BY <1>1 DEF MergedBlocks, MergedInto
<1>7. M \subseteq Free(freelist)
  <2> SUFFICES ASSUME NEW l \in level..(m - 1) PROVE <<Neighbor(ptr, l), l>> \in Free(freelist)
    BY <1>6
  <2> QED
    BY <1>4, <1>5, MergeableExact
<1>8. Area(M) = Ring(ptr, level, m)
  <2>1. \A b \in M : \E l \in level..(m - 1) : b[1] = Neighbor(ptr, l) /\ b[2] = l
    BY <1>6
  <2>2. \A l \in level..(m - 1) : \E b \in M : b[1] = Neighbor(ptr, l) /\ b[2] = l
    <3> TAKE l \in level..(m - 1)
    <3>1. PICK b : b = <<Neighbor(ptr, l), l>>
      OBVIOUS
    <3> QED
      BY <1>6, <3>1
  <2> QED
    BY <2>1, <2>2 DEF Area, Ring
<1>9. N[1] = AlignDown(ptr, m) /\ N[2] = m
  BY <1>6
<1>10. Span(N[1], N[2]) = Span(ptr, level) \cup Area(M)
  <2>1. AlignDown(ptr, level) = ptr
    BY <1>3, AlignedBelow
  <2> QED
    BY <1>3, <1>5, <1>8, <1>9, <2>1, MergeCover
<1>11. Span(N[1], N[2]) \subseteq Units
  <2>1. \A b \in M : Span(b[1], b[2]) \subseteq Units
    BY <1>7, BlockFacts DEF BuddyOK
  <2>2. Area(M) \subseteq Units
    BY <2>1 DEF Area
  <2> QED
    BY <1>3, <1>10, <2>2
<1>12. N[1] \in Nat /\ N[1] % 2 ^ m = 0 /\ 2 ^ m \in Nat \ {0}
  <2>1. AlignDown(ptr, m) \in Nat /\ AlignDown(ptr, m) % 2 ^ m = 0
    BY <1>3, <1>5, Buddies
  <2>2. 2 ^ m \in Nat \ {0}
    BY <1>5, PowType
  <2> QED
    BY <1>9, <2>1, <2>2
<1>13. N[1] \in Span(N[1], N[2])
  BY <1>9, <1>12 DEF Span
<1>14. N \in Blocks
  <2>1. N[1] + 2 ^ m - 1 \in Span(N[1], N[2])
    BY <1>9, <1>12 DEF Span
  <2>2. N[1] \in Units /\ N[1] + 2 ^ m <= NumUnits
    BY <1>11, <1>12, <1>13, <2>1, LevelAssumption DEF Units
  <2>3. N \in Units \X Levels
    BY <1>5, <1>6, <1>9, <2>2
  <2> QED
    BY <1>9, <1>12, <2>2, <2>3 DEF Blocks
<1>15. ASSUME NEW b \in (Free(freelist) \cup T) \ (M \cup {me})
       PROVE  Apart(Span(b[1], b[2]), Span(N[1], N[2]))
  <2>1. Apart(Span(b[1], b[2]), Span(ptr, level))
    BY <1>1, <1>2 DEF BuddyOK
  <2>2. \A a \in M : Apart(Span(b[1], b[2]), Span(a[1], a[2]))
    BY <1>7 DEF BuddyOK
  <2> QED
    BY <1>10, <2>1, <2>2 DEF Apart, Area
<1>16. N \notin (Free(freelist) \cup T) \ (M \cup {me})
  BY <1>13, <1>15 DEF Apart
<1>17. ASSUME m < MAX_LEVEL - 1 PROVE <<Neighbor(N[1], m), m>> \notin Free(freelist)
  <2>1. ~Mergeable(ptr, m)
    BY <1>4, <1>5, <1>17
  <2>2. <<Neighbor(ptr, m), m>> \notin Free(freelist)
    BY <1>5, <2>1, MergeableExact
  <2>3. AlignDown(N[1], m) = N[1]
    BY <1>5, <1>12, AlignedBelow
  <2>4. Neighbor(N[1], m) = Neighbor(ptr, m)
    BY <1>9, <2>3 DEF Neighbor
  <2> QED
    BY <2>2, <2>4
<1> QED
  BY <1>1, <1>3, <1>5, <1>7, <1>8, <1>10, <1>14, <1>15, <1>16, <1>17

(* What the freelists hold after the merge *)
LEMMA MergeLists ==
  ASSUME NEW T, BuddyOK(freelist, hdr, freeBit, T), NEW ptr, NEW level, <<ptr, level>> \in T,
         NEW check, MergeIn(ptr, level, check)
  PROVE  /\ freelist' \in [Levels -> Seq(Units)] /\ \A l \in Levels : NoDuplicates(freelist'[l])
         /\ Free(freelist') = (Free(freelist) \ MergedBlocks(ptr, level)) \cup {MergedInto(ptr, level)}
<1>1. PICK m, M, N, head : /\ m = MergedLevel(ptr, level) /\ M = MergedBlocks(ptr, level)
                           /\ N = MergedInto(ptr, level) /\ head = AlignDown(ptr, m)
  OBVIOUS
<1>2. /\ ptr \in Nat /\ level \in Levels /\ m \in Levels /\ level <= m
      /\ M \subseteq Free(freelist) /\ N \in Blocks
      /\ N \notin (Free(freelist) \cup T) \ (M \cup {<<ptr, level>>})
  BY <1>1, MergeShape
<1>3. M = {<<Neighbor(ptr, l), l>> : l \in level..(m - 1)} /\ N = <<head, m>>
  BY <1>1 DEF MergedBlocks, MergedInto
<1>4. freelist \in [Levels -> Seq(Units)] /\ \A l \in Levels : NoDuplicates(freelist[l])
  BY DEF BuddyOK
<1>5. head \in Units
  BY <1>2, <1>3, BlockFacts
<1>6. freelist' = [l \in Levels |->
           IF l = m THEN <<head>> \o freelist[l]
           ELSE IF l \in level..(m - 1) THEN RemoveFirst(freelist[l], Neighbor(ptr, l))
           ELSE freelist[l]]
  BY <1>1 DEF MergeIn
<1>7. m \notin level..(m - 1)
  BY <1>2, LevelAssumption DEF Levels
<1>8. N \notin Free(freelist)
  <2>1. N \notin M
    BY <1>3, <1>7
  <2>2. <<ptr, level>> \notin Free(freelist)
    BY DEF BuddyOK, Apart
  <2> QED
    BY <1>2, <2>1, <2>2
<1>9. head \notin Range(freelist[m])
  BY <1>2, <1>3, <1>4, <1>8, FreeIn
<1>10. ASSUME NEW l \in Levels
       PROVE  /\ freelist'[l] \in Seq(Units) /\ NoDuplicates(freelist'[l])
              /\ Range(freelist'[l]) =
                   IF l = m THEN Range(freelist[l]) \cup {head}
                   ELSE IF l \in level..(m - 1) THEN Range(freelist[l]) \ {Neighbor(ptr, l)}
                   ELSE Range(freelist[l])
  <2>1. freelist[l] \in Seq(Units) /\ NoDuplicates(freelist[l])
    BY <1>4
  <2>2. CASE l = m
    <3>1. freelist'[l] = <<head>> \o freelist[l]
      BY <1>6, <2>2
    <3> QED
      BY <1>5, <1>9, <2>1, <2>2, <3>1, PutFront
  <2>3. CASE l # m /\ l \in level..(m - 1)
    <3>1. freelist'[l] = RemoveFirst(freelist[l], Neighbor(ptr, l))
      BY <1>6, <2>3
    <3> QED
      BY <2>1, <2>3, <3>1, Unlink
  <2>4. CASE l # m /\ l \notin level..(m - 1)
    <3>1. freelist'[l] = freelist[l]
      BY <1>6, <2>4
    <3> QED
      BY <2>1, <2>4, <3>1
  <2> QED
    BY <2>2, <2>3, <2>4
<1>11. freelist' \in [Levels -> Seq(Units)]
  <2>1. DOMAIN freelist' = Levels /\ freelist' = [l \in Levels |-> freelist'[l]]
    BY <1>6
  <2> QED
    BY <1>10, <2>1
<1>12. ASSUME NEW p, NEW l
       PROVE  <<p, l>> \in Free(freelist') <=> <<p, l>> \in (Free(freelist) \ M) \cup {N}
  <2>1. <<p, l>> \in Free(freelist') <=> l \in Levels /\ p \in Range(freelist'[l])
    BY <1>11, FreeIn
  <2>2. <<p, l>> \in Free(freelist) <=> l \in Levels /\ p \in Range(freelist[l])
    BY <1>4, FreeIn
  <2>3. <<p, l>> \in M <=> l \in level..(m - 1) /\ p = Neighbor(ptr, l)
    BY <1>3
  <2>4. <<p, l>> = N <=> l = m /\ p = head
    BY <1>3
  <2>5. CASE l \notin Levels
    <3>1. <<p, l>> \notin Free(freelist') /\ <<p, l>> \notin Free(freelist) /\ <<p, l>> # N
      BY <1>2, <2>1, <2>2, <2>4, <2>5
    <3> QED
      BY <3>1
  <2>6. CASE l \in Levels /\ l = m
    <3>1. p \in Range(freelist'[l]) <=> p \in Range(freelist[l]) \/ p = head
      BY <1>10, <2>6
    <3>2. <<p, l>> \notin M
      BY <1>7, <2>3, <2>6
    <3> QED
      BY <2>1, <2>2, <2>4, <2>6, <3>1, <3>2
  <2>7. CASE l \in Levels /\ l # m
    <3>1. p \in Range(freelist'[l]) <=>
            p \in Range(freelist[l]) /\ ~(l \in level..(m - 1) /\ p = Neighbor(ptr, l))
      BY <1>10, <2>7
    <3> QED
      BY <2>1, <2>2, <2>3, <2>4, <2>7, <3>1
  <2> QED
    BY <2>5, <2>6, <2>7
<1>13. Free(freelist') = (Free(freelist) \ M) \cup {N}
  <2>1. \A b \in Free(freelist') : b = <<b[1], b[2]>>
    BY <1>11, FreeIn
  <2>2. \A b \in Free(freelist) : b = <<b[1], b[2]>>
    BY <1>4, FreeIn
  <2>3. \A b \in Free(freelist') : b \in (Free(freelist) \ M) \cup {N}
    BY <1>12, <2>1
  <2>4. \A b \in (Free(freelist) \ M) \cup {N} : b \in Free(freelist')
    BY <1>3, <1>12, <2>2
  <2> QED
    BY <2>3, <2>4
<1> QED
  BY <1>1, <1>10, <1>11, <1>13

(* phys_free_internal: the block `taken` becomes free, its memory and that *)
(* of the neighbours it merges with becomes one block, all else is as it   *)
(* was.                                                                    *)
MergeReady(T, ptr, level) ==
  /\ BuddyOK(freelist, hdr, freeBit, T) /\ <<ptr, level>> \in T
  /\ \A u \in Span(ptr, level) : hdr[u] = Zero
Merged(T, ptr, level) ==
  LET N == MergedInto(ptr, level)
  IN  /\ BuddyOK(freelist', hdr', freeBit', T \ {<<ptr, level>>})
      /\ Area(Free(freelist') \cup (T \ {<<ptr, level>>})) = Area(Free(freelist) \cup T)
      /\ \A u \in Units \ Span(N[1], N[2]) : hdr'[u] = hdr[u]

LEMMA MergeStep ==
  ASSUME NEW T, NEW ptr, NEW level, NEW check \in BOOLEAN,
         MergeReady(T, ptr, level), MergeIn(ptr, level, check)
  PROVE  Merged(T, ptr, level)
<1> SUFFICES ASSUME BuddyOK(freelist, hdr, freeBit, T), <<ptr, level>> \in T,
                    \A u \in Span(ptr, level) : hdr[u] = Zero
             PROVE  LET N == MergedInto(ptr, level)
                    IN  /\ BuddyOK(freelist', hdr', freeBit', T \ {<<ptr, level>>})
                        /\ Area(Free(freelist') \cup (T \ {<<ptr, level>>}))
                             = Area(Free(freelist) \cup T)
                        /\ \A u \in Units \ Span(N[1], N[2]) : hdr'[u] = hdr[u]
  BY DEF MergeReady, Merged
<1>1. PICK m, M, N, me : /\ m = MergedLevel(ptr, level) /\ M = MergedBlocks(ptr, level)
                         /\ N = MergedInto(ptr, level) /\ me = <<ptr, level>>
  OBVIOUS
<1>2. PICK F, F2, T2 : F = Free(freelist) /\ F2 = Free(freelist') /\ T2 = T \ {me}
  OBVIOUS
<1>3. /\ ptr \in Nat /\ level \in Levels /\ m \in Levels /\ level <= m
      /\ M \subseteq F /\ N \in Blocks
      /\ Span(N[1], N[2]) = Span(ptr, level) \cup Area(M)
      /\ \A b \in (F \cup T) \ (M \cup {me}) : Apart(Span(b[1], b[2]), Span(N[1], N[2]))
      /\ N \notin (F \cup T) \ (M \cup {me})
      /\ m < MAX_LEVEL - 1 => <<Neighbor(N[1], m), m>> \notin F
  BY <1>1, <1>2, MergeShape
<1>4. /\ freelist' \in [Levels -> Seq(Units)] /\ \A l \in Levels : NoDuplicates(freelist'[l])
      /\ F2 = (F \ M) \cup {N}
  BY <1>1, <1>2, MergeLists
<1>5. /\ hdr \in [Units -> Levels \cup {Zero, Data}] /\ freeBit \in [Units -> BOOLEAN]
      /\ F \cup T \subseteq Blocks /\ Apart(F, T)
      /\ \A a, b \in F \cup T : a # b => Apart(Span(a[1], a[2]), Span(b[1], b[2]))
      /\ \A b \in F : /\ hdr[b[1]] = b[2] /\ freeBit[b[1]]
                      /\ \A u \in Span(b[1], b[2]) : u # b[1] => hdr[u] = Zero
                      /\ b[2] < MAX_LEVEL - 1 => <<Neighbor(b[1], b[2]), b[2]>> \notin F
      /\ \A b \in T : ~freeBit[b[1]]
      /\ \A u \in Units : freeBit[u] => u \in Area(F \cup T)
  BY <1>2 DEF BuddyOK
<1>6. me \in T /\ me \notin F /\ M \cap T = {} /\ F2 \cup T2 = ((F \cup T) \ (M \cup {me})) \cup {N}
  <2>1. me \in T
    BY <1>1
  <2>2. F \cap T = {} /\ M \subseteq F
    BY <1>3, <1>5 DEF Apart
  <2>3. me \notin F /\ M \cap T = {}
    BY <2>1, <2>2
  <2>4. F2 = (F \ M) \cup {N} /\ T2 = T \ {me}
    BY <1>2, <1>4
  <2> QED
    BY <2>1, <2>3, <2>4
<1>7. /\ N = <<N[1], N[2]>> /\ N[2] = m /\ N[1] = AlignDown(ptr, m) /\ N[1] \in Nat /\ N[1] \in Units
      /\ N[1] \in Span(N[1], N[2]) /\ Span(N[1], N[2]) \subseteq Units /\ m \in Nat /\ N[1] % 2 ^ m = 0
  BY <1>1, <1>3, BlockFacts DEF MergedInto
<1>8. ptr \in Span(N[1], N[2]) /\ ptr \in Units
  <2>1. me \in Blocks /\ me[1] = ptr /\ me[2] = level
    BY <1>1, <1>5
  <2> QED
    BY <1>3, <2>1, BlockFacts
<1>9. M = {<<Neighbor(ptr, l), l>> : l \in level..(m - 1)}
  BY <1>1 DEF MergedBlocks
<1>10. \A u : u \in {Neighbor(ptr, l) : l \in level..(m - 1)} <=> \E a \in M : u = a[1]
  <2> TAKE u
  <2>1. ASSUME NEW a \in M, u = a[1] PROVE u \in {Neighbor(ptr, l) : l \in level..(m - 1)}
    BY <1>9, <2>1
  <2>2. ASSUME NEW l \in level..(m - 1), u = Neighbor(ptr, l) PROVE \E a \in M : u = a[1]
    <3>1. PICK a : a = <<Neighbor(ptr, l), l>>
      OBVIOUS
    <3> QED
      BY <1>9, <2>2, <3>1
  <2> QED
    BY <2>1, <2>2
<1>11. hdr' = [u \in Units |->
           IF u = N[1] THEN m ELSE IF \E a \in M : u = a[1] THEN Zero ELSE hdr[u]]
  BY <1>1, <1>7, <1>10 DEF MergeIn
<1>12. freeBit' = [u \in Units |-> u = N[1] \/ (check /\ u = ptr) \/ freeBit[u]]
  BY <1>1, <1>7 DEF MergeIn
<1>13. \A a \in M : a[1] \in Span(N[1], N[2]) /\ Span(a[1], a[2]) \subseteq Span(N[1], N[2])
  <2> TAKE a \in M
  <2>1. a[1] \in Span(a[1], a[2])
    BY <1>3, <1>5, BlockFacts
  <2> QED
    BY <1>3, <2>1 DEF Area
<1>14. \A u \in Units \ Span(N[1], N[2]) : hdr'[u] = hdr[u] /\ (freeBit'[u] <=> freeBit[u])
  BY <1>7, <1>8, <1>11, <1>12, <1>13
<1>15. hdr' \in [Units -> Levels \cup {Zero, Data}] /\ freeBit' \in [Units -> BOOLEAN]
  BY <1>3, <1>5, <1>11, <1>12
<1>16. F2 \cup T2 \subseteq Blocks /\ Apart(F2, T2)
  <2>1. F2 \cup T2 \subseteq Blocks
    BY <1>3, <1>5, <1>6
  <2>2. N \notin T2
    BY <1>2, <1>3, <1>6
  <2> QED
    BY <1>2, <1>4, <1>5, <2>1, <2>2 DEF Apart
<1>17. ASSUME NEW a \in F2 \cup T2, NEW b \in F2 \cup T2, a # b
       PROVE  Apart(Span(a[1], a[2]), Span(b[1], b[2]))
  <2>1. CASE a # N /\ b # N
    BY <1>5, <1>6, <1>17, <2>1
  <2>2. CASE a = N
    <3>1. b \in (F \cup T) \ (M \cup {me})
      BY <1>6, <1>17, <2>2
    <3> QED
      BY <1>3, <2>2, <3>1 DEF Apart
  <2>3. CASE b = N
    <3>1. a \in (F \cup T) \ (M \cup {me})
      BY <1>6, <1>17, <2>3
    <3> QED
      BY <1>3, <2>3, <3>1 DEF Apart
  <2> QED
    BY <2>1, <2>2, <2>3
<1>18. ASSUME NEW b \in (F \cup T) \ (M \cup {me})
       PROVE  \A u \in Span(b[1], b[2]) :
                u \in Units /\ b[1] \in Span(b[1], b[2]) /\ hdr'[u] = hdr[u] /\ (freeBit'[u] <=> freeBit[u])
  <2>1. Apart(Span(b[1], b[2]), Span(N[1], N[2]))
    BY <1>3
  <2>2. Span(b[1], b[2]) \subseteq Units /\ b[1] \in Span(b[1], b[2])
    BY <1>5, BlockFacts
  <2> QED
    BY <1>14, <2>1, <2>2 DEF Apart
<1>19. ASSUME NEW b \in F2
       PROVE  /\ hdr'[b[1]] = b[2] /\ freeBit'[b[1]]
              /\ \A u \in Span(b[1], b[2]) : u # b[1] => hdr'[u] = Zero
              /\ b[2] < MAX_LEVEL - 1 => <<Neighbor(b[1], b[2]), b[2]>> \notin F2
  <2>1. CASE b = N
    <3>1. hdr'[b[1]] = b[2] /\ freeBit'[b[1]]
      BY <1>7, <1>11, <1>12, <2>1
    <3>2. ASSUME NEW u \in Span(N[1], N[2]), u # N[1] PROVE hdr'[u] = Zero
      <4>1. u \in Units
        BY <1>7
      <4>2. CASE \E a \in M : u = a[1]
        BY <1>11, <3>2, <4>1, <4>2
      <4>3. CASE ~ \E a \in M : u = a[1]
        <5>1. hdr'[u] = hdr[u]
          BY <1>11, <3>2, <4>1, <4>3
        <5>2. CASE u \in Span(ptr, level)
          BY <5>1, <5>2
        <5>3. CASE u \notin Span(ptr, level)
          <6>1. PICK a \in M : u \in Span(a[1], a[2])
            BY <1>3, <5>3 DEF Area
          <6> QED
            BY <1>3, <1>5, <4>3, <5>1, <6>1
        <5> QED
          BY <5>2, <5>3
      <4> QED
        BY <4>2, <4>3
    <3>3. ASSUME m < MAX_LEVEL - 1 PROVE <<Neighbor(N[1], m), m>> \notin F2
      <4>1. Neighbor(N[1], m) # N[1]
        <5>1. Apart(Span(AlignDown(N[1], m), m), Span(Neighbor(N[1], m), m)) /\ AlignDown(N[1], m) = N[1]
          BY <1>7, Buddies, AlignedBelow
        <5> QED
          BY <1>7, <5>1 DEF Apart
      <4>2. <<Neighbor(N[1], m), m>> # N
        BY <1>7, <4>1
      <4> QED
        BY <1>3, <1>4, <3>3, <4>2
    <3> QED
      BY <1>7, <2>1, <3>1, <3>2, <3>3
  <2>2. CASE b # N
    <3>1. b \in F /\ b \in (F \cup T) \ (M \cup {me}) /\ b \in Blocks
      BY <1>4, <1>5, <1>6, <2>2
    <3>2. b = <<b[1], b[2]>> /\ b[1] \in Nat /\ b[2] \in Nat /\ b[1] % 2 ^ b[2] = 0
          /\ b[1] \in Span(b[1], b[2])
      BY <3>1, BlockFacts
    <3>3. /\ hdr'[b[1]] = b[2] /\ freeBit'[b[1]]
          /\ \A u \in Span(b[1], b[2]) : u # b[1] => hdr'[u] = Zero
      BY <1>5, <1>18, <3>1, <3>2
    <3>4. ASSUME b[2] < MAX_LEVEL - 1 PROVE <<Neighbor(b[1], b[2]), b[2]>> \notin F2
      <4>1. <<Neighbor(b[1], b[2]), b[2]>> \notin F
        BY <1>5, <3>1, <3>4
      <4>2. <<Neighbor(b[1], b[2]), b[2]>> # N
        <5> SUFFICES ASSUME Neighbor(b[1], m) = N[1], b[2] = m PROVE FALSE
          BY <1>7
        <5>1. Neighbor(N[1], m) = b[1]
          BY <3>2, Buddies, AlignedBelow
        <5>2. <<Neighbor(N[1], m), m>> = b
          BY <3>2, <5>1
        <5> QED
          BY <1>3, <3>1, <3>4, <5>2
      <4> QED
        BY <1>4, <4>1, <4>2
    <3> QED
      BY <3>3, <3>4
  <2> QED
    BY <2>1, <2>2
<1>20. ASSUME NEW b \in T2 PROVE ~freeBit'[b[1]]
  <2>1. b \in T /\ b \in (F \cup T) \ (M \cup {me}) /\ b[1] \in Span(b[1], b[2])
    BY <1>2, <1>5, <1>6, BlockFacts
  <2> QED
    BY <1>5, <1>18, <2>1
<1>21. Area(F2 \cup T2) = Area(F \cup T)
  <2>1. ASSUME NEW u \in Area(F \cup T) PROVE u \in Area(F2 \cup T2)
    <3>1. PICK b \in F \cup T : u \in Span(b[1], b[2])
      BY <2>1 DEF Area
    <3>2. CASE b \in M \cup {me}
      <4>1. u \in Span(N[1], N[2])
        BY <1>1, <1>3, <3>1, <3>2 DEF Area
      <4> QED
        BY <1>6, <4>1 DEF Area
    <3>3. CASE b \notin M \cup {me}
      BY <1>6, <3>1, <3>3 DEF Area
    <3> QED
      BY <3>2, <3>3
  <2>2. ASSUME NEW u \in Area(F2 \cup T2) PROVE u \in Area(F \cup T)
    <3>1. PICK b \in F2 \cup T2 : u \in Span(b[1], b[2])
      BY <2>2 DEF Area
    <3>2. CASE b = N
      <4>1. u \in Span(ptr, level) \/ \E a \in M : u \in Span(a[1], a[2])
        BY <1>3, <3>1, <3>2 DEF Area
      <4>2. me[1] = ptr /\ me[2] = level
        BY <1>1
      <4> QED
        BY <1>3, <1>6, <4>1, <4>2 DEF Area
    <3>3. CASE b # N
      BY <1>6, <3>1, <3>3 DEF Area
    <3> QED
      BY <3>2, <3>3
  <2> QED
    BY <2>1, <2>2
<1>22. ASSUME NEW u \in Units, freeBit'[u] PROVE u \in Area(F2 \cup T2)
  <2>1. CASE u \in Span(N[1], N[2])
    BY <1>6, <2>1 DEF Area
  <2>2. CASE u \notin Span(N[1], N[2])
    BY <1>5, <1>14, <1>21, <1>22, <2>2
  <2> QED
    BY <2>1, <2>2
<1>23. BuddyOK(freelist', hdr', freeBit', T2)
  <2>1. \A a, b \in F2 \cup T2 : a # b => Apart(Span(a[1], a[2]), Span(b[1], b[2]))
    BY <1>17
  <2>2. \A b \in F2 : /\ hdr'[b[1]] = b[2] /\ freeBit'[b[1]]
                      /\ \A u \in Span(b[1], b[2]) : u # b[1] => hdr'[u] = Zero
                      /\ b[2] < MAX_LEVEL - 1 => <<Neighbor(b[1], b[2]), b[2]>> \notin F2
    BY <1>19
  <2> QED
    BY <1>2, <1>4, <1>15, <1>16, <1>20, <1>22, <2>1, <2>2 DEF BuddyOK
<1> QED
  BY <1>1, <1>2, <1>14, <1>21, <1>23

-----------------------------------------------------------------------------
(* Taking a block and splitting it *)

(* The upper halves that go back on the freelists *)
Pieces(ptr, level, at) == {<<ptr + 2 ^ l, l>> : l \in level..(at - 1)}

LEMMA SplitShape ==
  ASSUME NEW ptr, NEW level \in Levels, NEW at \in Levels, level <= at, <<ptr, at>> \in Blocks
  PROVE  LET P == Pieces(ptr, level, at)
             me == <<ptr, level>>
         IN  /\ P \cup {me} \subseteq Blocks /\ me \notin P
             /\ \A l \in level..(at - 1) : l \in Levels /\ l < at
             /\ Area(P) = Ring(ptr, level, at)
             /\ Span(ptr, at) = Span(ptr, level) \cup Area(P)
             /\ \A a, b \in P \cup {me} : a # b => Apart(Span(a[1], a[2]), Span(b[1], b[2]))
             /\ \A l \in level..(at - 1) : /\ Neighbor(ptr, l) = ptr + 2 ^ l
                                           /\ Neighbor(ptr + 2 ^ l, l) = ptr
             /\ \A k, l \in level..(at - 1) : ptr + 2 ^ k = ptr + 2 ^ l => k = l
             /\ \A l \in level..(at - 1) : ptr + 2 ^ l # ptr
<1>1. PICK P, me, whole : P = Pieces(ptr, level, at) /\ me = <<ptr, level>> /\ whole = <<ptr, at>>
  OBVIOUS
<1>2. whole \in Blocks /\ whole[1] = ptr /\ whole[2] = at /\ me[1] = ptr /\ me[2] = level
  BY <1>1
<1>3. /\ ptr \in Nat /\ ptr \in Units /\ at \in Nat /\ ptr % 2 ^ at = 0 /\ Span(ptr, at) \subseteq Units
      /\ ptr \in Span(ptr, at)
  BY <1>2, BlockFacts
<1>4. /\ level \in Nat
      /\ \A l \in level..(at - 1) : l \in Nat /\ l \in Levels /\ l < at /\ l <= at
  BY <1>3, LevelAssumption DEF Levels
<1>5. AlignDown(ptr, level) = ptr /\ ptr % 2 ^ level = 0 /\ AlignDown(ptr, at) = ptr
  <2>1. AlignDown(ptr, level) = ptr /\ ptr % 2 ^ level = 0
    BY <1>3, <1>4, AlignedBelow
  <2>2. at <= at
    BY <1>3
  <2>3. AlignDown(ptr, at) = ptr
    BY <1>3, <2>2, AlignedBelow
  <2> QED
    BY <2>1, <2>3
<1>6. Span(ptr, at) = Span(ptr, level) \cup Ring(ptr, level, at)
  BY <1>3, <1>4, <1>5, MergeCover
<1>7. ASSUME NEW l \in level..(at - 1)
      PROVE  /\ Neighbor(ptr, l) = ptr + 2 ^ l /\ Neighbor(ptr + 2 ^ l, l) = ptr
             /\ ptr + 2 ^ l \in Nat /\ (ptr + 2 ^ l) % 2 ^ l = 0 /\ 2 ^ l \in Nat \ {0}
             /\ ptr + 2 ^ l \in Span(ptr + 2 ^ l, l)
  <2>1. Neighbor(ptr, l) = ptr + 2 ^ l
    BY <1>3, <1>4, UpperHalf
  <2>2. AlignDown(ptr, l) = ptr
    BY <1>3, <1>4, AlignedBelow
  <2>3. /\ Neighbor(ptr, l) \in Nat /\ Neighbor(ptr, l) % 2 ^ l = 0
        /\ Neighbor(Neighbor(ptr, l), l) = AlignDown(ptr, l)
    BY <1>3, <1>4, Buddies
  <2>4. 2 ^ l \in Nat \ {0}
    BY <1>4, PowType
  <2>5. ptr + 2 ^ l \in Span(ptr + 2 ^ l, l)
    BY <1>3, <2>4 DEF Span
  <2> QED
    BY <2>1, <2>2, <2>3, <2>4, <2>5
<1>8. ASSUME NEW l \in level..(at - 1)
      PROVE  /\ Span(ptr + 2 ^ l, l) \subseteq Span(ptr, at)
             /\ Apart(Span(ptr + 2 ^ l, l), Span(ptr, level))
             /\ \A k \in level..(at - 1) :
                  k # l => Apart(Span(ptr + 2 ^ l, l), Span(ptr + 2 ^ k, k))
  <2>1. /\ Span(Neighbor(ptr, l), l) \subseteq Span(AlignDown(ptr, at), at)
        /\ Apart(Span(Neighbor(ptr, l), l), Span(AlignDown(ptr, level), level))
        /\ \A k \in level..(at - 1) :
             k # l => Apart(Span(Neighbor(ptr, l), l), Span(Neighbor(ptr, k), k))
    BY <1>3, <1>4, RingApart
  <2> QED
    BY <1>5, <1>7, <2>1
<1>9. \A b \in P : \E l \in level..(at - 1) : b = <<ptr + 2 ^ l, l>> /\ b[1] = ptr + 2 ^ l /\ b[2] = l
  BY <1>1 DEF Pieces
<1>10. \A l \in level..(at - 1) : \E b \in P : b[1] = ptr + 2 ^ l /\ b[2] = l
  <2> TAKE l \in level..(at - 1)
  <2>1. PICK b : b = <<ptr + 2 ^ l, l>>
    OBVIOUS
  <2> QED
    BY <1>1, <2>1 DEF Pieces
<1>11. Area(P) = Ring(ptr, level, at)
  BY <1>7, <1>9, <1>10 DEF Area, Ring
<1>12. ASSUME NEW b \in P PROVE b \in Blocks
  <2>1. PICK l \in level..(at - 1) : b = <<ptr + 2 ^ l, l>> /\ b[1] = ptr + 2 ^ l /\ b[2] = l
    BY <1>9
  <2>2. ptr + 2 ^ l + 2 ^ l - 1 \in Span(ptr + 2 ^ l, l)
    BY <1>3, <1>7 DEF Span
  <2>3. ptr + 2 ^ l \in Units /\ ptr + 2 ^ l + 2 ^ l - 1 \in Units
    BY <1>3, <1>7, <1>8, <2>2
  <2>4. ptr + 2 ^ l + 2 ^ l <= NumUnits
    BY <1>3, <1>7, <2>3, LevelAssumption DEF Units
  <2>5. b \in Units \X Levels /\ b[1] % 2 ^ b[2] = 0 /\ b[1] + 2 ^ b[2] <= NumUnits
    BY <1>4, <1>7, <2>1, <2>3, <2>4
  <2> QED
    BY <2>5 DEF Blocks
<1>13. me \in Blocks
  <2>1. 2 ^ level \in Nat \ {0}
    BY <1>4, PowType
  <2>2. ptr + 2 ^ level - 1 \in Span(ptr, level)
    BY <1>3, <2>1 DEF Span
  <2>3. ptr + 2 ^ level - 1 \in Units
    BY <1>3, <1>6, <2>2
  <2>4. ptr + 2 ^ level <= NumUnits
    BY <1>3, <2>1, <2>3, LevelAssumption DEF Units
  <2> QED
    BY <1>1, <1>2, <1>3, <1>5, <2>4 DEF Blocks
<1>14. ASSUME NEW a \in P \cup {me}, NEW b \in P \cup {me}, a # b
       PROVE  Apart(Span(a[1], a[2]), Span(b[1], b[2]))
  <2>1. CASE a \in P /\ b \in P
    <3>1. PICK k \in level..(at - 1) : a = <<ptr + 2 ^ k, k>> /\ a[1] = ptr + 2 ^ k /\ a[2] = k
      BY <1>9, <2>1
    <3>2. PICK l \in level..(at - 1) : b = <<ptr + 2 ^ l, l>> /\ b[1] = ptr + 2 ^ l /\ b[2] = l
      BY <1>9, <2>1
    <3>3. k # l
      BY <1>14, <3>1, <3>2
    <3> QED
      BY <1>8, <3>1, <3>2, <3>3
  <2>2. CASE a = me /\ b \in P
    BY <1>2, <1>8, <1>9, <2>2 DEF Apart
  <2>3. CASE a \in P /\ b = me
    BY <1>2, <1>8, <1>9, <2>3 DEF Apart
  <2> QED
    BY <1>14, <2>1, <2>2, <2>3
<1>15. ASSUME NEW k \in level..(at - 1), NEW l \in level..(at - 1), ptr + 2 ^ k = ptr + 2 ^ l
       PROVE  k = l
  BY <1>7, <1>8, <1>15 DEF Apart
<1>16. \A l \in level..(at - 1) : ptr + 2 ^ l # ptr
  BY <1>3, <1>7
<1>17. me \notin P
  BY <1>2, <1>9, <1>16
<1> QED
  BY <1>1, <1>4, <1>6, <1>7, <1>11, <1>12, <1>13, <1>14, <1>15, <1>16, <1>17

(* The assignments of AllocTake to the freelists, headers and bitmap *)
SplitIn(ptr, level, at) ==
  /\ freelist' = [l \in Levels |->
       IF l = at THEN Tail(freelist[l])
       ELSE IF l \in level..(at - 1) THEN <<ptr + 2 ^ l>> \o freelist[l]
       ELSE freelist[l]]
  /\ hdr' = [u \in Units |->
       IF u = ptr THEN Zero
       ELSE IF u \in SplitHeads(ptr, level, at)
            THEN CHOOSE l \in level..(at - 1) : u = ptr + 2 ^ l
       ELSE hdr[u]]
  /\ freeBit' = [u \in Units |-> u # ptr /\ (u \in SplitHeads(ptr, level, at) \/ freeBit[u])]

LEMMA HeadIsFree ==
  ASSUME NEW T, BuddyOK(freelist, hdr, freeBit, T), NEW at \in Levels, freelist[at] # <<>>
  PROVE  LET whole == <<Head(freelist[at]), at>>
         IN  /\ whole \in Free(freelist) /\ whole \in Blocks
             /\ LevelAt(Head(freelist[at])) = at
<1>1. PICK ptr, whole : ptr = Head(freelist[at]) /\ whole = <<ptr, at>>
  OBVIOUS
<1>2. freelist \in [Levels -> Seq(Units)] /\ freelist[at] \in Seq(Units)
  BY DEF BuddyOK
<1>3. ptr \in Range(freelist[at])
  BY <1>1, <1>2, TakeFront
<1>4. whole \in Free(freelist) /\ whole[1] = ptr /\ whole[2] = at
  BY <1>1, <1>2, <1>3, FreeIn
<1>5. whole \in Blocks /\ hdr[ptr] = at
  BY <1>4 DEF BuddyOK
<1>6. LevelAt(ptr) = at
  <2>1. at # Zero
    BY LevelAssumption DEF Levels, Zero
  <2> QED
    BY <1>5, <2>1 DEF LevelAt
<1> QED
  BY <1>1, <1>4, <1>5, <1>6

(* What the freelists hold after the split *)
LEMMA SplitLists ==
  ASSUME NEW T, BuddyOK(freelist, hdr, freeBit, T), NEW level \in Levels, NEW at \in Levels,
         level <= at, freelist[at] # <<>>, NEW ptr, ptr = Head(freelist[at]),
         SplitIn(ptr, level, at)
  PROVE  /\ freelist' \in [Levels -> Seq(Units)] /\ \A l \in Levels : NoDuplicates(freelist'[l])
         /\ Free(freelist') = (Free(freelist) \ {<<ptr, at>>}) \cup Pieces(ptr, level, at)
<1>1. PICK P, whole : P = Pieces(ptr, level, at) /\ whole = <<ptr, at>>
  OBVIOUS
<1>2. whole \in Free(freelist) /\ whole \in Blocks /\ whole[1] = ptr /\ whole[2] = at
  BY <1>1, HeadIsFree
<1>3. /\ P \subseteq Blocks
      /\ \A l \in level..(at - 1) : l \in Levels /\ l < at
      /\ Span(ptr, at) = Span(ptr, level) \cup Area(P)
  <2>1. <<ptr, at>> \in Blocks
    BY <1>1, <1>2
  <2> QED
    BY <1>1, <2>1, SplitShape
<1>4. freelist \in [Levels -> Seq(Units)] /\ \A l \in Levels : NoDuplicates(freelist[l])
  BY DEF BuddyOK
<1>5. ASSUME NEW l \in level..(at - 1)
      PROVE  ptr + 2 ^ l \in Units /\ ptr + 2 ^ l \notin Range(freelist[l]) /\ l # at
  <2>1. PICK b : b = <<ptr + 2 ^ l, l>>
    OBVIOUS
  <2>2. b \in P /\ b[1] = ptr + 2 ^ l /\ b[2] = l
    BY <1>1, <2>1 DEF Pieces
  <2>3. b[1] \in Units /\ b[1] \in Span(b[1], b[2])
    BY <1>3, <2>2, BlockFacts
  <2>4. l # at
    BY <1>3, LevelAssumption DEF Levels
  <2>5. b # whole
    BY <1>2, <2>2, <2>4
  <2>6. b[1] \in Span(whole[1], whole[2])
    BY <1>2, <1>3, <2>2, <2>3 DEF Area
  <2>7. b \notin Free(freelist)
    BY <1>2, <2>3, <2>5, <2>6 DEF BuddyOK, Apart
  <2>8. ptr + 2 ^ l \notin Range(freelist[l])
    BY <1>3, <1>4, <2>1, <2>7, FreeIn
  <2> QED
    BY <2>2, <2>3, <2>4, <2>8
<1>6. freelist' = [l \in Levels |->
       IF l = at THEN Tail(freelist[l])
       ELSE IF l \in level..(at - 1) THEN <<ptr + 2 ^ l>> \o freelist[l]
       ELSE freelist[l]]
  BY DEF SplitIn
<1>7. ASSUME NEW l \in Levels
      PROVE  /\ freelist'[l] \in Seq(Units) /\ NoDuplicates(freelist'[l])
             /\ l = at => Range(freelist'[l]) = Range(freelist[l]) \ {ptr}
             /\ l \in level..(at - 1) => Range(freelist'[l]) = Range(freelist[l]) \cup {ptr + 2 ^ l}
             /\ l # at /\ l \notin level..(at - 1) => Range(freelist'[l]) = Range(freelist[l])
  <2>1. freelist[l] \in Seq(Units) /\ NoDuplicates(freelist[l])
    BY <1>4
  <2>2. CASE l = at
    <3>1. freelist'[l] = Tail(freelist[l]) /\ freelist[l] # <<>> /\ Head(freelist[l]) = ptr
      BY <1>6, <2>2
    <3>2. /\ Tail(freelist[l]) \in Seq(Units) /\ NoDuplicates(Tail(freelist[l]))
          /\ Range(freelist[l]) = Range(Tail(freelist[l])) \cup {ptr} /\ ptr \notin Range(Tail(freelist[l]))
      BY <2>1, <3>1, TakeFront
    <3>3. Range(freelist'[l]) = Range(freelist[l]) \ {ptr}
      BY <3>1, <3>2
    <3> QED
      BY <1>5, <2>2, <3>1, <3>2, <3>3
  <2>3. CASE l \in level..(at - 1)
    <3>1. freelist'[l] = <<ptr + 2 ^ l>> \o freelist[l]
      BY <1>5, <1>6, <2>3
    <3> QED
      BY <1>5, <2>1, <2>3, <3>1, PutFront
  <2>4. CASE l # at /\ l \notin level..(at - 1)
    <3>1. freelist'[l] = freelist[l]
      BY <1>6, <2>4
    <3> QED
      BY <2>1, <2>4, <3>1
  <2> QED
    BY <2>2, <2>3, <2>4
<1>8. freelist' \in [Levels -> Seq(Units)]
  <2>1. freelist' = [l \in Levels |-> freelist'[l]]
    BY <1>6
  <2> QED
    BY <1>7, <2>1
<1>9. ASSUME NEW p, NEW l
      PROVE  <<p, l>> \in Free(freelist') <=> <<p, l>> \in (Free(freelist) \ {whole}) \cup P
  <2>1. <<p, l>> \in Free(freelist') <=> l \in Levels /\ p \in Range(freelist'[l])
    BY <1>8, FreeIn
  <2>2. <<p, l>> \in Free(freelist) <=> l \in Levels /\ p \in Range(freelist[l])
    BY <1>4, FreeIn
  <2>3. <<p, l>> \in P <=> l \in level..(at - 1) /\ p = ptr + 2 ^ l
    BY <1>1 DEF Pieces
  <2>4. <<p, l>> = whole <=> l = at /\ p = ptr
    BY <1>1
  <2>5. CASE l \notin Levels
    <3>1. <<p, l>> \notin Free(freelist') /\ <<p, l>> \notin Free(freelist) /\ <<p, l>> \notin P
      BY <1>3, <2>1, <2>2, <2>3, <2>5
    <3> QED
      BY <3>1
  <2>6. CASE l \in Levels /\ l = at
    <3>1. p \in Range(freelist'[l]) <=> p \in Range(freelist[l]) /\ p # ptr
      BY <1>7, <2>6
    <3>2. <<p, l>> \notin P
      BY <1>5, <2>3, <2>6
    <3> QED
      BY <2>1, <2>2, <2>4, <2>6, <3>1, <3>2
  <2>7. CASE l \in Levels /\ l # at
    <3>1. p \in Range(freelist'[l]) <=>
            p \in Range(freelist[l]) \/ (l \in level..(at - 1) /\ p = ptr + 2 ^ l)
      BY <1>7, <2>7
    <3> QED
      BY <2>1, <2>2, <2>3, <2>4, <2>7, <3>1
  <2> QED
    BY <2>5, <2>6, <2>7
<1>10. Free(freelist') = (Free(freelist) \ {whole}) \cup P
  <2>1. \A b \in Free(freelist') : b = <<b[1], b[2]>>
    BY <1>8, FreeIn
  <2>2. \A b \in Free(freelist) : b = <<b[1], b[2]>>
    BY <1>4, FreeIn
  <2>3. \A b \in P : b = <<b[1], b[2]>>
    BY <1>3, BlockFacts
  <2>4. \A b \in Free(freelist') : b \in (Free(freelist) \ {whole}) \cup P
    BY <1>9, <2>1
  <2>5. \A b \in (Free(freelist) \ {whole}) \cup P : b \in Free(freelist')
    BY <1>9, <2>2, <2>3
  <2> QED
    BY <2>4, <2>5
<1> QED
  BY <1>1, <1>7, <1>8, <1>10

(* The end of phys_alloc_internal: a zeroed block leaves the allocator,    *)
(* the rest of the free block it is taken from stays free, all else is as  *)
(* it was.                                                                 *)
LEMMA SplitStep ==
  ASSUME NEW T, BuddyOK(freelist, hdr, freeBit, T), NEW level \in Levels, NEW at \in Levels,
         level <= at, freelist[at] # <<>>, NEW ptr, ptr = Head(freelist[at]),
         SplitIn(ptr, level, at)
  PROVE  LET me == <<ptr, level>>
         IN  /\ BuddyOK(freelist', hdr', freeBit', T \cup {me}) /\ me \notin T
             /\ Area(Free(freelist') \cup (T \cup {me})) = Area(Free(freelist) \cup T)
             /\ \A u \in Span(ptr, level) : hdr'[u] = Zero
             /\ \A b \in T : \A u \in Span(b[1], b[2]) : hdr'[u] = hdr[u]
<1>1. PICK P, me, whole : P = Pieces(ptr, level, at) /\ me = <<ptr, level>> /\ whole = <<ptr, at>>
  OBVIOUS
<1>2. PICK F, F2, T2, X : /\ F = Free(freelist) /\ F2 = Free(freelist') /\ T2 = T \cup {me}
                          /\ X = P \cup {me}
  OBVIOUS
<1>3. whole \in F /\ whole \in Blocks /\ whole[1] = ptr /\ whole[2] = at /\ me[1] = ptr /\ me[2] = level
  BY <1>1, <1>2, HeadIsFree
<1>4. /\ X \subseteq Blocks /\ me \notin P
      /\ \A l \in level..(at - 1) : l \in Levels /\ l < at
      /\ Span(ptr, at) = Span(ptr, level) \cup Area(P)
      /\ \A a, b \in X : a # b => Apart(Span(a[1], a[2]), Span(b[1], b[2]))
      /\ \A l \in level..(at - 1) : /\ Neighbor(ptr, l) = ptr + 2 ^ l
                                    /\ Neighbor(ptr + 2 ^ l, l) = ptr
      /\ \A k, l \in level..(at - 1) : ptr + 2 ^ k = ptr + 2 ^ l => k = l
      /\ \A l \in level..(at - 1) : ptr + 2 ^ l # ptr
  <2>1. <<ptr, at>> \in Blocks
    BY <1>1, <1>3
  <2> QED
    BY <1>1, <1>2, <2>1, SplitShape
<1>5. /\ freelist' \in [Levels -> Seq(Units)] /\ \A l \in Levels : NoDuplicates(freelist'[l])
      /\ F2 = (F \ {whole}) \cup P
  BY <1>1, <1>2, SplitLists
<1>6. /\ hdr \in [Units -> Levels \cup {Zero, Data}] /\ freeBit \in [Units -> BOOLEAN]
      /\ F \cup T \subseteq Blocks /\ Apart(F, T)
      /\ \A a, b \in F \cup T : a # b => Apart(Span(a[1], a[2]), Span(b[1], b[2]))
      /\ \A b \in F : /\ hdr[b[1]] = b[2] /\ freeBit[b[1]]
                      /\ \A u \in Span(b[1], b[2]) : u # b[1] => hdr[u] = Zero
                      /\ b[2] < MAX_LEVEL - 1 => <<Neighbor(b[1], b[2]), b[2]>> \notin F
      /\ \A b \in T : ~freeBit[b[1]]
      /\ \A u \in Units : freeBit[u] => u \in Area(F \cup T)
  BY <1>2 DEF BuddyOK
<1>7. whole \notin T /\ F2 \cup T2 = ((F \cup T) \ {whole}) \cup X
  BY <1>2, <1>3, <1>5, <1>6 DEF Apart
<1>8. ASSUME NEW a \in X PROVE a[1] \in Span(a[1], a[2]) /\ Span(a[1], a[2]) \subseteq Span(ptr, at)
  <2>1. a[1] \in Span(a[1], a[2])
    BY <1>4, BlockFacts
  <2>2. a \in P \/ a = me
    BY <1>2
  <2> QED
    BY <1>3, <1>4, <2>1, <2>2 DEF Area
<1>9. ASSUME NEW u \in Span(ptr, at) PROVE \E a \in X : u \in Span(a[1], a[2])
  BY <1>2, <1>3, <1>4 DEF Area
<1>10. ASSUME NEW b \in (F \cup T) \ {whole}
       PROVE  /\ b[1] \in Span(b[1], b[2]) /\ Span(b[1], b[2]) \subseteq Units
              /\ Apart(Span(b[1], b[2]), Span(ptr, at)) /\ b \notin X
              /\ \A a \in X : Apart(Span(b[1], b[2]), Span(a[1], a[2]))
  <2>1. b[1] \in Span(b[1], b[2]) /\ Span(b[1], b[2]) \subseteq Units
    BY <1>6, BlockFacts
  <2>2. Apart(Span(b[1], b[2]), Span(ptr, at))
    BY <1>3, <1>6
  <2>3. \A a \in X : Apart(Span(b[1], b[2]), Span(a[1], a[2]))
    BY <1>8, <2>2 DEF Apart
  <2>4. b \notin X
    BY <1>8, <2>1, <2>2 DEF Apart
  <2> QED
    BY <2>1, <2>2, <2>3, <2>4
<1>11. Span(ptr, at) \subseteq Units /\ ptr \in Units /\ ptr \in Nat /\ at \in Nat /\ ptr \in Span(ptr, at)
  BY <1>3, BlockFacts
<1>12. \A a \in P : \E l \in level..(at - 1) : a = <<ptr + 2 ^ l, l>> /\ a[1] = ptr + 2 ^ l /\ a[2] = l
  BY <1>1 DEF Pieces
<1>13. \A l \in level..(at - 1) : \E a \in P : a[1] = ptr + 2 ^ l /\ a[2] = l
  <2> TAKE l \in level..(at - 1)
  <2>1. PICK a : a = <<ptr + 2 ^ l, l>>
    OBVIOUS
  <2> QED
    BY <1>1, <2>1 DEF Pieces
<1>14. \A u : u \in SplitHeads(ptr, level, at) <=> \E a \in P : u = a[1]
  BY <1>12, <1>13 DEF SplitHeads
<1>15. ASSUME NEW a \in P
       PROVE  /\ a[1] \in Units /\ a[1] # ptr /\ hdr'[a[1]] = a[2] /\ freeBit'[a[1]]
              /\ a[2] \in Levels /\ a[2] \in level..(at - 1)
  <2>1. PICK l \in level..(at - 1) : a = <<ptr + 2 ^ l, l>> /\ a[1] = ptr + 2 ^ l /\ a[2] = l
    BY <1>12
  <2>2. a[1] \in Units /\ a[1] # ptr
    BY <1>2, <1>4, <2>1, BlockFacts
  <2>3. PICK k : k = CHOOSE j \in level..(at - 1) : a[1] = ptr + 2 ^ j
    OBVIOUS
  <2>4. k \in level..(at - 1) /\ a[1] = ptr + 2 ^ k
    BY <2>1, <2>3
  <2>5. k = l
    BY <1>4, <2>1, <2>4
  <2>6. a[1] \in SplitHeads(ptr, level, at)
    BY <1>14
  <2>7. hdr'[a[1]] = k
    BY <2>2, <2>3, <2>6 DEF SplitIn
  <2>8. freeBit'[a[1]]
    BY <2>2, <2>6 DEF SplitIn
  <2> QED
    BY <1>4, <2>1, <2>2, <2>5, <2>7, <2>8
<1>16. hdr'[ptr] = Zero /\ ~freeBit'[ptr]
  BY <1>11 DEF SplitIn
<1>17. ASSUME NEW u \in Units, \A a \in X : u # a[1]
       PROVE  hdr'[u] = hdr[u] /\ (freeBit'[u] <=> freeBit[u])
  <2>1. u # ptr /\ u \notin SplitHeads(ptr, level, at)
    BY <1>2, <1>3, <1>14, <1>17
  <2> QED
    BY <2>1 DEF SplitIn
<1>18. hdr' \in [Units -> Levels \cup {Zero, Data}] /\ freeBit' \in [Units -> BOOLEAN]
  <2>1. ASSUME NEW u \in Units PROVE hdr'[u] \in Levels \cup {Zero, Data}
    <3>1. CASE u = ptr
      BY <1>16, <3>1
    <3>2. CASE \E a \in P : u = a[1]
      BY <1>15, <3>2
    <3>3. CASE \A a \in X : u # a[1]
      BY <1>6, <1>17, <3>3
    <3> QED
      BY <1>2, <1>3, <3>1, <3>2, <3>3
  <2>2. hdr' = [u \in Units |-> hdr'[u]]
    BY DEF SplitIn
  <2>3. freeBit' \in [Units -> BOOLEAN]
    BY DEF SplitIn
  <2> QED
    BY <2>1, <2>2, <2>3
<1>19. ASSUME NEW b \in (F \cup T) \ {whole}
       PROVE  \A u \in Span(b[1], b[2]) : u \in Units /\ hdr'[u] = hdr[u] /\ (freeBit'[u] <=> freeBit[u])
  <2> SUFFICES ASSUME NEW u \in Span(b[1], b[2])
               PROVE  u \in Units /\ hdr'[u] = hdr[u] /\ (freeBit'[u] <=> freeBit[u])
    OBVIOUS
  <2>1. u \in Units /\ \A a \in X : u # a[1]
    <3>1. Span(b[1], b[2]) \subseteq Units /\ \A a \in X : Apart(Span(b[1], b[2]), Span(a[1], a[2]))
      BY <1>10
    <3>2. \A a \in X : a[1] \in Span(a[1], a[2])
      BY <1>8
    <3> QED
      BY <3>1, <3>2 DEF Apart
  <2> QED
    BY <1>17, <2>1
<1>20. ASSUME NEW a \in X, NEW u \in Span(a[1], a[2]), u # a[1] PROVE hdr'[u] = Zero
  <2>1. u \in Span(ptr, at) /\ u \in Units
    BY <1>8, <1>11
  <2>2. \A b \in X : u # b[1]
    <3> SUFFICES ASSUME NEW b \in X, u = b[1] PROVE FALSE
      OBVIOUS
    <3>1. a # b
      BY <1>20
    <3> QED
      BY <1>4, <1>8, <3>1 DEF Apart
  <2>3. u # ptr
    BY <1>2, <1>3, <2>2
  <2>4. hdr[u] = Zero
    BY <1>3, <1>6, <2>1, <2>3
  <2> QED
    BY <1>17, <2>1, <2>2, <2>4
<1>21. F2 \cup T2 \subseteq Blocks /\ Apart(F2, T2) /\ me \notin T
  <2>1. F2 \cup T2 \subseteq Blocks
    BY <1>4, <1>6, <1>7
  <2>2. me \notin F \ {whole} /\ \A b \in T : b \notin X
    BY <1>2, <1>7, <1>10
  <2> QED
    BY <1>2, <1>4, <1>5, <1>6, <2>1, <2>2 DEF Apart
<1>22. ASSUME NEW a \in F2 \cup T2, NEW b \in F2 \cup T2, a # b
       PROVE  Apart(Span(a[1], a[2]), Span(b[1], b[2]))
  <2>1. CASE a \in X /\ b \in X
    BY <1>4, <1>22, <2>1
  <2>2. CASE a \in X /\ b \notin X
    <3>1. b \in (F \cup T) \ {whole}
      BY <1>7, <2>2
    <3> QED
      BY <1>10, <2>2, <3>1 DEF Apart
  <2>3. CASE a \notin X /\ b \in X
    <3>1. a \in (F \cup T) \ {whole}
      BY <1>7, <2>3
    <3> QED
      BY <1>10, <2>3, <3>1 DEF Apart
  <2>4. CASE a \notin X /\ b \notin X
    BY <1>6, <1>7, <1>22, <2>4
  <2> QED
    BY <2>1, <2>2, <2>3, <2>4
<1>23. \A l : <<ptr, l>> \notin F2
  <2> SUFFICES ASSUME NEW l, <<ptr, l>> \in F2 PROVE FALSE
    OBVIOUS
  <2>1. PICK b : b = <<ptr, l>>
    OBVIOUS
  <2>2. b \in F2 /\ b[1] = ptr
    BY <2>1
  <2>3. CASE b \in P
    BY <1>15, <2>2, <2>3
  <2>4. CASE b \in F \ {whole}
    BY <1>10, <1>11, <2>2, <2>4 DEF Apart
  <2> QED
    BY <1>5, <2>2, <2>3, <2>4
<1>24. ASSUME NEW b \in F2
       PROVE  /\ hdr'[b[1]] = b[2] /\ freeBit'[b[1]]
              /\ \A u \in Span(b[1], b[2]) : u # b[1] => hdr'[u] = Zero
              /\ b[2] < MAX_LEVEL - 1 => <<Neighbor(b[1], b[2]), b[2]>> \notin F2
  <2>1. CASE b \in P
    <3>1. PICK l \in level..(at - 1) : b[1] = ptr + 2 ^ l /\ b[2] = l
      BY <1>12, <2>1
    <3>2. Neighbor(b[1], b[2]) = ptr
      BY <1>4, <3>1
    <3>3. b \in X
      BY <1>2, <2>1
    <3> QED
      BY <1>15, <1>20, <1>23, <2>1, <3>2, <3>3
  <2>2. CASE b \notin P
    <3>1. b \in F /\ b \in (F \cup T) \ {whole} /\ b \in Blocks
      BY <1>5, <1>6, <2>2
    <3>2. b = <<b[1], b[2]>> /\ b[1] \in Nat /\ b[2] \in Nat /\ b[1] % 2 ^ b[2] = 0
          /\ b[1] \in Span(b[1], b[2])
      BY <3>1, BlockFacts
    <3>3. /\ hdr'[b[1]] = b[2] /\ freeBit'[b[1]]
          /\ \A u \in Span(b[1], b[2]) : u # b[1] => hdr'[u] = Zero
      <4>1. /\ hdr[b[1]] = b[2] /\ freeBit[b[1]]
            /\ \A u \in Span(b[1], b[2]) : u # b[1] => hdr[u] = Zero
        BY <1>6, <3>1
      <4>2. \A u \in Span(b[1], b[2]) : hdr'[u] = hdr[u] /\ (freeBit'[u] <=> freeBit[u])
        BY <1>19, <3>1
      <4> QED
        BY <3>2, <4>1, <4>2
    <3>4. ASSUME b[2] < MAX_LEVEL - 1 PROVE <<Neighbor(b[1], b[2]), b[2]>> \notin F2
      <4>1. <<Neighbor(b[1], b[2]), b[2]>> \notin F
        BY <1>6, <3>1, <3>4
      <4>2. <<Neighbor(b[1], b[2]), b[2]>> \notin P
        <5> SUFFICES ASSUME <<Neighbor(b[1], b[2]), b[2]>> \in P PROVE FALSE
          OBVIOUS
        <5>1. PICK l \in level..(at - 1) : <<Neighbor(b[1], b[2]), b[2]>> = <<ptr + 2 ^ l, l>>
          BY <1>12
        <5>2. Neighbor(b[1], l) = ptr + 2 ^ l /\ b[2] = l
          BY <5>1
        <5>3. Neighbor(Neighbor(b[1], l), l) = b[1]
          BY <3>2, <5>2, Buddies, AlignedBelow
        <5>4. b[1] = ptr
          BY <1>4, <5>2, <5>3
        <5> QED
          BY <1>10, <1>11, <3>1, <3>2, <5>4 DEF Apart
      <4> QED
        BY <1>5, <4>1, <4>2
    <3> QED
      BY <3>3, <3>4
  <2> QED
    BY <2>1, <2>2
<1>25. ASSUME NEW b \in T2 PROVE ~freeBit'[b[1]]
  <2>1. CASE b = me
    BY <1>3, <1>16, <2>1
  <2>2. CASE b \in T
    <3>1. b \in (F \cup T) \ {whole} /\ b[1] \in Span(b[1], b[2])
      BY <1>7, <1>10, <2>2
    <3> QED
      BY <1>6, <1>19, <2>2, <3>1
  <2> QED
    BY <1>2, <2>1, <2>2
<1>26. Area(F2 \cup T2) = Area(F \cup T)
  <2>1. ASSUME NEW u \in Area(F \cup T) PROVE u \in Area(F2 \cup T2)
    <3>1. PICK b \in F \cup T : u \in Span(b[1], b[2])
      BY <2>1 DEF Area
    <3>2. CASE b = whole
      BY <1>3, <1>7, <1>9, <3>1, <3>2 DEF Area
    <3>3. CASE b # whole
      BY <1>7, <3>1, <3>3 DEF Area
    <3> QED
      BY <3>2, <3>3
  <2>2. ASSUME NEW u \in Area(F2 \cup T2) PROVE u \in Area(F \cup T)
    <3>1. PICK b \in F2 \cup T2 : u \in Span(b[1], b[2])
      BY <2>2 DEF Area
    <3>2. CASE b \in X
      <4>1. u \in Span(whole[1], whole[2])
        BY <1>3, <1>8, <3>1, <3>2
      <4> QED
        BY <1>3, <4>1 DEF Area
    <3>3. CASE b \notin X
      BY <1>7, <3>1, <3>3 DEF Area
    <3> QED
      BY <3>2, <3>3
  <2> QED
    BY <2>1, <2>2
<1>27. ASSUME NEW u \in Units, freeBit'[u] PROVE u \in Area(F2 \cup T2)
  <2>1. CASE \A a \in X : u # a[1]
    BY <1>6, <1>17, <1>26, <1>27, <2>1
  <2>2. CASE \E a \in X : u = a[1]
    BY <1>7, <1>8, <2>2 DEF Area
  <2> QED
    BY <2>1, <2>2
<1>28. BuddyOK(freelist', hdr', freeBit', T2)
  <2>1. \A a, b \in F2 \cup T2 : a # b => Apart(Span(a[1], a[2]), Span(b[1], b[2]))
    BY <1>22
  <2>2. \A b \in F2 : /\ hdr'[b[1]] = b[2] /\ freeBit'[b[1]]
                      /\ \A u \in Span(b[1], b[2]) : u # b[1] => hdr'[u] = Zero
                      /\ b[2] < MAX_LEVEL - 1 => <<Neighbor(b[1], b[2]), b[2]>> \notin F2
    BY <1>24
  <2> QED
    BY <1>2, <1>5, <1>18, <1>21, <1>25, <1>27, <2>1, <2>2 DEF BuddyOK
<1>29. ASSUME NEW u \in Span(ptr, level) PROVE hdr'[u] = Zero
  <2>1. me \in X
    BY <1>2
  <2> QED
    BY <1>3, <1>16, <1>20, <2>1
<1>30. ASSUME NEW b \in T, NEW u \in Span(b[1], b[2]) PROVE hdr'[u] = hdr[u]
  <2>1. b \in (F \cup T) \ {whole}
    BY <1>7
  <2> QED
    BY <1>19, <2>1
<1> QED
  BY <1>1, <1>2, <1>21, <1>26, <1>28, <1>29, <1>30

-----------------------------------------------------------------------------
(* The whole pages among the free blocks *)

Big(B) == {b \in B : b[2] >= PAGE_LEVEL}
BigPages(fl) == PagesIn(Area(Big(Free(fl))))

LEMMA FreePagesAre == FreePages = BigPages(freelist)
BY DEF FreePages, BigPages, Big, Area, FreeBlocks, Free

(* The level at which a block of `level` counts as pages *)
PageOrMore(level) == Max2(level, PAGE_LEVEL)

LEMMA PageOrMoreFacts ==
  ASSUME NEW level \in Levels, NEW m \in Levels, level <= m, m >= PAGE_LEVEL
  PROVE  LET top == PageOrMore(level)
         IN  /\ top \in Levels /\ top \in Nat /\ level <= top /\ PAGE_LEVEL <= top /\ top <= m
             /\ \A l \in level..(m - 1) : l >= PAGE_LEVEL <=> l \in top..(m - 1)
             /\ top..(m - 1) \subseteq level..(m - 1)
             /\ PagesToCommit(level, m) = get_page_count_by_level(top)
             /\ PagesToUncommit(level, m) = get_page_count_by_level(top)
<1>1. level \in Nat /\ m \in Nat /\ MAX_LEVEL \in Nat /\ PAGE_LEVEL \in Nat
  BY LevelAssumption DEF Levels
<1>2. PICK top : top = PageOrMore(level)
  OBVIOUS
<1>3. (level >= PAGE_LEVEL /\ top = level) \/ (level < PAGE_LEVEL /\ top = PAGE_LEVEL)
  BY <1>1, <1>2 DEF PageOrMore, Max2
<1>4. top \in Levels /\ top \in Nat /\ level <= top /\ PAGE_LEVEL <= top /\ top <= m
  BY <1>1, <1>3, LevelAssumption DEF Levels
<1>5. /\ \A l \in level..(m - 1) : l >= PAGE_LEVEL <=> l \in top..(m - 1)
      /\ top..(m - 1) \subseteq level..(m - 1)
  BY <1>1, <1>3, <1>4
<1>6. get_page_count_by_level(PAGE_LEVEL) = 1
  <2>1. PAGE_LEVEL - PAGE_LEVEL = 0
    BY <1>1
  <2> QED
    BY <2>1, PowZero DEF get_page_count_by_level
<1>7. PagesToCommit(level, m) = get_page_count_by_level(top)
      /\ PagesToUncommit(level, m) = get_page_count_by_level(top)
  <2>1. CASE level >= PAGE_LEVEL
    BY <1>1, <1>3, <2>1 DEF PagesToCommit, PagesToUncommit
  <2>2. CASE ~(level >= PAGE_LEVEL)
    <3>1. top = PAGE_LEVEL
      BY <1>1, <1>3, <2>2
    <3>2. PagesToCommit(level, m) = 1 /\ PagesToUncommit(level, m) = 1
      BY <2>2 DEF PagesToCommit, PagesToUncommit
    <3> QED
      BY <1>6, <3>1, <3>2
  <2> QED
    BY <2>1, <2>2
<1> QED
  BY <1>2, <1>4, <1>5, <1>7

(* Blocks below a page neither take pages nor give them. *)
LEMMA NoPages ==
  ASSUME NEW level \in Levels, NEW m \in Levels, level <= m, ~(m >= PAGE_LEVEL)
  PROVE  /\ PagesToCommit(level, m) = 0 /\ PagesToUncommit(level, m) = 0
         /\ \A l \in level..(m - 1) : ~(l >= PAGE_LEVEL)
<1>1. level \in Nat /\ m \in Nat /\ PAGE_LEVEL \in Nat
  BY LevelAssumption DEF Levels
<1>2. ~(level >= PAGE_LEVEL)
  BY <1>1
<1> QED
  BY <1>1, <1>2 DEF PagesToCommit, PagesToUncommit

LEMMA MergePages ==
  ASSUME NEW T, BuddyOK(freelist, hdr, freeBit, T), NEW ptr, NEW level, <<ptr, level>> \in T,
         NEW check, MergeIn(ptr, level, check)
  PROVE  LET n == PagesToUncommit(level, MergedLevel(ptr, level))
         IN  /\ n \in Nat
             /\ Cardinality(BigPages(freelist')) = Cardinality(BigPages(freelist)) + n
<1>1. PICK m, M, N, me : /\ m = MergedLevel(ptr, level) /\ M = MergedBlocks(ptr, level)
                         /\ N = MergedInto(ptr, level) /\ me = <<ptr, level>>
  OBVIOUS
<1>2. PICK F, F2 : F = Free(freelist) /\ F2 = Free(freelist')
  OBVIOUS
<1>3. /\ ptr \in Nat /\ level \in Levels /\ m \in Levels /\ level <= m
      /\ M \subseteq F /\ N \in Blocks
      /\ \A b \in (F \cup T) \ (M \cup {me}) : Apart(Span(b[1], b[2]), Span(N[1], N[2]))
  BY <1>1, <1>2, MergeShape
<1>4. F2 = (F \ M) \cup {N}
  BY <1>1, <1>2, MergeLists
<1>5. M = {<<Neighbor(ptr, l), l>> : l \in level..(m - 1)} /\ N[1] = AlignDown(ptr, m) /\ N[2] = m
  BY <1>1 DEF MergedBlocks, MergedInto
<1>6. me \notin F
  BY <1>1, <1>2 DEF BuddyOK, Apart
<1>7. \A b \in M : \E l \in level..(m - 1) : b[1] = Neighbor(ptr, l) /\ b[2] = l
  BY <1>5
<1>8. \A l \in level..(m - 1) : \E b \in M : b[1] = Neighbor(ptr, l) /\ b[2] = l
  <2> TAKE l \in level..(m - 1)
  <2>1. PICK b : b = <<Neighbor(ptr, l), l>>
    OBVIOUS
  <2> QED
    BY <1>5, <2>1
<1>9. CASE ~(m >= PAGE_LEVEL)
  <2>1. PagesToUncommit(level, m) = 0 /\ \A l \in level..(m - 1) : ~(l >= PAGE_LEVEL)
    BY <1>3, <1>9, NoPages
  <2>2. Big(F2) = Big(F)
    BY <1>4, <1>5, <1>7, <1>9, <2>1 DEF Big
  <2>3. BigPages(freelist') = BigPages(freelist)
    BY <1>2, <2>2 DEF BigPages
  <2>4. Cardinality(BigPages(freelist)) \in Nat
    BY PagesFinite DEF BigPages
  <2> QED
    BY <1>1, <2>1, <2>3, <2>4
<1>10. CASE m >= PAGE_LEVEL
  <2>1. PICK top, A : top = PageOrMore(level) /\ A = AlignDown(ptr, top)
    OBVIOUS
  <2>2. /\ top \in Nat /\ level <= top /\ PAGE_LEVEL <= top /\ top <= m
        /\ \A l \in level..(m - 1) : l >= PAGE_LEVEL <=> l \in top..(m - 1)
        /\ top..(m - 1) \subseteq level..(m - 1)
        /\ PagesToUncommit(level, m) = get_page_count_by_level(top)
    BY <1>3, <1>10, <2>1, PageOrMoreFacts
  <2>3. m \in Nat
    BY <1>3, LevelAssumption DEF Levels
  <2>4. Span(N[1], N[2]) = Span(A, top) \cup Ring(ptr, top, m)
    BY <1>3, <1>5, <2>1, <2>2, <2>3, MergeCover
  <2>5. Area(Big(M)) = Ring(ptr, top, m)
    <3>1. \A b \in Big(M) : \E l \in top..(m - 1) : b[1] = Neighbor(ptr, l) /\ b[2] = l
      BY <1>7, <2>2 DEF Big
    <3>2. \A l \in top..(m - 1) : \E b \in Big(M) : b[1] = Neighbor(ptr, l) /\ b[2] = l
      BY <1>8, <2>2 DEF Big
    <3> QED
      BY <3>1, <3>2 DEF Area, Ring
  <2>6. Area(Big(F2)) = Area(Big(F)) \cup Span(A, top)
    <3>1. Big(F2) = (Big(F) \ Big(M)) \cup {N} /\ Big(M) \subseteq Big(F)
      BY <1>3, <1>4, <1>5, <1>10 DEF Big
    <3>2. Area(Big(F2)) = Area(Big(F) \ Big(M)) \cup Span(N[1], N[2])
      BY <3>1 DEF Area
    <3>3. Area(Big(F)) = Area(Big(F) \ Big(M)) \cup Area(Big(M))
      BY <3>1 DEF Area
    <3> QED
      BY <2>4, <2>5, <3>2, <3>3
  <2>7. Apart(Area(Big(F)), Span(A, top))
    <3> SUFFICES ASSUME NEW b \in Big(F) PROVE Apart(Span(b[1], b[2]), Span(A, top))
      BY DEF Area, Apart
    <3>1. CASE b \in M
      <4>1. PICK l \in level..(m - 1) : b[1] = Neighbor(ptr, l) /\ b[2] = l
        BY <1>7, <3>1
      <4>2. l \in top..(m - 1)
        BY <2>2, <4>1 DEF Big
      <4>3. Apart(Span(Neighbor(ptr, l), l), Span(AlignDown(ptr, top), top))
        BY <1>3, <2>2, <2>3, <4>2, RingApart
      <4> QED
        BY <2>1, <4>1, <4>3
    <3>2. CASE b \notin M
      <4>1. b \in (F \cup T) \ (M \cup {me})
        BY <1>6, <3>2 DEF Big
      <4>2. Apart(Span(b[1], b[2]), Span(N[1], N[2]))
        BY <1>3, <4>1
      <4> QED
        BY <2>4, <4>2 DEF Apart
    <3> QED
      BY <3>1, <3>2
  <2>8. Cardinality(PagesIn(Span(A, top))) = get_page_count_by_level(top)
        /\ get_page_count_by_level(top) \in Nat \ {0}
    <3>1. A \in Nat /\ A % 2 ^ top = 0 /\ 2 ^ top \in Nat \ {0}
      <4>1. AlignDown(ptr, top) \in Nat /\ AlignDown(ptr, top) % 2 ^ top = 0
        BY <1>3, <2>2, Buddies
      <4>2. 2 ^ top \in Nat \ {0}
        BY <2>2, PowType
      <4> QED
        BY <2>1, <4>1, <4>2
    <3>2. A + 2 ^ top - 1 \in Span(A, top)
      BY <3>1 DEF Span
    <3>3. Span(N[1], N[2]) \subseteq Units
      BY <1>3, BlockFacts
    <3>4. A + 2 ^ top - 1 \in Units
      BY <2>4, <3>2, <3>3
    <3>5. A + 2 ^ top <= NumUnits
      BY <3>1, <3>4, LevelAssumption DEF Units
    <3>6. top >= PAGE_LEVEL
      BY <2>2, LevelAssumption
    <3> QED
      BY <2>2, <3>1, <3>5, <3>6, PagesOfBlock
  <2>9. BigPages(freelist') = PagesIn(Area(Big(F)) \cup Span(A, top)) /\ BigPages(freelist) = PagesIn(Area(Big(F)))
    BY <1>2, <2>6 DEF BigPages
  <2>10. Cardinality(PagesIn(Area(Big(F)) \cup Span(A, top)))
           = Cardinality(PagesIn(Area(Big(F)))) + Cardinality(PagesIn(Span(A, top)))
    BY <2>7, PagesUnion
  <2> QED
    BY <1>1, <2>2, <2>8, <2>9, <2>10
<1> QED
  BY <1>9, <1>10

LEMMA SplitPages ==
  ASSUME NEW T, BuddyOK(freelist, hdr, freeBit, T), NEW level \in Levels, NEW at \in Levels,
         level <= at, freelist[at] # <<>>, NEW ptr, ptr = Head(freelist[at]),
         SplitIn(ptr, level, at)
  PROVE  LET n == PagesToCommit(level, at)
         IN  /\ n \in Nat
             /\ Cardinality(BigPages(freelist)) = Cardinality(BigPages(freelist')) + n
<1>1. PICK P, whole : P = Pieces(ptr, level, at) /\ whole = <<ptr, at>>
  OBVIOUS
<1>2. PICK F, F2 : F = Free(freelist) /\ F2 = Free(freelist')
  OBVIOUS
<1>3. whole \in F /\ whole \in Blocks /\ whole[1] = ptr /\ whole[2] = at
  BY <1>1, <1>2, HeadIsFree
<1>4. F2 = (F \ {whole}) \cup P
  BY <1>1, <1>2, SplitLists
<1>5. \A b \in P : \E l \in level..(at - 1) : b = <<ptr + 2 ^ l, l>> /\ b[2] = l
  BY <1>1 DEF Pieces
<1>6. CASE ~(at >= PAGE_LEVEL)
  <2>1. PagesToCommit(level, at) = 0 /\ \A l \in level..(at - 1) : ~(l >= PAGE_LEVEL)
    BY <1>6, NoPages
  <2>2. Big(F2) = Big(F)
    BY <1>3, <1>4, <1>5, <1>6, <2>1 DEF Big
  <2>3. BigPages(freelist') = BigPages(freelist)
    BY <1>2, <2>2 DEF BigPages
  <2>4. Cardinality(BigPages(freelist)) \in Nat
    BY PagesFinite DEF BigPages
  <2> QED
    BY <2>1, <2>3, <2>4
<1>7. CASE at >= PAGE_LEVEL
  <2>1. PICK top, Q : top = PageOrMore(level) /\ Q = Pieces(ptr, top, at)
    OBVIOUS
  <2>2. /\ top \in Levels /\ top \in Nat /\ PAGE_LEVEL <= top /\ top <= at
        /\ \A l \in level..(at - 1) : l >= PAGE_LEVEL <=> l \in top..(at - 1)
        /\ top..(at - 1) \subseteq level..(at - 1)
        /\ PagesToCommit(level, at) = get_page_count_by_level(top)
    BY <1>7, <2>1, PageOrMoreFacts
  <2>3. PICK me : me = <<ptr, top>>
    OBVIOUS
  <2>4. /\ Q \cup {me} \subseteq Blocks /\ me \notin Q
        /\ Span(ptr, at) = Span(ptr, top) \cup Area(Q)
        /\ \A a, b \in Q \cup {me} : a # b => Apart(Span(a[1], a[2]), Span(b[1], b[2]))
    <3>1. <<ptr, at>> \in Blocks
      BY <1>1, <1>3
    <3> QED
      BY <2>1, <2>2, <2>3, <3>1, SplitShape
  <2>5. me[1] = ptr /\ me[2] = top
    BY <2>3
  <2>6. Big(P) = Q
    <3>1. \A b \in Big(P) : b \in Q
      BY <1>5, <2>1, <2>2 DEF Big, Pieces
    <3>2. \A l \in top..(at - 1) : <<ptr + 2 ^ l, l>> \in Big(P)
      BY <1>1, <2>2 DEF Big, Pieces
    <3>3. \A b \in Q : b \in Big(P)
      BY <2>1, <3>2 DEF Pieces
    <3> QED
      BY <3>1, <3>3
  <2>7. Area(Big(F)) = Area(Big(F2)) \cup Span(ptr, top)
    <3>1. Big(F2) = (Big(F) \ {whole}) \cup Q /\ whole \in Big(F)
      BY <1>3, <1>4, <1>7, <2>6 DEF Big
    <3>2. Area(Big(F2)) = Area(Big(F) \ {whole}) \cup Area(Q)
      BY <3>1 DEF Area
    <3>3. Area(Big(F)) = Area(Big(F) \ {whole}) \cup Span(ptr, at)
      BY <1>3, <3>1 DEF Area
    <3> QED
      BY <2>4, <3>2, <3>3
  <2>8. Apart(Area(Big(F2)), Span(ptr, top))
    <3> SUFFICES ASSUME NEW b \in Big(F2) PROVE Apart(Span(b[1], b[2]), Span(ptr, top))
      BY DEF Area, Apart
    <3>1. CASE b \in Q
      BY <2>4, <2>5, <3>1
    <3>2. CASE b \notin Q
      <4>1. b \in F /\ b # whole
        BY <1>4, <2>6, <3>2 DEF Big
      <4>2. Apart(Span(b[1], b[2]), Span(ptr, at))
        BY <1>2, <1>3, <4>1 DEF BuddyOK
      <4> QED
        BY <2>4, <4>2 DEF Apart
    <3> QED
      BY <3>1, <3>2
  <2>9. Cardinality(PagesIn(Span(ptr, top))) = get_page_count_by_level(top)
        /\ get_page_count_by_level(top) \in Nat \ {0}
    <3>1. ptr \in Nat /\ ptr % 2 ^ top = 0 /\ ptr + 2 ^ top <= NumUnits
      BY <2>4, <2>5, BlockFacts
    <3>2. top >= PAGE_LEVEL
      BY <2>2, LevelAssumption
    <3> QED
      BY <2>2, <3>1, <3>2, PagesOfBlock
  <2>10. BigPages(freelist) = PagesIn(Area(Big(F2)) \cup Span(ptr, top)) /\ BigPages(freelist') = PagesIn(Area(Big(F2)))
    BY <1>2, <2>7 DEF BigPages
  <2>11. Cardinality(PagesIn(Area(Big(F2)) \cup Span(ptr, top)))
           = Cardinality(PagesIn(Area(Big(F2)))) + Cardinality(PagesIn(Span(ptr, top)))
    BY <2>8, PagesUnion
  <2> QED
    BY <2>2, <2>9, <2>10, <2>11
<1> QED
  BY <1>6, <1>7

-----------------------------------------------------------------------------
(* The cores.  A step of core c replaces its state by `new`. *)

(* What LockOK asks of one core. *)
CoreOK(o, fl) ==
  /\ o.pc \in {"commit", "take"} => o.level <= o.at /\ fl[o.at] # <<>>
  /\ o.pc \in {"idle", "search", "commit", "take"} => o.ptr = NoBlock
  /\ o.pc \in {"return", "merge"} => o.ptr # NoBlock

(* A step takes the lock, keeps it or drops it; the freelists change only  *)
(* under it.                                                               *)
LEMMA LockStep ==
  ASSUME PhysTypes, LockOK, NEW c \in Cpus, NEW new \in OpStates, op' = [op EXCEPT ![c] = new],
         \/ lock = 0 /\ lock' = 1
         \/ lock' = lock /\ (new.pc \in InLock => op[c].pc \in InLock)
         \/ lock' = 0 /\ op[c].pc \in InLock /\ new.pc \notin InLock,
         CoreOK(new, freelist'),
         freelist' = freelist \/ op[c].pc \in InLock
  PROVE  LockOK' /\ lock' \in {0, 1} /\ op' \in [Cpus -> OpStates]
<1>1. op \in [Cpus -> OpStates] /\ lock \in {0, 1}
  BY DEF PhysTypes
<1>2. op' \in [Cpus -> OpStates] /\ op'[c] = new /\ \A d \in Cpus : d # c => op'[d] = op[d]
  BY <1>1
<1>3. lock' \in {0, 1}
  BY <1>1
<1>4. ASSUME NEW d \in Cpus, op'[d].pc \in InLock PROVE lock' = 1
  <2>1. CASE d = c
    BY <1>1, <1>2, <1>4, <2>1 DEF LockOK
  <2>2. CASE d # c
    <3>1. op[d].pc \in InLock /\ lock = 1
      BY <1>2, <1>4, <2>2 DEF LockOK
    <3>2. op[c].pc \notin InLock
      BY <2>2, <3>1 DEF LockOK
    <3> QED
      BY <1>1, <3>1, <3>2
  <2> QED
    BY <2>1, <2>2
<1>5. ASSUME NEW d \in Cpus, d # c, op'[d].pc \in InLock PROVE op'[c].pc \notin InLock
  <2>1. op[d].pc \in InLock /\ lock = 1
    BY <1>2, <1>5 DEF LockOK
  <2>2. op[c].pc \notin InLock
    BY <1>5, <2>1 DEF LockOK
  <2> QED
    BY <1>2, <2>1, <2>2
<1>6. ASSUME NEW d \in Cpus, NEW e \in Cpus, op'[d].pc \in InLock, op'[e].pc \in InLock PROVE d = e
  <2>1. CASE d # c /\ e # c
    BY <1>2, <1>6, <2>1 DEF LockOK
  <2>2. CASE d = c \/ e = c
    BY <1>5, <1>6, <2>2
  <2> QED
    BY <2>1, <2>2
<1>7. ASSUME NEW d \in Cpus PROVE CoreOK(op'[d], freelist')
  <2>1. CASE d = c
    BY <1>2, <2>1
  <2>2. CASE d # c
    <3>1. CoreOK(op[d], freelist) /\ op'[d] = op[d]
      BY <1>2, <2>2 DEF LockOK, CoreOK
    <3>2. CASE freelist' = freelist
      BY <3>1, <3>2
    <3>3. CASE op[c].pc \in InLock
      <4>1. op[d].pc \notin {"commit", "take"}
        BY <2>2, <3>3 DEF LockOK, InLock
      <4> QED
        BY <3>1, <4>1 DEF CoreOK
    <3> QED
      BY <3>2, <3>3
  <2> QED
    BY <2>1, <2>2
<1> QED
  BY <1>2, <1>3, <1>4, <1>6, <1>7 DEF LockOK, CoreOK

(* The blocks in hand follow the state of the core that moves. *)
LEMMA HandsUpdate ==
  ASSUME PhysTypes, HandsOK, NEW c \in Cpus, NEW new \in OpStates, op' = [op EXCEPT ![c] = new]
  PROVE  LET old == <<op[c].ptr, op[c].level>>
             mine == <<new.ptr, new.level>>
         IN  /\ op[c].ptr # NoBlock => old \in BlocksInHand
             /\ op[c].ptr = NoBlock /\ new.ptr = NoBlock => BlocksInHand' = BlocksInHand
             /\ op[c].ptr = NoBlock /\ new.ptr # NoBlock => BlocksInHand' = BlocksInHand \cup {mine}
             /\ op[c].ptr # NoBlock /\ new.ptr = NoBlock => BlocksInHand' = BlocksInHand \ {old}
             /\ op[c].ptr # NoBlock /\ new.ptr = op[c].ptr /\ new.level = op[c].level
                  => BlocksInHand' = BlocksInHand
<1>1. op \in [Cpus -> OpStates]
  BY DEF PhysTypes
<1>2. op'[c] = new /\ \A d \in Cpus : d # c => op'[d] = op[d]
  BY <1>1
<1>3. \A b : b \in BlocksInHand <=> \E d \in Cpus : op[d].ptr # NoBlock /\ b = <<op[d].ptr, op[d].level>>
  BY DEF BlocksInHand
<1>4. \A b : b \in BlocksInHand' <=> \E d \in Cpus : op'[d].ptr # NoBlock /\ b = <<op'[d].ptr, op'[d].level>>
  BY DEF BlocksInHand
<1>5. PICK R : R = {<<op[d].ptr, op[d].level>> : d \in {e \in Cpus : e # c /\ op[e].ptr # NoBlock}}
  OBVIOUS
<1>6. op[c].ptr = NoBlock => BlocksInHand = R
  BY <1>3, <1>5
<1>7. op[c].ptr # NoBlock => BlocksInHand = R \cup {<<op[c].ptr, op[c].level>>}
  BY <1>3, <1>5
<1>8. new.ptr = NoBlock => BlocksInHand' = R
  BY <1>2, <1>4, <1>5
<1>9. new.ptr # NoBlock => BlocksInHand' = R \cup {<<new.ptr, new.level>>}
  BY <1>2, <1>4, <1>5
<1>10. op[c].ptr # NoBlock => <<op[c].ptr, op[c].level>> \notin R
  BY <1>5 DEF HandsOK
<1> QED
  BY <1>6, <1>7, <1>8, <1>9, <1>10

LEMMA HandsStep ==
  ASSUME PhysTypes, HandsOK, NEW c \in Cpus, NEW new \in OpStates, op' = [op EXCEPT ![c] = new],
         \A d \in Cpus \ {c} : op[d].ptr # NoBlock =>
           /\ <<op[d].ptr, op[d].level>> \notin owned'
           /\ \A u \in Span(op[d].ptr, op[d].level) : hdr'[u] = hdr[u],
         new.ptr # NoBlock =>
           /\ <<new.ptr, new.level>> \notin owned'
           /\ \A u \in Span(new.ptr, new.level) : hdr'[u] = Zero
           /\ \A d \in Cpus \ {c} : op[d].ptr # NoBlock =>
                <<op[d].ptr, op[d].level>> # <<new.ptr, new.level>>
  PROVE  HandsOK'
<1>1. op'[c] = new /\ \A d \in Cpus : d # c => op'[d] = op[d]
  BY DEF PhysTypes
<1>2. ASSUME NEW d \in Cpus, op'[d].ptr # NoBlock
      PROVE  /\ <<op'[d].ptr, op'[d].level>> \notin owned'
             /\ \A u \in Span(op'[d].ptr, op'[d].level) : hdr'[u] = Zero
  <2>1. CASE d = c
    BY <1>1, <1>2, <2>1
  <2>2. CASE d # c
    BY <1>1, <1>2, <2>2 DEF HandsOK
  <2> QED
    BY <2>1, <2>2
<1>3. ASSUME NEW d \in Cpus, NEW e \in Cpus, d # e, op'[d].ptr # NoBlock, op'[e].ptr # NoBlock
      PROVE  <<op'[d].ptr, op'[d].level>> # <<op'[e].ptr, op'[e].level>>
  <2>1. CASE d = c
    BY <1>1, <1>3, <2>1
  <2>2. CASE e = c
    BY <1>1, <1>3, <2>2
  <2>3. CASE d # c /\ e # c
    BY <1>1, <1>3, <2>3 DEF HandsOK
  <2> QED
    BY <2>1, <2>2, <2>3
<1> QED
  BY <1>2, <1>3 DEF HandsOK

(* Writing in memory that is not free leaves the free blocks as they were. *)
LEMMA WriteStep ==
  ASSUME NEW T, BuddyOK(freelist, hdr, freeBit, T),
         NEW h \in [Units -> Levels \cup {Zero, Data}],
         \A b \in Free(freelist) : \A u \in Span(b[1], b[2]) : h[u] = hdr[u]
  PROVE  BuddyOK(freelist, h, freeBit, T)
<1>1. ASSUME NEW b \in Free(freelist)
      PROVE  /\ h[b[1]] = b[2] /\ freeBit[b[1]]
             /\ \A u \in Span(b[1], b[2]) : u # b[1] => h[u] = Zero
             /\ b[2] < MAX_LEVEL - 1 => <<Neighbor(b[1], b[2]), b[2]>> \notin Free(freelist)
  <2>1. b[1] \in Span(b[1], b[2])
    BY BlockFacts DEF BuddyOK
  <2>2. /\ hdr[b[1]] = b[2] /\ freeBit[b[1]]
        /\ \A u \in Span(b[1], b[2]) : u # b[1] => hdr[u] = Zero
        /\ b[2] < MAX_LEVEL - 1 => <<Neighbor(b[1], b[2]), b[2]>> \notin Free(freelist)
    BY DEF BuddyOK
  <2> QED
    BY <2>1, <2>2
<1> QED
  BY <1>1 DEF BuddyOK

-----------------------------------------------------------------------------
(* The accounting seen from the allocator *)

LEMMA CallFacts ==
  ASSUME AcctInv, NEW c \in Cpus, NEW o \in Ops, NEW n, Call(c, o, n)
  PROVE  /\ frame[c].pc = "idle" /\ frame'[c].pc # "idle" /\ frame'[c].op = o /\ frame'[c].n = n
         /\ \A d \in Cpus \ {c} : frame'[d] = frame[d]
         /\ held'["committed"] = IF o \in {"uncommit", "uncommit_to_reserved"}
                                 THEN held["committed"] - n ELSE held["committed"]
         /\ held'["reserved"] = IF o \in {"unreserve", "commit_reserved"}
                                THEN held["reserved"] - n ELSE held["reserved"]
         /\ held'["outside"] = IF o \in {"add_total", "add_committed"}
                               THEN held["outside"] - n ELSE held["outside"]
<1>1. frame \in [Cpus -> Frames]
  BY DEF AcctInv, Types
<1>2. FirstStep(o) # "idle"
  BY DEF FirstStep, Source, Ops
<1>3. /\ frame[c].pc = "idle"
      /\ frame' = [frame EXCEPT ![c] =
                     [pc |-> FirstStep(o), op |-> o, n |-> n, seen |-> 0, ok |-> TRUE]]
      /\ held' = [k \in Owned |-> IF k = Source(o) THEN held[k] - n ELSE held[k]]
  BY DEF Call
<1>4. /\ frame'[c].pc = FirstStep(o) /\ frame'[c].op = o /\ frame'[c].n = n
      /\ \A d \in Cpus \ {c} : frame'[d] = frame[d]
  BY <1>1, <1>3
<1>5. \A k \in {"committed", "reserved", "outside"} :
        held'[k] = IF k = Source(o) THEN held[k] - n ELSE held[k]
  BY <1>3 DEF Owned
<1>6. /\ Source(o) = "committed" <=> o \in {"uncommit", "uncommit_to_reserved"}
      /\ Source(o) = "reserved" <=> o \in {"unreserve", "commit_reserved"}
      /\ Source(o) = "outside" <=> o \in {"add_total", "add_committed"}
  BY DEF Source, Ops
<1> QED
  BY <1>2, <1>3, <1>4, <1>5, <1>6

LEMMA StepFacts ==
  ASSUME AcctInv, NEW c \in Cpus, AcctStep(c)
  PROVE  /\ frame[c].pc # "idle"
         /\ \A d \in Cpus \ {c} : frame'[d] = frame[d]
         /\ frame'[c].pc # "idle" =>
              frame'[c].op = frame[c].op /\ frame'[c].n = frame[c].n /\ held' = held
         /\ held'["outside"] = held["outside"] /\ held'["reserved"] >= held["reserved"]
         /\ frame'[c].pc = "idle" /\ frame'[c].ok =>
              /\ frame[c].op \in {"commit", "commit_reserved"} =>
                   held'["committed"] = held["committed"] + frame[c].n
              /\ frame[c].op \in {"reserve", "unreserve", "uncommit", "uncommit_to_reserved", "add_total"}
                   => held'["committed"] = held["committed"]
         /\ frame'[c].pc = "idle" /\ ~frame'[c].ok => held' = held
<1>1. frame \in [Cpus -> Frames] /\ held \in [Owned -> Nat]
  BY DEF AcctInv, Types
<1>2. frame[c].n \in Nat
  BY <1>1, WordAssumption DEF Frames, Word
<1>3. held["outside"] \in Nat /\ held["reserved"] \in Nat /\ held["committed"] \in Nat
  BY <1>1 DEF Owned
<1>4. CASE LoadAvailable(c)
  BY <1>1, <1>3, <1>4 DEF LoadAvailable, Examine, Returned, Frames
<1>5. CASE CasAvailable(c)
  <2>1. frame[c].pc = "cas" /\ held' = held
    BY <1>5 DEF CasAvailable
  <2>2. CASE frame' = [frame EXCEPT ![c].pc = "credit", ![c].seen = 0]
    BY <1>1, <1>3, <2>1, <2>2 DEF Frames
  <2>3. CASE Examine(c, pages["available"])
    BY <1>1, <1>3, <2>1, <2>3 DEF Examine, Returned, Frames
  <2> QED
    BY <1>5, <2>2, <2>3 DEF CasAvailable
<1>6. CASE Debit(c)
  BY <1>1, <1>3, <1>6 DEF Debit, Frames
<1>7. CASE Grow(c)
  BY <1>1, <1>3, <1>7 DEF Grow, Frames
<1>8. CASE Credit(c)
  <2>1. /\ frame[c].pc = "credit" /\ frame' = [frame EXCEPT ![c] = Returned(TRUE)]
        /\ held' = [k \in Owned |-> IF k = Target(frame[c].op) THEN held[k] + frame[c].n ELSE held[k]]
    BY <1>8 DEF Credit, Credited
  <2>2. \A k \in {"committed", "reserved", "outside"} :
          held'[k] = IF k = Target(frame[c].op) THEN held[k] + frame[c].n ELSE held[k]
    BY <2>1 DEF Owned
  <2>3. /\ Target(frame[c].op) # "outside"
        /\ frame[c].op \in {"commit", "commit_reserved"} => Target(frame[c].op) = "committed"
        /\ frame[c].op \in {"reserve", "unreserve", "uncommit", "uncommit_to_reserved", "add_total"}
             => Target(frame[c].op) # "committed"
    BY DEF Target
  <2>4. frame'[c] = Returned(TRUE) /\ \A d \in Cpus \ {c} : frame'[d] = frame[d]
    BY <1>1, <2>1
  <2>5. frame'[c].pc = "idle" /\ frame'[c].ok = TRUE
    BY <2>4 DEF Returned
  <2>6. held'["outside"] = held["outside"] /\ held'["reserved"] >= held["reserved"]
    BY <1>2, <1>3, <2>2, <2>3
  <2> QED
    BY <2>1, <2>2, <2>3, <2>4, <2>5, <2>6
<1> QED
  BY <1>4, <1>5, <1>6, <1>7, <1>8 DEF AcctStep

AcctMove == AcctNext \/ UNCHANGED acctVars

LEMMA AcctMoves == ASSUME AcctInv, AcctMove PROVE AcctInv'
BY AcctInvStep DEF AcctMove

(* Steps that move no page between the freelists and the callers *)
LEMMA CountKept ==
  ASSUME PagesExact, NEW c \in Cpus, ~Granted(c), ~Granted(c)',
         \A d \in Cpus \ {c} : op'[d] = op[d] /\ frame'[d] = frame[d],
         FreePages' = FreePages, MemUnits' = MemUnits, DoneUnits' = DoneUnits,
         held'["committed"] = held["committed"], held'["outside"] = held["outside"]
  PROVE  PagesExact'
<1>1. /\ PagesIn(MemUnits)' = PagesIn(MemUnits)
      /\ PagesIn(DoneUnits)' = PagesIn(DoneUnits)
  BY DEF PagesIn
<1>2. \A d \in Cpus : Granted(d)' <=> Granted(d)
  BY DEF Granted
<1>3. \A d \in Cpus : Granted(d) => d # c /\ op'[d] = op[d]
  OBVIOUS
<1>4. (\A d \in Cpus : ~Granted(d)') =>
       Cardinality(FreePages)' + held'["committed"] = Cardinality(PagesIn(MemUnits))'
  BY <1>1, <1>2 DEF PagesExact
<1>5. ASSUME NEW d \in Cpus, Granted(d)'
      PROVE  Cardinality(FreePages)' + held'["committed"]
               = Cardinality(PagesIn(MemUnits))' + PagesToCommit(op'[d].level, op'[d].at)
  BY <1>1, <1>2, <1>3, <1>5 DEF PagesExact
<1>6. held'["outside"] + Cardinality(PagesIn(DoneUnits))' = MaxPages
  BY <1>1 DEF PagesExact
<1> QED
  BY <1>4, <1>5, <1>6 DEF PagesExact, PagesToCommit, get_page_count_by_level

LEMMA FramesStep ==
  ASSUME PhysTypes, FramesOK, NEW c \in Cpus, FrameFits(op'[c], frame'[c]),
         \A d \in Cpus \ {c} : op'[d] = op[d] /\ frame'[d] = frame[d]
  PROVE  FramesOK'
<1> SUFFICES ASSUME NEW d \in Cpus PROVE FrameFits(op'[d], frame'[d])
  BY DEF FramesOK, FrameFits, PagesToCommit, get_page_count_by_level
<1>1. CASE d = c
  BY <1>1
<1>2. CASE d # c
  <2>1. op'[d] = op[d] /\ frame'[d] = frame[d] /\ FrameFits(op[d], frame[d])
    BY <1>2 DEF FramesOK
  <2> QED
    BY <2>1
<1> QED
  BY <1>1, <1>2

-----------------------------------------------------------------------------
(* The parts of the invariant in the next state *)

LEMMA FreePagesNext == FreePages' = BigPages(freelist')
BY DEF FreePages, BigPages, Big, PagesIn, Area, Free, FreeBlocks, Span, UnitsPerPage, Levels

LEMMA BuddyNext ==
  ASSUME PhysTypes', LockOK', HandsOK', BootOK', BuddyOK(freelist', hdr', freeBit', Taken'),
         Area(Free(freelist') \cup Taken') = MemUnits'
  PROVE  BuddyInv'
<1>1. FreeBlocks' = Free(freelist')
  BY DEF FreeBlocks, Free, Levels
<1>2. Area(FreeBlocks \cup Taken)' = Area(Free(freelist') \cup Taken')
  BY <1>1 DEF Area, Span
<1>3. BuddyOK(freelist, hdr, freeBit, Taken)'
  BY DEF BuddyOK, Free, Area, Blocks, Span, Apart, Neighbor, AlignDown, NoDuplicates, Levels,
         Units, Zero, Data
<1> QED
  BY <1>2, <1>3 DEF BuddyInv

(* Steps that leave the allocator's data and the boot alone *)
LEMMA SameMemory ==
  ASSUME BuddyInv, UNCHANGED <<freelist, boot>>
  PROVE  /\ FreePages' = FreePages /\ MemUnits' = MemUnits /\ DoneUnits' = DoneUnits
         /\ Area(Free(freelist') \cup Taken) = MemUnits' /\ (Booted' <=> Booted)
<1>1. DoneUnits' = DoneUnits
  BY DEF DoneUnits
<1>2. MemUnits' = MemUnits
  BY <1>1 DEF MemUnits
<1>3. FreePages' = FreePages
  BY FreePagesAre, FreePagesNext
<1>4. FreeBlocks = Free(freelist)
  BY DEF FreeBlocks, Free
<1> QED
  BY <1>1, <1>2, <1>3, <1>4 DEF BuddyInv, Booted

LEMMA StillStep ==
  ASSUME BuddyInv, UNCHANGED <<buddyVars, lock, op, owned, boot>>
  PROVE  BuddyInv'
<1>1. UNCHANGED <<freelist, hdr, freeBit>>
  BY DEF buddyVars
<1>2. Taken' = Taken
  BY DEF Taken, BlocksInHand
<1>3. PhysTypes' /\ LockOK' /\ HandsOK'
  BY <1>1 DEF BuddyInv, PhysTypes, LockOK, HandsOK, OpStates
<1>4. BootOK'
  BY <1>1, SameMemory DEF BuddyInv, BootOK
<1>5. BuddyOK(freelist', hdr', freeBit', Taken') /\ Area(Free(freelist') \cup Taken') = MemUnits'
  BY <1>1, <1>2, SameMemory DEF BuddyInv
<1> QED
  BY <1>3, <1>4, <1>5, BuddyNext

(* Once memory is in, the boot has nothing more to keep. *)
LEMMA BootedOK ==
  ASSUME BuddyInv, Booted, UNCHANGED boot
  PROVE  BootOK' /\ boot' \in [region : 1..(Len(Regions) + 1), started : BOOLEAN, at : Nat]
BY DEF BuddyInv, PhysTypes, BootOK, Booted

(* A core without a block in hand that takes none *)
LEMMA QuietStep ==
  ASSUME BuddyInv, Booted, NEW c \in Cpus, NEW new \in OpStates, op' = [op EXCEPT ![c] = new],
         op[c].ptr = NoBlock, new.ptr = NoBlock, UNCHANGED <<buddyVars, owned, boot>>,
         \/ lock = 0 /\ lock' = 1
         \/ lock' = lock /\ (new.pc \in InLock => op[c].pc \in InLock)
         \/ lock' = 0 /\ op[c].pc \in InLock /\ new.pc \notin InLock,
         CoreOK(new, freelist)
  PROVE  BuddyInv'
<1>1. UNCHANGED <<freelist, hdr, freeBit>> /\ PhysTypes /\ LockOK /\ HandsOK
  BY DEF buddyVars, BuddyInv
<1>2. LockOK' /\ lock' \in {0, 1} /\ op' \in [Cpus -> OpStates]
  BY <1>1, LockStep
<1>3. HandsOK'
  <2>1. \A d \in Cpus \ {c} : op[d].ptr # NoBlock =>
          /\ <<op[d].ptr, op[d].level>> \notin owned'
          /\ \A u \in Span(op[d].ptr, op[d].level) : hdr'[u] = hdr[u]
    BY <1>1 DEF HandsOK
  <2> QED
    BY <1>1, <2>1, HandsStep
<1>4. Taken' = Taken
  BY <1>1, HandsUpdate DEF Taken
<1>5. BootOK' /\ PhysTypes'
  BY <1>1, <1>2, BootedOK DEF PhysTypes, OpStates
<1>6. BuddyOK(freelist', hdr', freeBit', Taken') /\ Area(Free(freelist') \cup Taken') = MemUnits'
  BY <1>1, <1>4, SameMemory DEF BuddyInv
<1> QED
  BY <1>2, <1>3, <1>5, <1>6, BuddyNext

LEMMA CountType ==
  ASSUME NEW level \in Levels, level >= PAGE_LEVEL
  PROVE  get_page_count_by_level(level) \in 1..(2 ^ MAX_LEVEL)
<1>1. PICK k \in Nat : k = level - PAGE_LEVEL /\ k <= MAX_LEVEL /\ MAX_LEVEL \in Nat
  BY LevelAssumption DEF Levels
<1>2. 2 ^ k \in Nat \ {0} /\ 2 ^ k <= 2 ^ MAX_LEVEL
  BY <1>1, PowMultiple
<1>3. 2 ^ MAX_LEVEL \in Nat
  BY <1>1, PowType
<1> QED
  BY <1>1, <1>2, <1>3 DEF get_page_count_by_level

(* A claim is one term of the sum. *)
LEMMA ClaimedFacts ==
  ASSUME PhysTypes, FramesOK
  PROVE  /\ Claimed \in Nat
         /\ \A c \in Cpus : op[c].pc = "search" /\ op[c].reserved =>
              get_page_count_by_level(op[c].level) <= Claimed
<1> DEFINE f == [c \in Cpus |-> IF op[c].pc = "search" /\ op[c].reserved
                                THEN get_page_count_by_level(op[c].level) ELSE 0]
           b == 2 ^ MAX_LEVEL
<1>1. b \in Nat
  BY LevelAssumption, PowType
<1>2. \A c \in Cpus : op[c].reserved => get_page_count_by_level(op[c].level) \in 1..b
  BY CountType DEF PhysTypes, OpStates, FramesOK, FrameFits
<1> HIDE DEF b
<1>3. f \in [Cpus -> 0..b]
  BY <1>1, <1>2
<1>4. Claimed = SumOver(f)
  BY DEF Claimed
<1>5. \A c \in Cpus : op[c].pc = "search" /\ op[c].reserved =>
        f[c] = get_page_count_by_level(op[c].level)
  OBVIOUS
<1> HIDE DEF f
<1>6. SumOver(f) \in Nat
  BY <1>1, <1>3, SumType, CpusAssumption
<1>7. \A c \in Cpus : f[c] <= SumOver(f)
  BY <1>1, <1>3, SumAtLeastTerm, CpusAssumption
<1> QED
  BY <1>4, <1>5, <1>6, <1>7

(* Reservations do not go away under a core that claims them. *)
LEMMA ClaimsStep ==
  ASSUME PhysTypes, LockOK, FramesOK, ClaimsOK, NEW c \in Cpus,
         held["reserved"] \in Int, held'["reserved"] \in Int,
         \A d \in Cpus \ {c} : op'[d] = op[d],
         held'["reserved"] >= held["reserved"] \/ op[c].pc \in InLock,
         op'[c].pc = "search" /\ op'[c].reserved =>
           get_page_count_by_level(op'[c].level) <= held'["reserved"]
  PROVE  ClaimsOK'
<1> SUFFICES ASSUME NEW d \in Cpus \ {c}, op[d].pc = "search", op[d].reserved
             PROVE  get_page_count_by_level(op[d].level) <= held'["reserved"]
  BY DEF ClaimsOK, get_page_count_by_level
<1>1. get_page_count_by_level(op[d].level) \in Int
  BY CountType DEF PhysTypes, OpStates, FramesOK, FrameFits
<1>2. get_page_count_by_level(op[d].level) <= held["reserved"]
  BY DEF ClaimsOK
<1>3. op[c].pc \notin InLock
  BY DEF LockOK, InLock
<1> QED
  BY <1>1, <1>2, <1>3

-----------------------------------------------------------------------------
(* Allocation *)

(* A step keeps the allocator in order and, seen from the counters, is one *)
(* of the accounting.                                                      *)
Moved == BuddyInv' /\ FramesOK' /\ ClaimsOK' /\ PagesExact' /\ AcctMove

LEMMA HeldType ==
  ASSUME AcctInv
  PROVE  /\ held["reserved"] \in Nat /\ held["committed"] \in Nat /\ held["outside"] \in Nat
         /\ frame \in [Cpus -> Frames]
BY DEF AcctInv, Types, Owned

LEMMA SearchStarts ==
  ASSUME PhysInv, NEW c \in Cpus, Ready(c), NEW level \in Levels, NEW reserved \in BOOLEAN,
         reserved => /\ level >= PAGE_LEVEL
                     /\ get_page_count_by_level(level) <= held["reserved"],
         LockOrHalt(c, Search(level, reserved)), UNCHANGED <<acctVars, buddyVars, owned, boot>>
  PROVE  Moved
<1>1. PICK new \in OpStates :
        /\ op' = [op EXCEPT ![c] = new] /\ new.ptr = NoBlock /\ new.pc \in {"search", "halted"}
        /\ new.level = level /\ new.reserved = reserved
        /\ (lock = 0 /\ lock' = 1) \/ (lock' = lock /\ new.pc = "halted")
  <2>1. 0 \in Levels
    BY LevelAssumption DEF Levels
  <2>2. PICK s : s = Search(level, reserved)
    OBVIOUS
  <2>3. /\ s \in OpStates /\ s.pc = "search" /\ s.ptr = NoBlock
        /\ s.level = level /\ s.reserved = reserved
    BY <2>1, <2>2 DEF Search, Idle, OpStates, InLock
  <2>4. PICK h : h = [s EXCEPT !.pc = "halted"]
    OBVIOUS
  <2>5. /\ h \in OpStates /\ h.pc = "halted" /\ h.ptr = NoBlock
        /\ h.level = level /\ h.reserved = reserved
    BY <2>3, <2>4 DEF OpStates
  <2> QED
    BY <2>2, <2>3, <2>4, <2>5 DEF LockOrHalt
<1>2. /\ PhysTypes /\ LockOK /\ AcctInv /\ BuddyInv /\ FramesOK /\ ClaimsOK /\ PagesExact /\ Booted
      /\ op[c].pc = "idle" /\ frame[c].pc = "idle" /\ op[c].ptr = NoBlock
  BY DEF PhysInv, BuddyInv, LockOK, Ready
<1>3. op'[c] = new /\ (\A d \in Cpus \ {c} : op'[d] = op[d]) /\ UNCHANGED <<pages, frame, held>>
      /\ UNCHANGED <<freelist, boot>>
  BY <1>1, <1>2 DEF PhysTypes, acctVars, buddyVars
<1>4. BuddyInv'
  BY <1>1, <1>2, QuietStep DEF CoreOK, InLock
<1>5. FramesOK'
  BY <1>1, <1>2, <1>3, FramesStep DEF FrameFits
<1>6. ClaimsOK'
  BY <1>1, <1>2, <1>3, HeldType, ClaimsStep
<1>7. PagesExact'
  BY <1>1, <1>2, <1>3, SameMemory, CountKept DEF Granted
<1> QED
  BY <1>4, <1>5, <1>6, <1>7 DEF Moved, AcctMove

LEMMA AllocStep ==
  ASSUME PhysInv, NEW c \in Cpus, NEW size \in Sizes, phys_alloc(c, size) \/ phys_alloc_reserved(c, size)
  PROVE  Moved
<1>1. size \in Nat
  BY BootAssumption
<1>2. CASE phys_alloc(c, size)
  <2>1. get_level_by_size(size) \in Levels
    BY <1>1, <1>2, LevelOfSize DEF phys_alloc
  <2> QED
    BY <1>2, <2>1, SearchStarts DEF phys_alloc
<1>3. CASE phys_alloc_reserved(c, size)
  <2>1. PICK level : level = get_page_level_by_size(size)
    OBVIOUS
  <2>2. level \in Levels /\ level >= PAGE_LEVEL
    BY <1>1, <1>3, <2>1, LevelOfSize DEF phys_alloc_reserved
  <2>3. get_page_count_by_level(level) \in Nat
    BY <2>2, CountType
  <2>4. Claimed \in Nat /\ held["reserved"] \in Nat
    BY ClaimedFacts, HeldType DEF PhysInv, BuddyInv
  <2>5. get_page_count_by_level(level) <= held["reserved"]
    BY <1>3, <2>1, <2>3, <2>4 DEF phys_alloc_reserved
  <2> QED
    BY <1>3, <2>1, <2>2, <2>5, SearchStarts DEF phys_alloc_reserved
<1> QED
  BY <1>2, <1>3

LEMMA CommitType ==
  ASSUME NEW level \in Levels, NEW at \in Levels
  PROVE  PagesToCommit(level, at) \in Nat
BY CountType, LevelAssumption DEF PagesToCommit, Levels

(* A page the counters promise is free: the callers have committed at most *)
(* what is not.                                                            *)
LEMMA PromisesHold ==
  ASSUME PhysInv
  PROVE  PromisesBacked
<1>1. PICK av, re, co, to, ca, cr, cc, dr, dc, g, hr, hc, ho :
        /\ av = pages["available"] /\ re = pages["reserved"]
        /\ co = pages["committed"] /\ to = pages["total"]
        /\ ca = Crediting("available") /\ cr = Crediting("reserved") /\ cc = Crediting("committed")
        /\ dr = Debiting("reserved") /\ dc = Debiting("committed") /\ g = Growing
        /\ hr = held["reserved"] /\ hc = held["committed"] /\ ho = held["outside"]
  OBVIOUS
<1>2. /\ av \in Nat /\ re \in Nat /\ co \in Nat /\ to \in Nat /\ hc \in Nat /\ ho \in Nat
      /\ ca \in Nat /\ cr \in Nat /\ cc \in Nat /\ dc \in Nat /\ g \in Nat /\ MaxPages \in Nat
  BY <1>1, SumsType, HeldType, PagesAssumption DEF PhysInv, AcctInv, Types, Counters
<1>3. av + re + co + ca + cr + cc = to /\ co = hc + dc /\ to + ho + g = MaxPages
  BY <1>1 DEF PhysInv, AcctInv, Conservation, Backed
<1>4. PICK free, mem, done : /\ free = Cardinality(FreePages) /\ mem = Cardinality(PagesIn(MemUnits))
                             /\ done = Cardinality(PagesIn(DoneUnits))
  OBVIOUS
<1>5. free \in Nat /\ mem \in Nat /\ done \in Nat /\ done <= mem
  <2>1. DoneUnits \subseteq MemUnits
    BY DEF MemUnits
  <2> QED
    BY <1>4, <2>1, PagesFinite, PagesSubset DEF FreePages
<1>6. ho + done = MaxPages
  BY <1>1, <1>4 DEF PhysInv, PagesExact
<1>7. free + hc >= mem
  <2>1. CASE \A c \in Cpus : ~Granted(c)
    BY <1>1, <1>2, <1>4, <1>5, <2>1 DEF PhysInv, PagesExact
  <2>2. CASE \E c \in Cpus : Granted(c)
    <3>1. PICK c \in Cpus : free + hc = mem + PagesToCommit(op[c].level, op[c].at)
      BY <1>1, <1>4, <2>2 DEF PhysInv, PagesExact
    <3>2. PagesToCommit(op[c].level, op[c].at) \in Nat
      BY CommitType DEF PhysInv, BuddyInv, PhysTypes, OpStates
    <3> QED
      BY <1>2, <1>5, <3>1, <3>2
  <2> QED
    BY <2>1, <2>2
<1>8. av + re + ca + cr <= free
  BY <1>2, <1>3, <1>5, <1>6, <1>7
<1> QED
  BY <1>1, <1>4, <1>8 DEF PromisesBacked

(* phys.c:113: a reserved page finds a free page. *)
LEMMA ReservedIsFree ==
  ASSUME PhysInv, NEW c \in Cpus, op[c].pc = "search", op[c].reserved, op[c].level = PAGE_LEVEL
  PROVE  NonEmptyFrom(op[c].level) # {}
<1> SUFFICES ASSUME NonEmptyFrom(PAGE_LEVEL) = {} PROVE FALSE
  OBVIOUS
<1>1. FreePages = {}
  <2>1. \A l \in Levels : l >= PAGE_LEVEL => l \in PAGE_LEVEL..(MAX_LEVEL - 1)
    BY LevelAssumption DEF Levels
  <2>2. \A l \in Levels : l >= PAGE_LEVEL => freelist[l] = <<>>
    BY <2>1 DEF NonEmptyFrom
  <2>3. Range(<<>>) = {}
    BY DEF Range
  <2>4. \A b \in Free(freelist) : b[2] \in Levels /\ b[1] \in Range(freelist[b[2]])
    BY DEF Free
  <2>5. Big(Free(freelist)) = {}
    BY <2>2, <2>3, <2>4 DEF Big
  <2>6. FreePages = PagesIn({})
    BY <2>5, FreePagesAre DEF BigPages, Area
  <2> QED
    BY <2>6 DEF PagesIn
<1>2. Cardinality(FreePages) = 0
  BY <1>1, FS_EmptySet
<1>3. get_page_count_by_level(PAGE_LEVEL) = 1
  <2>1. PAGE_LEVEL - PAGE_LEVEL = 0
    BY LevelAssumption
  <2> QED
    BY <2>1, PowZero DEF get_page_count_by_level
<1>4. 1 <= held["reserved"]
  BY <1>3 DEF PhysInv, ClaimsOK
<1>5. pages["reserved"] = held["reserved"] + Debiting("reserved")
  BY DEF PhysInv, AcctInv, Backed
<1>6. /\ Debiting("reserved") \in Nat /\ Crediting("available") \in Nat
      /\ Crediting("reserved") \in Nat /\ pages["available"] \in Nat /\ held["reserved"] \in Nat
  BY SumsType, HeldType DEF PhysInv, AcctInv, Types, Counters
<1> QED
  BY <1>2, <1>4, <1>5, <1>6, PromisesHold DEF PromisesBacked

(* Once memory is in, all there is of it is counted. *)
LEMMA MemoryCounted ==
  ASSUME PhysInv, Booted
  PROVE  MemUnits = DoneUnits /\ Cardinality(PagesIn(MemUnits)) <= MaxPages
<1>1. MemUnits = DoneUnits
  BY DEF MemUnits, PhysInv, BuddyInv, BootOK
<1>2. /\ held["outside"] + Cardinality(PagesIn(DoneUnits)) = MaxPages
      /\ held["outside"] \in Nat /\ Cardinality(PagesIn(DoneUnits)) \in Nat
  BY HeldType, PagesFinite DEF PhysInv, PagesExact
<1> QED
  BY <1>1, <1>2, PagesAssumption

(* The pages of an allocation are among those of the block it takes them   *)
(* from, so the accounting can count them.                                 *)
LEMMA CommitInWord ==
  ASSUME PhysInv, Booted, NEW level \in Levels, NEW at \in Levels, level <= at,
         freelist[at] # <<>>
  PROVE  PagesToCommit(level, at) \in Word
<1>1. CASE ~(at >= PAGE_LEVEL)
  BY <1>1, NoPages, WordAssumption, PagesAssumption DEF Word
<1>2. CASE at >= PAGE_LEVEL
  <2>1. PICK low : low = PageOrMore(level)
    OBVIOUS
  <2>2. /\ low \in Levels /\ low \in Nat /\ PAGE_LEVEL <= low /\ low <= at
        /\ PagesToCommit(level, at) = get_page_count_by_level(low)
    BY <1>2, <2>1, PageOrMoreFacts
  <2>3. get_page_count_by_level(low) <= get_page_count_by_level(at)
    <3>1. PICK j \in Nat, k \in Nat : j = low - PAGE_LEVEL /\ k = at - PAGE_LEVEL /\ j <= k
      BY <1>2, <2>2, LevelAssumption DEF Levels
    <3> QED
      BY <3>1, PowMultiple DEF get_page_count_by_level
  <2>4. PICK ptr, head : ptr = Head(freelist[at]) /\ head = <<ptr, at>>
    OBVIOUS
  <2>5. head \in Free(freelist) /\ head \in Blocks
    BY <2>4, HeadIsFree DEF PhysInv, BuddyInv
  <2>6. Span(head[1], at) \subseteq MemUnits
    <3>1. Free(freelist) = FreeBlocks
      BY DEF Free, FreeBlocks
    <3>2. Span(head[1], head[2]) \subseteq Area(FreeBlocks \cup Taken)
      BY <2>5, <3>1 DEF Area
    <3> QED
      BY <2>4, <3>2 DEF PhysInv, BuddyInv
  <2>7. Cardinality(PagesIn(Span(head[1], at))) = get_page_count_by_level(at)
    <3>1. head[1] \in Nat /\ at \in Nat /\ head[1] % 2 ^ at = 0 /\ head[1] + 2 ^ at <= NumUnits
      BY <2>4, <2>5, BlockFacts
    <3> QED
      BY <1>2, <3>1, PagesOfBlock
  <2>8. get_page_count_by_level(at) <= Cardinality(PagesIn(MemUnits))
    BY <2>6, <2>7, PagesSubset
  <2>9. /\ get_page_count_by_level(low) \in Nat /\ get_page_count_by_level(at) \in Nat
        /\ Cardinality(PagesIn(MemUnits)) \in Nat /\ Cardinality(PagesIn(MemUnits)) <= MaxPages
    BY <1>2, <2>2, CountType, PagesFinite, MemoryCounted
  <2> QED
    BY <2>2, <2>3, <2>8, <2>9, WordAssumption, PagesAssumption DEF Word
<1> QED
  BY <1>1, <1>2

LEMMA CriticalFacts ==
  ASSUME PhysInv, NEW c \in Cpus, op[c].pc # "idle"
  PROVE  /\ PhysTypes /\ LockOK /\ HandsOK /\ AcctInv /\ BuddyInv /\ FramesOK /\ ClaimsOK
         /\ PagesExact /\ Booted /\ op[c] \in OpStates
         /\ op[c].level \in Levels /\ op[c].at \in Levels /\ op[c].reserved \in BOOLEAN
<1>1. PhysTypes /\ BootOK
  BY DEF PhysInv, BuddyInv
<1>2. Booted
  BY <1>1 DEF BootOK, Idle
<1> QED
  BY <1>1, <1>2 DEF PhysInv, BuddyInv, PhysTypes, OpStates

(* Dropping the lock without a block *)
LEMMA UnlockStep ==
  ASSUME PhysInv, NEW c \in Cpus, op[c].pc \in {"search", "commit"}, frame[c].pc = "idle",
         ~Granted(c), Unlock(c), UNCHANGED <<acctVars, buddyVars, owned, boot>>
  PROVE  Moved
<1>1. /\ PhysTypes /\ LockOK /\ AcctInv /\ BuddyInv /\ FramesOK /\ ClaimsOK /\ PagesExact /\ Booted
      /\ op[c].pc \in InLock /\ op[c].ptr = NoBlock
  BY CriticalFacts DEF InLock, LockOK
<1>2. PICK new : new = Idle
  OBVIOUS
<1>3. new \in OpStates /\ new.pc = "idle" /\ new.ptr = NoBlock /\ ~new.reserved
  BY <1>2, LevelAssumption DEF Idle, OpStates, Levels
<1>4. /\ op' = [op EXCEPT ![c] = new] /\ lock' = 0
      /\ UNCHANGED <<pages, frame, held>> /\ UNCHANGED <<freelist, boot>>
  BY <1>2 DEF Unlock, acctVars, buddyVars
<1>5. op'[c] = new /\ (\A d \in Cpus \ {c} : op'[d] = op[d])
  BY <1>1, <1>4 DEF PhysTypes
<1>6. BuddyInv'
  BY <1>1, <1>3, <1>4, QuietStep DEF CoreOK, InLock
<1>7. FramesOK'
  BY <1>1, <1>3, <1>4, <1>5, FramesStep DEF FrameFits
<1>8. ClaimsOK'
  BY <1>1, <1>3, <1>4, <1>5, HeldType, ClaimsStep
<1>9. PagesExact'
  BY <1>1, <1>3, <1>4, <1>5, SameMemory, CountKept DEF Granted
<1> QED
  BY <1>4, <1>6, <1>7, <1>8, <1>9 DEF Moved, AcctMove, acctVars

LEMMA RefusedStep == ASSUME PhysInv, NEW c \in Cpus, AllocRefused(c) PROVE Moved
BY UnlockStep DEF AllocRefused, Granted

LEMMA SearchStep == ASSUME PhysInv, NEW c \in Cpus, AllocSearch(c) PROVE Moved
<1>1. op[c].pc = "search" /\ UNCHANGED <<buddyVars, owned, boot>> /\ UNCHANGED <<freelist, boot>>
  BY DEF AllocSearch, buddyVars
<1>2. /\ PhysTypes /\ LockOK /\ AcctInv /\ BuddyInv /\ FramesOK /\ ClaimsOK /\ PagesExact /\ Booted
      /\ op[c].pc \in InLock /\ op[c].ptr = NoBlock /\ frame[c].pc = "idle" /\ ~Granted(c)
      /\ op[c] \in OpStates /\ (op[c].reserved => op[c].level >= PAGE_LEVEL)
  BY <1>1, CriticalFacts DEF InLock, LockOK, FramesOK, FrameFits, Granted
<1>3. PICK level, reserved, at :
        /\ level \in Levels /\ reserved \in BOOLEAN
        /\ level = op[c].level /\ reserved = op[c].reserved
        /\ at = CHOOSE l \in NonEmptyFrom(level) : \A m \in NonEmptyFrom(level) : l <= m
  <2>1. op[c].level \in Levels /\ op[c].reserved \in BOOLEAN
    BY <1>2 DEF OpStates
  <2> QED
    BY <2>1
<1>4. PICK n : n = PagesToCommit(level, at)
  OBVIOUS
<1>5. CASE NonEmptyFrom(level) = {}
  <2>1. ~(reserved /\ level = PAGE_LEVEL)
    BY <1>1, <1>3, <1>5, ReservedIsFree
  <2>2. Unlock(c) /\ UNCHANGED acctVars
    BY <1>3, <1>5, <2>1 DEF AllocSearch
  <2> QED
    BY <1>1, <1>2, <2>2, UnlockStep
<1>6. CASE NonEmptyFrom(level) # {}
  <2>1. at \in Levels /\ level <= at /\ freelist[at] # <<>>
    BY <1>3, <1>6, ClosestLevel
  <2>2. n \in Word /\ n \in Nat
    BY <1>2, <1>3, <1>4, <2>1, CommitInWord, CommitType
  <2>3. CASE n > 0
    <3>1. PICK o \in {"commit", "commit_reserved"} :
            /\ Call(c, o, n) /\ o = (IF reserved THEN "commit_reserved" ELSE "commit")
            /\ op' = [op EXCEPT ![c].pc = "commit", ![c].at = at] /\ lock' = lock
      BY <1>3, <1>4, <1>6, <2>3 DEF AllocSearch
    <3>2. PICK new : new = [op[c] EXCEPT !.pc = "commit", !.at = at]
      OBVIOUS
    <3>3. /\ new \in OpStates /\ new.pc = "commit" /\ new.at = at /\ new.level = level
          /\ new.ptr = NoBlock /\ new.reserved = reserved
      BY <1>2, <1>3, <2>1, <3>2 DEF OpStates, InLock
    <3>4. op' = [op EXCEPT ![c] = new] /\ op'[c] = new /\ \A d \in Cpus \ {c} : op'[d] = op[d]
      BY <1>2, <3>1, <3>2 DEF PhysTypes
    <3>5. BuddyInv'
      BY <1>1, <1>2, <2>1, <3>1, <3>3, <3>4, QuietStep DEF CoreOK, InLock
    <3>6. n <= held["reserved"] \/ ~reserved
      BY <1>1, <1>2, <1>3, <1>4 DEF ClaimsOK, PagesToCommit
    <3>7. AcctNext
      BY <2>2, <3>1, <3>6 DEF AcctNext, Commit, CommitReserved
    <3>8. /\ frame'[c].pc # "idle" /\ frame'[c].op = o /\ frame'[c].n = n
          /\ (\A d \in Cpus \ {c} : frame'[d] = frame[d])
          /\ held'["committed"] = held["committed"] /\ held'["outside"] = held["outside"]
      <4>1. o \in Ops
        BY DEF Ops
      <4> QED
        BY <1>2, <3>1, <4>1, CallFacts
    <3>9. FrameFits(op'[c], frame'[c])
      BY <1>2, <1>3, <1>4, <3>3, <3>4, <3>8 DEF FrameFits
    <3>10. FramesOK'
      BY <1>2, <3>4, <3>8, <3>9, FramesStep
    <3>11. held["reserved"] \in Int /\ held'["reserved"] \in Int
      <4>1. AcctInv'
        BY <1>2, <3>7, AcctMoves DEF AcctMove
      <4> QED
        BY <1>2, <4>1 DEF AcctInv, Types, Owned
    <3>12. ClaimsOK'
      BY <1>2, <3>3, <3>4, <3>11, ClaimsStep
    <3>13. PagesExact'
      BY <1>1, <1>2, <3>4, <3>8, SameMemory, CountKept DEF Granted
    <3> QED
      BY <3>5, <3>7, <3>10, <3>12, <3>13 DEF Moved, AcctMove
  <2>4. CASE n = 0
    <3>1. /\ op' = [op EXCEPT ![c].pc = "take", ![c].at = at] /\ lock' = lock
          /\ UNCHANGED acctVars /\ UNCHANGED <<pages, frame, held>>
      BY <1>3, <1>4, <1>6, <2>4 DEF AllocSearch, acctVars
    <3>2. PICK new : new = [op[c] EXCEPT !.pc = "take", !.at = at]
      OBVIOUS
    <3>3. /\ new \in OpStates /\ new.pc = "take" /\ new.at = at /\ new.level = level
          /\ new.ptr = NoBlock /\ new.reserved = reserved
      BY <1>2, <1>3, <2>1, <3>2 DEF OpStates, InLock
    <3>4. op' = [op EXCEPT ![c] = new] /\ op'[c] = new /\ \A d \in Cpus \ {c} : op'[d] = op[d]
      BY <1>2, <3>1, <3>2 DEF PhysTypes
    <3>5. BuddyInv'
      BY <1>1, <1>2, <2>1, <3>1, <3>3, <3>4, QuietStep DEF CoreOK, InLock
    <3>6. FramesOK'
      BY <1>2, <1>3, <1>4, <2>4, <3>1, <3>3, <3>4, FramesStep DEF FrameFits
    <3>7. ClaimsOK'
      <4>1. held' = held /\ held["reserved"] \in Int
        BY <1>2, <3>1, HeldType
      <4> QED
        BY <1>2, <3>3, <3>4, <4>1, ClaimsStep
    <3>8. PagesExact'
      BY <1>1, <1>2, <3>1, <3>3, <3>4, SameMemory, CountKept DEF Granted
    <3> QED
      BY <3>1, <3>5, <3>6, <3>7, <3>8 DEF Moved, AcctMove
  <2> QED
    BY <2>2, <2>3, <2>4
<1> QED
  BY <1>5, <1>6

LEMMA SameBoot ==
  ASSUME UNCHANGED boot
  PROVE  MemUnits' = MemUnits /\ DoneUnits' = DoneUnits
<1>1. DoneUnits' = DoneUnits
  BY DEF DoneUnits
<1> QED
  BY <1>1 DEF MemUnits

(* Steps after which no page is committed before it leaves the freelists *)
LEMMA CountSettled ==
  ASSUME PagesExact, \A d \in Cpus : ~Granted(d)', UNCHANGED boot,
         held'["outside"] = held["outside"],
         Cardinality(BigPages(freelist')) + held'["committed"] = Cardinality(PagesIn(MemUnits))
  PROVE  PagesExact'
<1>1. MemUnits' = MemUnits /\ DoneUnits' = DoneUnits /\ FreePages' = BigPages(freelist')
  BY SameBoot, FreePagesNext
<1>2. /\ PagesIn(MemUnits)' = PagesIn(MemUnits)
      /\ PagesIn(DoneUnits)' = PagesIn(DoneUnits)
  BY <1>1 DEF PagesIn
<1>3. Cardinality(FreePages)' + held'["committed"] = Cardinality(PagesIn(MemUnits))'
  BY <1>1, <1>2
<1>4. held'["outside"] + Cardinality(PagesIn(DoneUnits))' = MaxPages
  BY <1>2 DEF PagesExact
<1> QED
  BY <1>3, <1>4 DEF PagesExact

LEMMA TakeStep == ASSUME PhysInv, NEW c \in Cpus, AllocTake(c) PROVE Moved
<1>1. /\ op[c].pc \in {"take", "commit"} /\ UNCHANGED <<acctVars, owned, boot>>
      /\ op[c].pc = "commit" => Granted(c)
  BY DEF AllocTake, Granted
<1>2. /\ PhysTypes /\ LockOK /\ HandsOK /\ AcctInv /\ BuddyInv /\ FramesOK /\ ClaimsOK /\ PagesExact
      /\ Booted /\ op[c].pc \in InLock /\ op[c].ptr = NoBlock /\ frame[c].pc = "idle"
      /\ op[c] \in OpStates /\ BuddyOK(freelist, hdr, freeBit, Taken)
  BY <1>1, CriticalFacts DEF InLock, LockOK, FramesOK, FrameFits, Granted, BuddyInv
<1>3. PICK level \in Levels, at \in Levels : level = op[c].level /\ at = op[c].at
  BY <1>2 DEF OpStates
<1>4. level <= at /\ freelist[at] # <<>>
  BY <1>1, <1>2, <1>3 DEF LockOK
<1>5. PICK ptr, me : ptr = Head(freelist[at]) /\ me = <<ptr, level>>
  OBVIOUS
<1>6. ptr \in Units /\ LevelAt(ptr) = at
  BY <1>2, <1>4, <1>5, HeadIsFree, BlockFacts
<1>7. PICK new : new = [Idle EXCEPT !.pc = "return", !.ptr = ptr, !.level = level]
  OBVIOUS
<1>8. /\ new \in OpStates /\ new.pc = "return" /\ new.ptr = ptr /\ new.level = level
      /\ ~new.reserved /\ new.ptr # NoBlock
  <2>1. 0 \in Levels /\ ptr \in Int /\ ptr # NoBlock
    BY <1>6, LevelAssumption DEF Levels, NoBlock, Units
  <2> QED
    BY <1>6, <1>7, <2>1 DEF Idle, OpStates
<1>9. SplitIn(ptr, level, at) /\ lock' = 0 /\ op' = [op EXCEPT ![c] = new]
  <2>1. LevelAt(Head(freelist[op[c].at])) = op[c].at
    BY <1>3, <1>5, <1>6
  <2>2. /\ SplitIn(Head(freelist[op[c].at]), op[c].level, op[c].at) /\ lock' = 0
        /\ op' = [op EXCEPT ![c] = [Idle EXCEPT !.pc = "return",
                     !.ptr = Head(freelist[op[c].at]), !.level = op[c].level]]
    BY <2>1 DEF AllocTake, SplitIn
  <2> QED
    BY <1>3, <1>5, <1>7, <2>2
<1>10. op'[c] = new /\ \A d \in Cpus \ {c} : op'[d] = op[d]
  BY <1>2, <1>9 DEF PhysTypes
<1>11. UNCHANGED <<pages, frame, held, owned, boot>>
  BY <1>1 DEF acctVars
<1>12. /\ BuddyOK(freelist', hdr', freeBit', Taken \cup {me}) /\ me \notin Taken
       /\ Area(Free(freelist') \cup (Taken \cup {me})) = Area(Free(freelist) \cup Taken)
       /\ \A u \in Span(ptr, level) : hdr'[u] = Zero
       /\ \A b \in Taken : \A u \in Span(b[1], b[2]) : hdr'[u] = hdr[u]
  BY <1>2, <1>4, <1>5, <1>9, SplitStep
<1>13. Taken' = Taken \cup {me}
  <2>1. BlocksInHand' = BlocksInHand \cup {me}
    BY <1>2, <1>5, <1>8, <1>9, HandsUpdate
  <2> QED
    BY <1>11, <2>1 DEF Taken
<1>14. HandsOK'
  <2>1. \A d \in Cpus : op[d].ptr # NoBlock => <<op[d].ptr, op[d].level>> \in Taken
    BY DEF Taken, BlocksInHand
  <2>2. \A d \in Cpus \ {c} : op[d].ptr # NoBlock =>
          /\ <<op[d].ptr, op[d].level>> \notin owned'
          /\ \A u \in Span(op[d].ptr, op[d].level) : hdr'[u] = hdr[u]
    <3> SUFFICES ASSUME NEW d \in Cpus \ {c}, op[d].ptr # NoBlock
                 PROVE  \A u \in Span(op[d].ptr, op[d].level) : hdr'[u] = hdr[u]
      BY <1>2, <1>11 DEF HandsOK
    <3>1. PICK b : b = <<op[d].ptr, op[d].level>> /\ b \in Taken
      BY <2>1
    <3> QED
      BY <1>12, <3>1
  <2>3. /\ <<new.ptr, new.level>> \notin owned'
        /\ \A u \in Span(new.ptr, new.level) : hdr'[u] = Zero
        /\ \A d \in Cpus \ {c} : op[d].ptr # NoBlock =>
             <<op[d].ptr, op[d].level>> # <<new.ptr, new.level>>
    BY <1>5, <1>8, <1>11, <1>12, <2>1 DEF Taken
  <2> QED
    BY <1>2, <1>8, <1>9, <2>2, <2>3, HandsStep
<1>15. LockOK' /\ lock' \in {0, 1} /\ op' \in [Cpus -> OpStates]
  <2>1. CoreOK(new, freelist') /\ new.pc \notin InLock
    BY <1>8 DEF CoreOK, InLock
  <2> QED
    BY <1>2, <1>8, <1>9, <2>1, LockStep
<1>16. BootOK' /\ PhysTypes'
  BY <1>2, <1>11, <1>15, BootedOK DEF PhysTypes, OpStates
<1>17. BuddyInv'
  <2>1. Area(FreeBlocks \cup Taken) = MemUnits /\ FreeBlocks = Free(freelist)
    BY <1>2 DEF BuddyInv, FreeBlocks, Free
  <2>2. Area(Free(freelist') \cup Taken') = MemUnits'
    BY <1>11, <1>12, <1>13, <2>1, SameBoot
  <2> QED
    BY <1>12, <1>13, <1>14, <1>15, <1>16, <2>2, BuddyNext
<1>18. FramesOK'
  BY <1>2, <1>8, <1>10, <1>11, FramesStep DEF FrameFits
<1>19. ClaimsOK'
  BY <1>2, <1>8, <1>10, <1>11, HeldType, ClaimsStep
<1>20. PagesExact'
  <2>1. PICK n : n = PagesToCommit(level, at)
    OBVIOUS
  <2>2. n \in Nat /\ Cardinality(BigPages(freelist)) = Cardinality(BigPages(freelist')) + n
    BY <1>2, <1>4, <1>5, <1>9, <2>1, SplitPages
  <2>3. \A d \in Cpus \ {c} : ~Granted(d)
    BY <1>2 DEF Granted, LockOK, InLock
  <2>4. \A d \in Cpus : ~Granted(d)'
    BY <1>8, <1>10, <2>3, <1>11 DEF Granted
  <2>5. /\ Cardinality(BigPages(freelist')) \in Nat /\ Cardinality(PagesIn(MemUnits)) \in Nat
        /\ held["committed"] \in Nat
    BY <1>2, PagesFinite, HeldType DEF BigPages
  <2>6. Cardinality(FreePages) + held["committed"] = Cardinality(PagesIn(MemUnits)) + n
    <3>1. CASE Granted(c)
      BY <1>2, <1>3, <2>1, <3>1 DEF PagesExact
    <3>2. CASE ~Granted(c)
      <4>1. n = 0
        BY <1>1, <1>2, <1>3, <2>1, <3>2 DEF FramesOK, FrameFits
      <4>2. Cardinality(FreePages) + held["committed"] = Cardinality(PagesIn(MemUnits))
        BY <1>2, <2>3, <3>2 DEF PagesExact
      <4> QED
        BY <2>5, <4>1, <4>2
    <3> QED
      BY <3>1, <3>2
  <2>7. Cardinality(BigPages(freelist')) + held["committed"] = Cardinality(PagesIn(MemUnits))
    BY <2>2, <2>5, <2>6, FreePagesAre
  <2> QED
    BY <1>2, <1>11, <2>4, <2>7, CountSettled
<1> QED
  BY <1>1, <1>17, <1>18, <1>19, <1>20 DEF Moved, AcctMove

(* A block changes hands between a core and its callers, and is written    *)
(* over: it stays out of the allocator.                                    *)
LEMMA PassStep ==
  ASSUME PhysInv, Booted, NEW c \in Cpus, NEW new \in OpStates, op' = [op EXCEPT ![c] = new],
         NEW me \in Taken, NEW v \in {Zero, Data},
         hdr' = [u \in Units |-> IF u \in Span(me[1], me[2]) THEN v ELSE hdr[u]],
         UNCHANGED <<acctVars, freelist, freeBit, boot>>,
         owned' \subseteq Taken, Taken' = Taken,
         \A d \in Cpus \ {c} : op[d].ptr # NoBlock =>
           <<op[d].ptr, op[d].level>> \notin owned' /\ <<op[d].ptr, op[d].level>> # me,
         new.ptr # NoBlock => <<new.ptr, new.level>> = me /\ me \notin owned' /\ v = Zero,
         frame[c].pc = "idle", op[c].pc \in {"idle", "return"},
         new.pc \in {"idle", "merge", "halted"}, new.reserved => new.level >= PAGE_LEVEL,
         (lock = 0 /\ lock' = 1) \/ (lock' = lock /\ new.pc \notin InLock),
         CoreOK(new, freelist)
  PROVE  Moved
<1>1. /\ PhysTypes /\ LockOK /\ HandsOK /\ AcctInv /\ BuddyInv /\ FramesOK /\ ClaimsOK /\ PagesExact
      /\ BuddyOK(freelist, hdr, freeBit, Taken) /\ UNCHANGED <<pages, frame, held>>
      /\ UNCHANGED <<freelist, boot>>
  BY DEF PhysInv, BuddyInv, acctVars
<1>2. op'[c] = new /\ \A d \in Cpus \ {c} : op'[d] = op[d]
  BY <1>1 DEF PhysTypes
<1>3. me \in Blocks /\ me = <<me[1], me[2]>> /\ Span(me[1], me[2]) \subseteq Units
  BY <1>1, BlockFacts DEF BuddyOK
<1>4. \A b \in Free(freelist) \cup Taken :
        b # me => Apart(Span(b[1], b[2]), Span(me[1], me[2])) /\ Span(b[1], b[2]) \subseteq Units
  BY <1>1, BlockFacts DEF BuddyOK
<1>5. \A b \in Free(freelist) \cup Taken :
        b # me => \A u \in Span(b[1], b[2]) : hdr'[u] = hdr[u]
  BY <1>4 DEF Apart
<1>6. BuddyOK(freelist', hdr', freeBit', Taken')
  <2>1. hdr' \in [Units -> Levels \cup {Zero, Data}]
    BY <1>1 DEF BuddyOK
  <2>2. \A b \in Free(freelist) : \A u \in Span(b[1], b[2]) : hdr'[u] = hdr[u]
    BY <1>1, <1>5 DEF BuddyOK, Apart
  <2>3. BuddyOK(freelist, hdr', freeBit, Taken)
    BY <1>1, <2>1, <2>2, WriteStep
  <2> QED
    BY <2>3
<1>7. HandsOK'
  <2>1. ASSUME NEW d \in Cpus \ {c}, op[d].ptr # NoBlock
        PROVE  /\ <<op[d].ptr, op[d].level>> \notin owned'
               /\ \A u \in Span(op[d].ptr, op[d].level) : hdr'[u] = hdr[u]
    <3>1. PICK b : b = <<op[d].ptr, op[d].level>> /\ b \in Taken
      BY <2>1 DEF Taken, BlocksInHand
    <3>2. b # me /\ b \notin owned' /\ b[1] = op[d].ptr /\ b[2] = op[d].level
      BY <2>1, <3>1
    <3> QED
      BY <1>5, <3>1, <3>2
  <2>2. ASSUME new.ptr # NoBlock
        PROVE  /\ <<new.ptr, new.level>> \notin owned'
               /\ \A u \in Span(new.ptr, new.level) : hdr'[u] = Zero
               /\ \A d \in Cpus \ {c} : op[d].ptr # NoBlock =>
                    <<op[d].ptr, op[d].level>> # <<new.ptr, new.level>>
    <3>1. <<new.ptr, new.level>> = me /\ me \notin owned' /\ v = Zero
      BY <2>2
    <3>2. new.ptr = me[1] /\ new.level = me[2]
      BY <3>1
    <3>3. \A u \in Span(me[1], me[2]) : hdr'[u] = Zero
      BY <1>3, <3>1
    <3> QED
      BY <3>1, <3>2, <3>3
  <2> QED
    BY <1>1, <2>1, <2>2, HandsStep
<1>8. LockOK' /\ lock' \in {0, 1} /\ op' \in [Cpus -> OpStates]
  BY <1>1, LockStep
<1>9. BootOK' /\ PhysTypes'
  <2>1. owned' \subseteq Units \X Levels
    BY <1>1 DEF BuddyOK, Blocks
  <2> QED
    BY <1>1, <1>8, <2>1, BootedOK DEF PhysTypes, OpStates
<1>10. BuddyInv'
  BY <1>1, <1>6, <1>7, <1>8, <1>9, SameMemory, BuddyNext
<1>11. FramesOK'
  BY <1>1, <1>2, FramesStep DEF FrameFits
<1>12. ClaimsOK'
  BY <1>1, <1>2, HeldType, ClaimsStep
<1>13. PagesExact'
  BY <1>1, <1>2, SameMemory, CountKept DEF Granted
<1> QED
  BY <1>10, <1>11, <1>12, <1>13 DEF Moved, AcctMove

LEMMA ReturnStep == ASSUME PhysInv, NEW c \in Cpus, AllocReturn(c) PROVE Moved
<1>1. op[c].pc = "return" /\ UNCHANGED <<acctVars, freelist, freeBit, boot>> /\ lock' = lock
  BY DEF AllocReturn
<1>2. /\ PhysTypes /\ HandsOK /\ Booted /\ op[c].ptr # NoBlock /\ frame[c].pc = "idle"
      /\ BuddyOK(freelist, hdr, freeBit, Taken)
  BY <1>1, CriticalFacts DEF LockOK, FramesOK, FrameFits, BuddyInv
<1>3. PICK me, new : me = <<op[c].ptr, op[c].level>> /\ new = Idle
  OBVIOUS
<1>4. /\ new \in OpStates /\ new.pc = "idle" /\ new.ptr = NoBlock /\ ~new.reserved
  BY <1>3, LevelAssumption DEF Idle, OpStates, Levels
<1>5. /\ owned' = owned \cup {me} /\ op' = [op EXCEPT ![c] = new]
      /\ hdr' = [u \in Units |-> IF u \in Span(me[1], me[2]) THEN Data ELSE hdr[u]]
  BY <1>3 DEF AllocReturn
<1>6. me \in BlocksInHand /\ BlocksInHand' = BlocksInHand \ {me}
  BY <1>2, <1>3, <1>4, <1>5, HandsUpdate
<1>7. Taken' = Taken /\ me \in Taken /\ owned' \subseteq Taken
  BY <1>5, <1>6 DEF Taken
<1>8. \A d \in Cpus \ {c} : op[d].ptr # NoBlock =>
        <<op[d].ptr, op[d].level>> \notin owned' /\ <<op[d].ptr, op[d].level>> # me
  BY <1>2, <1>3, <1>5 DEF HandsOK
<1>9. CoreOK(new, freelist) /\ new.pc \notin InLock
  BY <1>4 DEF CoreOK, InLock
<1> QED
  BY <1>1, <1>2, <1>4, <1>5, <1>7, <1>8, <1>9, PassStep

LEMMA FreeStep ==
  ASSUME PhysInv, NEW c \in Cpus, NEW block \in owned,
         phys_free(c, block) \/ phys_free_reserved(c, block)
  PROVE  Moved
<1>1. PICK reserved \in BOOLEAN :
        FreeBlock(c, block, reserved) /\ (reserved => block[2] >= PAGE_LEVEL)
  BY DEF phys_free, phys_free_reserved
<1>2. /\ Booted /\ op[c].pc = "idle" /\ frame[c].pc = "idle"
      /\ UNCHANGED <<acctVars, freelist, freeBit, boot>>
      /\ owned' = owned \ {block}
      /\ hdr' = [u \in Units |-> IF u \in Span(block[1], block[2]) THEN Zero ELSE hdr[u]]
  BY <1>1 DEF FreeBlock, Ready, Zeroed
<1>3. PhysTypes /\ LockOK /\ HandsOK /\ BuddyOK(freelist, hdr, freeBit, Taken) /\ op[c].ptr = NoBlock
  BY <1>2 DEF PhysInv, BuddyInv, LockOK
<1>4. block \in Units \X Levels /\ block = <<block[1], block[2]>> /\ block \in Taken
  BY <1>3 DEF PhysTypes, Taken
<1>5. PICK new \in OpStates :
        /\ op' = [op EXCEPT ![c] = new] /\ new.ptr = block[1] /\ new.level = block[2]
        /\ new.pc \in {"merge", "halted"} /\ new.reserved = reserved
        /\ (lock = 0 /\ lock' = 1) \/ (lock' = lock /\ new.pc = "halted")
  <2>1. 0 \in Levels /\ block[1] \in Units /\ block[2] \in Levels
    BY <1>4, LevelAssumption DEF Levels
  <2>2. PICK m : m = [pc |-> "merge", ptr |-> block[1], level |-> block[2], at |-> 0,
                      reserved |-> reserved]
    OBVIOUS
  <2>3. /\ m \in OpStates /\ m.pc = "merge" /\ m.ptr = block[1]
        /\ m.level = block[2] /\ m.reserved = reserved
    BY <2>1, <2>2 DEF OpStates, InLock
  <2>4. PICK h : h = [m EXCEPT !.pc = "halted"]
    OBVIOUS
  <2>5. /\ h \in OpStates /\ h.pc = "halted" /\ h.ptr = block[1]
        /\ h.level = block[2] /\ h.reserved = reserved
    BY <2>3, <2>4 DEF OpStates
  <2>6. LockOrHalt(c, m)
    BY <1>1, <2>2 DEF FreeBlock
  <2> QED
    BY <2>3, <2>4, <2>5, <2>6 DEF LockOrHalt
<1>6. new.ptr # NoBlock /\ <<new.ptr, new.level>> = block
  BY <1>4, <1>5 DEF NoBlock, Units
<1>7. BlocksInHand' = BlocksInHand \cup {block}
  BY <1>3, <1>5, <1>6, HandsUpdate
<1>8. Taken' = Taken /\ owned' \subseteq Taken
  BY <1>2, <1>7 DEF Taken
<1>9. \A d \in Cpus \ {c} : op[d].ptr # NoBlock =>
        <<op[d].ptr, op[d].level>> \notin owned' /\ <<op[d].ptr, op[d].level>> # block
  BY <1>2, <1>3 DEF HandsOK
<1>10. CoreOK(new, freelist) /\ (new.pc = "halted" => new.pc \notin InLock)
  BY <1>5, <1>6 DEF CoreOK, InLock
<1> QED
  BY <1>1, <1>2, <1>4, <1>5, <1>6, <1>8, <1>9, <1>10, PassStep

(* What the merge does to memory, without the accounting *)
LEMMA MergeBuddy ==
  ASSUME PhysInv, NEW c \in Cpus, op[c].pc = "merge", MergeIn(op[c].ptr, op[c].level, TRUE),
         Unlock(c), UNCHANGED <<owned, boot>>
  PROVE  BuddyInv' /\ Cardinality(BigPages(freelist')) <= Cardinality(PagesIn(MemUnits))
<1>1. /\ PhysTypes /\ LockOK /\ HandsOK /\ BuddyInv /\ Booted /\ op[c].pc \in InLock
      /\ op[c].ptr # NoBlock /\ BuddyOK(freelist, hdr, freeBit, Taken)
  BY CriticalFacts DEF InLock, LockOK, BuddyInv
<1>2. PICK ptr, level, me : ptr = op[c].ptr /\ level = op[c].level /\ me = <<ptr, level>>
  OBVIOUS
<1>3. me \in Taken /\ me \notin owned /\ \A u \in Span(ptr, level) : hdr[u] = Zero
  BY <1>1, <1>2 DEF Taken, BlocksInHand, HandsOK
<1>4. MergeIn(ptr, level, TRUE)
  BY <1>2
<1>5. PICK new : new = Idle
  OBVIOUS
<1>6. new \in OpStates /\ new.pc = "idle" /\ new.ptr = NoBlock
  BY <1>5, LevelAssumption DEF Idle, OpStates, Levels
<1>7. op' = [op EXCEPT ![c] = new] /\ lock' = 0
  BY <1>5 DEF Unlock
<1>8. PICK N, M : N = MergedInto(ptr, level) /\ M = MergedBlocks(ptr, level)
  OBVIOUS
<1>9. /\ BuddyOK(freelist', hdr', freeBit', Taken \ {me})
      /\ Area(Free(freelist') \cup (Taken \ {me})) = Area(Free(freelist) \cup Taken)
      /\ \A u \in Units \ Span(N[1], N[2]) : hdr'[u] = hdr[u]
  <2>1. PICK T : T = Taken
    OBVIOUS
  <2>2. MergeReady(T, ptr, level)
    BY <1>1, <1>2, <1>3, <2>1 DEF MergeReady
  <2>3. PICK check \in BOOLEAN : MergeIn(ptr, level, check)
    BY <1>4
  <2>4. Merged(T, ptr, level)
    BY <2>2, <2>3, MergeStep
  <2> QED
    BY <1>2, <1>8, <2>1, <2>4 DEF Merged
<1>10. Taken' = Taken \ {me}
  <2>1. BlocksInHand' = BlocksInHand \ {me}
    BY <1>1, <1>2, <1>6, <1>7, HandsUpdate
  <2> QED
    BY <1>3, <2>1 DEF Taken
<1>11. HandsOK'
  <2>1. /\ M \subseteq Free(freelist)
        /\ \A b \in (Free(freelist) \cup Taken) \ (M \cup {me}) :
             Apart(Span(b[1], b[2]), Span(N[1], N[2]))
    <3>1. PICK T : T = Taken
      OBVIOUS
    <3>2. <<ptr, level>> \in T /\ BuddyOK(freelist, hdr, freeBit, T)
      BY <1>1, <1>2, <1>3, <3>1
    <3>3. /\ MergedBlocks(ptr, level) \subseteq Free(freelist)
          /\ \A b \in (Free(freelist) \cup T) \ (MergedBlocks(ptr, level) \cup {<<ptr, level>>}) :
               Apart(Span(b[1], b[2]), Span(MergedInto(ptr, level)[1], MergedInto(ptr, level)[2]))
      BY <3>2, MergeShape
    <3> QED
      BY <1>2, <1>8, <3>1, <3>3
  <2>2. ASSUME NEW d \in Cpus \ {c}, op[d].ptr # NoBlock
        PROVE  /\ <<op[d].ptr, op[d].level>> \notin owned'
               /\ \A u \in Span(op[d].ptr, op[d].level) : hdr'[u] = hdr[u]
    <3>1. PICK b : b = <<op[d].ptr, op[d].level>> /\ b \in Taken
      BY <2>2 DEF Taken, BlocksInHand
    <3>2. b # me /\ b \notin owned' /\ b[1] = op[d].ptr /\ b[2] = op[d].level
      BY <1>1, <1>2, <2>2, <3>1 DEF HandsOK
    <3>3. b \notin M /\ b \in Blocks
      BY <1>1, <2>1, <3>1 DEF BuddyOK, Apart
    <3>4. Apart(Span(b[1], b[2]), Span(N[1], N[2])) /\ Span(b[1], b[2]) \subseteq Units
      BY <2>1, <3>1, <3>2, <3>3, BlockFacts
    <3> QED
      BY <1>9, <3>1, <3>2, <3>4 DEF Apart
  <2> QED
    BY <1>1, <1>6, <1>7, <2>2, HandsStep
<1>12. LockOK' /\ lock' \in {0, 1} /\ op' \in [Cpus -> OpStates]
  <2>1. CoreOK(new, freelist') /\ new.pc \notin InLock
    BY <1>6 DEF CoreOK, InLock
  <2> QED
    BY <1>1, <1>6, <1>7, <2>1, LockStep
<1>13. BootOK' /\ PhysTypes'
  BY <1>1, <1>12, BootedOK DEF PhysTypes, OpStates
<1>14. /\ Area(Free(freelist') \cup Taken') = MemUnits
       /\ Area(Free(freelist') \cup Taken') = MemUnits'
  <2>1. Area(FreeBlocks \cup Taken) = MemUnits /\ FreeBlocks = Free(freelist)
    BY <1>1 DEF BuddyInv, FreeBlocks, Free
  <2> QED
    BY <1>9, <1>10, <2>1, SameBoot
<1>15. BuddyInv'
  BY <1>9, <1>10, <1>11, <1>12, <1>13, <1>14, BuddyNext
<1>16. Area(Big(Free(freelist'))) \subseteq MemUnits
  <2>1. Area(Big(Free(freelist'))) \subseteq Area(Free(freelist') \cup Taken')
    BY DEF Area, Big
  <2> QED
    BY <1>14, <2>1
<1> QED
  BY <1>15, <1>16, PagesSubset DEF BigPages

LEMMA MergesStep == ASSUME PhysInv, NEW c \in Cpus, FreeMerge(c) PROVE Moved
<1>1. op[c].pc = "merge" /\ UNCHANGED <<owned, boot>>
  BY DEF FreeMerge
<1>2. /\ PhysTypes /\ LockOK /\ HandsOK /\ AcctInv /\ BuddyInv /\ FramesOK /\ ClaimsOK /\ PagesExact
      /\ op[c].pc \in InLock /\ op[c].ptr # NoBlock /\ frame[c].pc = "idle"
      /\ BuddyOK(freelist, hdr, freeBit, Taken)
  BY <1>1, CriticalFacts DEF InLock, LockOK, FramesOK, FrameFits, BuddyInv
<1>3. PICK ptr, level, n : /\ ptr = op[c].ptr /\ level = op[c].level
                           /\ n = PagesToUncommit(level, MergedLevel(ptr, level))
  OBVIOUS
<1>4. PICK me : me = <<ptr, level>> /\ me \in Taken
  BY <1>1, <1>2, <1>3 DEF Taken, BlocksInHand
<1>5. ~freeBit[ptr] /\ ptr % 2 ^ level = 0
  <2>1. me \in Blocks /\ ~freeBit[me[1]] /\ me[1] = ptr /\ me[2] = level
    BY <1>2, <1>4 DEF BuddyOK
  <2> QED
    BY <2>1, BlockFacts
<1>6. /\ MergeIn(ptr, level, TRUE) /\ Unlock(c)
      /\ \/ n = 0 /\ UNCHANGED acctVars
         \/ n > 0 /\ Call(c, IF op[c].reserved THEN "uncommit_to_reserved" ELSE "uncommit", n)
  BY <1>3, <1>5 DEF FreeMerge
<1>7. BuddyInv' /\ Cardinality(BigPages(freelist')) <= Cardinality(PagesIn(MemUnits))
  BY <1>1, <1>3, <1>6, MergeBuddy
<1>8. n \in Nat /\ Cardinality(BigPages(freelist')) = Cardinality(BigPages(freelist)) + n
  BY <1>2, <1>3, <1>4, <1>6, MergePages
<1>9. \A d \in Cpus : ~Granted(d)
  BY <1>1, <1>2 DEF Granted, LockOK, InLock
<1>10. Cardinality(BigPages(freelist)) + held["committed"] = Cardinality(PagesIn(MemUnits))
  BY <1>2, <1>9, FreePagesAre DEF PagesExact
<1>11. /\ Cardinality(BigPages(freelist)) \in Nat /\ Cardinality(PagesIn(MemUnits)) \in Nat
       /\ held["committed"] \in Nat /\ held["committed"] <= MaxPages
  BY <1>2, PagesFinite, Bounds DEF BigPages, AcctTypeOK, Owned
<1>12. n <= held["committed"] /\ n \in Word
  BY <1>7, <1>8, <1>10, <1>11, PagesAssumption, WordAssumption DEF Word
<1>13. PICK new : new = Idle
  OBVIOUS
<1>14. new.pc = "idle" /\ ~new.reserved
  BY <1>13 DEF Idle
<1>15. op'[c] = new /\ \A d \in Cpus \ {c} : op'[d] = op[d]
  BY <1>2, <1>6, <1>13 DEF Unlock, PhysTypes
<1>16. CASE n = 0
  <2>1. UNCHANGED acctVars /\ UNCHANGED <<pages, frame, held>>
    BY <1>6, <1>16 DEF acctVars
  <2>2. FramesOK'
    BY <1>2, <1>14, <1>15, <2>1, FramesStep DEF FrameFits
  <2>3. ClaimsOK'
    BY <1>2, <1>14, <1>15, <2>1, HeldType, ClaimsStep
  <2>4. \A d \in Cpus : ~Granted(d)'
    BY <1>9, <1>14, <1>15, <2>1 DEF Granted
  <2>5. PagesExact'
    BY <1>1, <1>2, <1>8, <1>10, <1>11, <1>16, <2>1, <2>4, CountSettled
  <2> QED
    BY <1>7, <2>1, <2>2, <2>3, <2>5 DEF Moved, AcctMove
<1>17. CASE n > 0
  <2>1. PICK o \in {"uncommit", "uncommit_to_reserved"} : Call(c, o, n)
    BY <1>6, <1>17
  <2>2. o \in Ops
    BY DEF Ops
  <2>3. /\ frame'[c].pc # "idle" /\ frame'[c].op = o
        /\ (\A d \in Cpus \ {c} : frame'[d] = frame[d])
        /\ held'["committed"] = held["committed"] - n
        /\ held'["reserved"] = held["reserved"] /\ held'["outside"] = held["outside"]
    BY <1>2, <2>1, <2>2, CallFacts
  <2>4. AcctNext
    BY <1>12, <2>1 DEF AcctNext, Uncommit, UncommitToReserved
  <2>5. FramesOK'
    BY <1>2, <1>14, <1>15, <2>3, FramesStep DEF FrameFits
  <2>6. ClaimsOK'
    BY <1>2, <1>14, <1>15, <2>3, HeldType, ClaimsStep
  <2>7. \A d \in Cpus : ~Granted(d)'
    BY <1>9, <1>14, <1>15, <2>3 DEF Granted
  <2>8. Cardinality(BigPages(freelist')) + held'["committed"] = Cardinality(PagesIn(MemUnits))
    BY <1>8, <1>10, <1>11, <2>3
  <2>9. PagesExact'
    BY <1>1, <1>2, <2>3, <2>7, <2>8, CountSettled
  <2> QED
    BY <1>7, <2>4, <2>5, <2>6, <2>9 DEF Moved, AcctMove
<1> QED
  BY <1>8, <1>16, <1>17

-----------------------------------------------------------------------------
(* The accounting's own steps *)

LEMMA ReservingStep ==
  ASSUME PhysInv, NEW c \in Cpus, NEW n \in Requests, Reserving(c, n) \/ Unreserving(c, n)
  PROVE  Moved
<1>1. PICK o \in {"reserve", "unreserve"} :
        Call(c, o, n) /\ (o = "unreserve" => n + Claimed <= held["reserved"])
  BY DEF Reserving, Unreserving
<1>2. Ready(c) /\ UNCHANGED <<buddyVars, lock, op, owned, boot>>
  BY DEF Reserving, Unreserving
<1>3. /\ PhysTypes /\ LockOK /\ AcctInv /\ BuddyInv /\ FramesOK /\ ClaimsOK /\ PagesExact
      /\ op[c].pc = "idle" /\ UNCHANGED <<freelist, boot>>
  BY <1>2 DEF PhysInv, BuddyInv, Ready, buddyVars
<1>4. n \in Word /\ n \in Nat /\ o \in Ops
  BY BootAssumption, WordAssumption DEF Word, Ops
<1>5. /\ frame'[c].pc # "idle" /\ frame'[c].op = o
      /\ (\A d \in Cpus \ {c} : frame'[d] = frame[d])
      /\ held'["committed"] = held["committed"] /\ held'["outside"] = held["outside"]
      /\ held'["reserved"] = IF o = "unreserve" THEN held["reserved"] - n ELSE held["reserved"]
  BY <1>1, <1>3, <1>4, CallFacts
<1>6. Claimed \in Nat /\ held["reserved"] \in Nat
  BY <1>3, ClaimedFacts, HeldType
<1>7. AcctNext
  <2>1. CASE o = "reserve"
    BY <1>1, <1>4, <2>1 DEF AcctNext, Reserve
  <2>2. CASE o = "unreserve"
    <3>1. n <= held["reserved"]
      BY <1>1, <1>4, <1>6, <2>2
    <3> QED
      BY <1>1, <1>4, <2>2, <3>1 DEF AcctNext, Unreserve
  <2> QED
    BY <2>1, <2>2
<1>8. FramesOK'
  BY <1>2, <1>3, <1>5, FramesStep DEF FrameFits, FramesOK
<1>9. ClaimsOK'
  <2> SUFFICES ASSUME NEW d \in Cpus, op[d].pc = "search", op[d].reserved
               PROVE  get_page_count_by_level(op[d].level) <= held'["reserved"]
    BY <1>2 DEF ClaimsOK, get_page_count_by_level
  <2>1. PICK k \in Nat : k = get_page_count_by_level(op[d].level)
    BY <1>3, CountType DEF PhysTypes, OpStates, FramesOK, FrameFits
  <2>2. k <= held["reserved"] /\ k <= Claimed
    BY <1>3, <2>1, ClaimedFacts DEF ClaimsOK
  <2> QED
    BY <1>1, <1>4, <1>5, <1>6, <2>1, <2>2
<1>10. PagesExact'
  BY <1>2, <1>3, <1>5, SameMemory, CountKept DEF Granted
<1> QED
  BY <1>2, <1>3, <1>7, <1>8, <1>9, <1>10, StillStep DEF Moved, AcctMove

LEMMA AcctRunsStep == ASSUME PhysInv, NEW c \in Cpus, AcctRuns(c) PROVE Moved
<1>1. AcctStep(c) /\ UNCHANGED <<buddyVars, lock, op, owned, boot>> /\ UNCHANGED <<freelist, boot>>
  BY DEF AcctRuns, buddyVars
<1>2. PhysTypes /\ LockOK /\ AcctInv /\ BuddyInv /\ FramesOK /\ ClaimsOK /\ PagesExact
  BY DEF PhysInv, BuddyInv
<1>3. /\ frame[c].pc # "idle"
      /\ (\A d \in Cpus \ {c} : frame'[d] = frame[d])
      /\ frame'[c].pc # "idle" =>
           frame'[c].op = frame[c].op /\ frame'[c].n = frame[c].n /\ held' = held
      /\ held'["outside"] = held["outside"] /\ held'["reserved"] >= held["reserved"]
      /\ frame'[c].pc = "idle" /\ frame'[c].ok =>
           /\ frame[c].op \in {"commit", "commit_reserved"} =>
                held'["committed"] = held["committed"] + frame[c].n
           /\ frame[c].op \in {"reserve", "unreserve", "uncommit", "uncommit_to_reserved", "add_total"}
                => held'["committed"] = held["committed"]
      /\ frame'[c].pc = "idle" /\ ~frame'[c].ok => held' = held
  BY <1>1, <1>2, StepFacts
<1>4. AcctNext
  BY <1>1 DEF AcctNext
<1>5. FramesOK'
  BY <1>1, <1>2, <1>3, FramesStep DEF FrameFits, FramesOK
<1>6. held["reserved"] \in Int /\ held'["reserved"] \in Int
  <2>1. AcctInv'
    BY <1>2, <1>4, AcctMoves DEF AcctMove
  <2> QED
    BY <1>2, <2>1 DEF AcctInv, Types, Owned
<1>7. ClaimsOK'
  <2> SUFFICES ASSUME NEW d \in Cpus, op[d].pc = "search", op[d].reserved
               PROVE  get_page_count_by_level(op[d].level) <= held'["reserved"]
    BY <1>1 DEF ClaimsOK, get_page_count_by_level
  <2>1. PICK k \in Nat : k = get_page_count_by_level(op[d].level)
    BY <1>2, CountType DEF PhysTypes, OpStates, FramesOK, FrameFits
  <2>2. k <= held["reserved"]
    BY <1>2, <2>1 DEF ClaimsOK
  <2> QED
    BY <1>3, <1>6, <2>1, <2>2
<1>8. FrameFits(op[c], frame[c]) /\ ~Granted(c)
  BY <1>2, <1>3 DEF FramesOK, Granted
<1>9. CASE Granted(c)'
  <2>1. op[c].pc = "commit" /\ frame'[c].pc = "idle" /\ frame'[c].ok
    BY <1>1, <1>9 DEF Granted
  <2>2. PICK n : n = PagesToCommit(op[c].level, op[c].at) /\ n = frame[c].n
    BY <1>3, <1>8, <2>1 DEF FrameFits
  <2>3. held'["committed"] = held["committed"] + n
    BY <1>3, <1>8, <2>1, <2>2 DEF FrameFits
  <2>4. \A d \in Cpus \ {c} : ~Granted(d) /\ ~Granted(d)'
    BY <1>1, <1>2, <1>3, <2>1 DEF Granted, LockOK, InLock
  <2>5. Cardinality(FreePages) + held["committed"] = Cardinality(PagesIn(MemUnits))
    BY <1>2, <1>8, <2>4 DEF PagesExact
  <2>6. /\ n \in Nat /\ Cardinality(FreePages) \in Nat /\ Cardinality(PagesIn(MemUnits)) \in Nat
        /\ held["committed"] \in Nat
    <3>1. op[c].level \in Levels /\ op[c].at \in Levels
      BY <1>2 DEF PhysTypes, OpStates
    <3>2. n \in Nat
      BY <2>2, <3>1, CommitType
    <3> QED
      BY <1>2, <3>2, PagesFinite, HeldType DEF FreePages
  <2>7. MemUnits' = MemUnits /\ DoneUnits' = DoneUnits /\ FreePages' = FreePages
    BY <1>1, <1>2, SameMemory
  <2>8. /\ PagesIn(MemUnits)' = PagesIn(MemUnits)
        /\ PagesIn(DoneUnits)' = PagesIn(DoneUnits)
    BY <2>7 DEF PagesIn
  <2>9. Cardinality(FreePages)' + held'["committed"] = Cardinality(PagesIn(MemUnits))' + n
    BY <2>3, <2>5, <2>6, <2>7, <2>8
  <2>10. held'["outside"] + Cardinality(PagesIn(DoneUnits))' = MaxPages
    BY <1>2, <1>3, <2>8 DEF PagesExact
  <2>11. \A d \in Cpus : Granted(d)' => d = c
    BY <2>4
  <2>12. n = PagesToCommit(op[c].level, op[c].at)'
    BY <1>1, <2>2 DEF PagesToCommit, get_page_count_by_level
  <2>13. PagesExact'
    BY <1>9, <2>9, <2>10, <2>11, <2>12 DEF PagesExact
  <2> QED
    BY <1>1, <1>2, <1>4, <1>5, <1>7, <2>13, StillStep DEF Moved, AcctMove
<1>10. CASE ~Granted(c)'
  <2>1. held'["committed"] = held["committed"]
    <3>1. CASE frame'[c].pc = "idle" /\ frame'[c].ok
      <4>1. op[c].pc = "idle"
        BY <1>1, <1>3, <1>8, <1>10, <3>1 DEF FrameFits, Granted
      <4> QED
        BY <1>3, <1>8, <3>1, <4>1 DEF FrameFits
    <3> QED
      BY <1>3, <3>1
  <2>2. PagesExact'
    BY <1>1, <1>2, <1>3, <1>8, <1>10, <2>1, SameMemory, CountKept
  <2> QED
    BY <1>1, <1>2, <1>4, <1>5, <1>7, <2>2, StillStep DEF Moved, AcctMove
<1> QED
  BY <1>9, <1>10

-----------------------------------------------------------------------------
(* Boot *)

LEMMA RegionFacts ==
  ASSUME NEW i \in 1..Len(Regions)
  PROVE  /\ Regions[i][1] \in Nat /\ Regions[i][2] \in Nat /\ Regions[i][1] < Regions[i][2]
         /\ Regions[i][2] <= NumUnits
         /\ Regions[i][1] % UnitsPerPage = 0 /\ Regions[i][2] % UnitsPerPage = 0
         /\ RegionUnits(i) \subseteq Units
<1>1. Regions[i] \in Nat \X Nat
  BY RegionAssumption
<1>2. Regions[i][1] \in Nat /\ Regions[i][2] \in Nat
  BY <1>1
<1>3. /\ Regions[i][1] < Regions[i][2] /\ Regions[i][2] <= NumUnits
      /\ Regions[i][1] % UnitsPerPage = 0 /\ Regions[i][2] % UnitsPerPage = 0
  BY RegionAssumption
<1>4. RegionUnits(i) \subseteq Units
  BY <1>2, <1>3, LevelAssumption DEF RegionUnits, Units
<1> QED
  BY <1>2, <1>3, <1>4

LEMMA BootFacts ==
  ASSUME PhysInv, ~Booted
  PROVE  /\ boot.region \in 1..Len(Regions) /\ boot.region \in Nat /\ boot.at \in Nat
         /\ boot = [region |-> boot.region, started |-> boot.started, at |-> boot.at]
         /\ Taken = {} /\ BuddyOK(freelist, hdr, freeBit, {}) /\ Area(Free(freelist)) = MemUnits
         /\ \A c \in Cpus : op[c].pc = "idle" /\ op[c].ptr = NoBlock /\ ~Granted(c)
         /\ Apart(DoneUnits, RegionUnits(boot.region))
<1>1. PhysTypes /\ BootOK /\ BuddyOK(freelist, hdr, freeBit, Taken)
      /\ Area(FreeBlocks \cup Taken) = MemUnits
  BY DEF PhysInv, BuddyInv
<1>2. Len(Regions) \in Nat
  BY RegionAssumption
<1>3. /\ boot.region \in 1..Len(Regions) /\ boot.region \in Nat /\ boot.at \in Nat
      /\ boot = [region |-> boot.region, started |-> boot.started, at |-> boot.at]
  BY <1>1, <1>2 DEF PhysTypes, Booted
<1>4. \A c \in Cpus : op[c].pc = "idle" /\ op[c].ptr = NoBlock /\ ~Granted(c)
  BY <1>1 DEF BootOK, Idle, Granted
<1>5. Taken = {}
  BY <1>1, <1>4 DEF Taken, BlocksInHand, BootOK
<1>6. Apart(DoneUnits, RegionUnits(boot.region))
  <2> SUFFICES ASSUME NEW i \in 1..(boot.region - 1)
               PROVE  Apart(RegionUnits(i), RegionUnits(boot.region))
    BY DEF DoneUnits, Apart
  <2>1. i \in 1..Len(Regions) /\ i # boot.region
    BY <1>2, <1>3
  <2> QED
    BY <1>3, <2>1, RegionAssumption
<1>7. FreeBlocks = Free(freelist)
  BY DEF FreeBlocks, Free
<1> QED
  BY <1>1, <1>3, <1>4, <1>5, <1>6, <1>7

(* While memory is added no core is in the allocator. *)
LEMMA BootQuiet ==
  ASSUME PhysInv, ~Booted, UNCHANGED <<lock, op, owned>>
  PROVE  /\ LockOK' /\ HandsOK' /\ Taken' = {} /\ op' \in [Cpus -> OpStates]
         /\ \A c \in Cpus : op'[c] = Idle
<1>1. /\ PhysTypes /\ BootOK /\ LockOK /\ Taken = {}
      /\ \A c \in Cpus : op[c].pc = "idle" /\ op[c].ptr = NoBlock
  BY BootFacts DEF PhysInv, BuddyInv
<1>2. LockOK'
  BY <1>1 DEF LockOK, InLock
<1>3. HandsOK'
  BY <1>1 DEF HandsOK
<1>4. Taken' = Taken
  BY DEF Taken, BlocksInHand
<1> QED
  BY <1>1, <1>2, <1>3, <1>4 DEF PhysTypes, OpStates, BootOK

LEMMA StartStep == ASSUME PhysInv, AddMemoryStart PROVE Moved
<1>1. /\ ~Booted /\ ~boot.started /\ frame[BootCpu].pc = "idle"
      /\ UNCHANGED <<acctVars, freelist, freeBit, lock, op, owned>>
      /\ UNCHANGED <<pages, frame, held>>
  BY DEF AddMemoryStart, acctVars
<1>2. PICK i, r1, r2 : i = boot.region /\ r1 = Regions[i][1] /\ r2 = Regions[i][2]
  OBVIOUS
<1>3. /\ i \in 1..Len(Regions) /\ BuddyOK(freelist, hdr, freeBit, {})
      /\ Area(Free(freelist)) = MemUnits /\ Apart(DoneUnits, RegionUnits(i))
      /\ \A c \in Cpus : ~Granted(c)
  BY <1>1, <1>2, BootFacts
<1>4. /\ r1 \in Nat /\ r2 \in Nat /\ r1 < r2 /\ r1 % UnitsPerPage = 0 /\ RegionUnits(i) \subseteq Units
      /\ RegionUnits(i) = r1..(r2 - 1)
  BY <1>2, <1>3, RegionFacts DEF RegionUnits
<1>5. hdr' = [u \in Units |-> IF u \in r1..(r2 - 1) THEN Zero ELSE hdr[u]]
  BY <1>2 DEF AddMemoryStart
<1>6. boot' = [region |-> i, started |-> TRUE, at |-> r1]
  BY <1>1, <1>2, BootFacts DEF AddMemoryStart
<1>7. DoneUnits' = DoneUnits /\ MemUnits = DoneUnits /\ MemUnits' = MemUnits
  <2>1. DoneUnits' = DoneUnits
    BY <1>2, <1>6 DEF DoneUnits
  <2>2. MemUnits = DoneUnits
    BY <1>1 DEF MemUnits
  <2>3. boot'.started /\ boot'.region = i /\ boot'.at = r1 /\ r1..(r1 - 1) = {}
    BY <1>4, <1>6
  <2>4. MemUnits' = DoneUnits' \cup (r1..(r1 - 1))
    BY <1>2, <2>3 DEF MemUnits
  <2> QED
    BY <2>1, <2>2, <2>3, <2>4
<1>8. BuddyOK(freelist', hdr', freeBit', {})
  <2>1. hdr' \in [Units -> Levels \cup {Zero, Data}]
    BY <1>3, <1>5 DEF BuddyOK
  <2>2. ASSUME NEW b \in Free(freelist), NEW u \in Span(b[1], b[2])
        PROVE  hdr'[u] = hdr[u]
    <3>1. u \in Units
      BY <1>3, BlockFacts DEF BuddyOK
    <3>2. u \in Area(Free(freelist))
      BY DEF Area
    <3> QED
      BY <1>3, <1>4, <1>5, <1>7, <3>1, <3>2 DEF Apart
  <2> QED
    BY <1>1, <1>3, <2>1, <2>2, WriteStep
<1>9. LockOK' /\ HandsOK' /\ Taken' = {} /\ op' \in [Cpus -> OpStates] /\ \A c \in Cpus : op'[c] = Idle
  BY <1>1, BootQuiet
<1>10. BootOK'
  <2>1. \A u \in r1..(r2 - 1) : hdr'[u] = Zero
    BY <1>4, <1>5
  <2>2. boot'.started /\ boot'.region = i /\ boot'.at = r1 /\ ~Booted'
    BY <1>1, <1>2, <1>6 DEF Booted
  <2>3. owned' = {}
    BY <1>1 DEF PhysInv, BuddyInv, BootOK
  <2> QED
    BY <1>2, <1>4, <1>9, <2>1, <2>2, <2>3 DEF BootOK, UnitsPerPage, Idle
<1>11. PhysTypes'
  BY <1>1, <1>3, <1>4, <1>6, <1>9 DEF PhysInv, BuddyInv, PhysTypes, OpStates
<1>12. BuddyInv'
  BY <1>1, <1>3, <1>7, <1>8, <1>9, <1>10, <1>11, BuddyNext
<1>13. FramesOK' /\ ClaimsOK'
  BY <1>1 DEF PhysInv, FramesOK, FrameFits, ClaimsOK, PagesToCommit, get_page_count_by_level
<1>14. PagesExact'
  <2>1. FreePages' = FreePages
    BY <1>1, FreePagesAre, FreePagesNext
  <2>2. \A c \in Cpus : ~Granted(c)'
    BY <1>9 DEF Granted, Idle
  <2> QED
    BY <1>1, <1>3, <1>7, <2>1, <2>2, BootAssumption, CountKept DEF PhysInv
<1> QED
  BY <1>1, <1>12, <1>13, <1>14 DEF Moved, AcctMove

LEMMA BlockStep == ASSUME PhysInv, AddMemoryBlock PROVE Moved
<1>1. /\ ~Booted /\ boot.started /\ UNCHANGED <<acctVars, lock, op, owned>>
      /\ UNCHANGED <<pages, frame, held>>
  BY DEF AddMemoryBlock, acctVars
<1>2. PICK i, r1, end, at : i = boot.region /\ r1 = Regions[i][1] /\ end = Regions[i][2] /\ at = boot.at
  OBVIOUS
<1>3. PICK level : level = get_best_level_for_block(at, end)
  OBVIOUS
<1>4. /\ i \in 1..Len(Regions) /\ BuddyOK(freelist, hdr, freeBit, {}) /\ at \in Nat
      /\ Area(Free(freelist)) = MemUnits /\ Apart(DoneUnits, RegionUnits(i))
      /\ \A c \in Cpus : ~Granted(c)
  BY <1>1, <1>2, BootFacts
<1>5. /\ r1 \in Nat /\ end \in Nat /\ end % UnitsPerPage = 0 /\ end <= NumUnits
      /\ RegionUnits(i) = r1..(end - 1) /\ RegionUnits(i) \subseteq Units
  BY <1>2, <1>4, RegionFacts DEF RegionUnits
<1>6. /\ at < end /\ MergeIn(at, level, FALSE) /\ r1 <= at /\ at % UnitsPerPage = 0
      /\ \A u \in at..(end - 1) : hdr[u] = Zero
  BY <1>1, <1>2, <1>3 DEF AddMemoryBlock, PhysInv, BuddyInv, BootOK
<1>7. level \in Levels /\ level \in Nat /\ level >= PAGE_LEVEL /\ at + 2 ^ level <= end /\ at % 2 ^ level = 0
  BY <1>3, <1>4, <1>5, <1>6, BestLevel, LevelAssumption DEF Levels
<1>8. PICK size \in Nat \ {0} : size = 2 ^ level
  BY <1>7, PowType
<1>9. boot' = [region |-> i, started |-> TRUE, at |-> at + size]
  BY <1>1, <1>2, <1>3, <1>8, BootFacts DEF AddMemoryBlock
<1>10. PICK b, T : b = <<at, level>> /\ b[1] = at /\ b[2] = level /\ T = {b}
  <2>1. <<at, level>>[1] = at /\ <<at, level>>[2] = level
    OBVIOUS
  <2> QED
    BY <2>1
<1>11. /\ Span(at, level) = at..(at + size - 1) /\ Span(at, level) \subseteq at..(end - 1)
       /\ at \in Span(at, level) /\ at..(end - 1) \subseteq RegionUnits(i)
  BY <1>4, <1>5, <1>6, <1>7, <1>8 DEF Span
<1>12. Apart(MemUnits, at..(end - 1))
  <2>1. MemUnits = DoneUnits \cup r1..(at - 1)
    BY <1>1, <1>2 DEF MemUnits
  <2>2. Apart(r1..(at - 1), at..(end - 1))
    BY <1>4, <1>5 DEF Apart
  <2> QED
    BY <1>4, <1>11, <2>1, <2>2 DEF Apart
<1>13. DoneUnits' = DoneUnits /\ MemUnits' = MemUnits \cup Span(at, level)
  <2>1. DoneUnits' = DoneUnits
    BY <1>2, <1>9 DEF DoneUnits
  <2>2. boot'.started /\ boot'.region = i /\ boot'.at = at + size
    BY <1>9
  <2>3. MemUnits' = DoneUnits' \cup (r1..((at + size) - 1))
    BY <1>2, <2>2 DEF MemUnits
  <2>4. MemUnits = DoneUnits \cup r1..(at - 1)
    BY <1>1, <1>2 DEF MemUnits
  <2>5. r1..(at + size - 1) = r1..(at - 1) \cup at..(at + size - 1)
    BY <1>4, <1>5, <1>6
  <2> QED
    BY <1>11, <2>1, <2>3, <2>4, <2>5
<1>14. \A f \in Free(freelist) : Span(f[1], f[2]) \subseteq MemUnits /\ f \in Blocks
  BY <1>4 DEF Area, BuddyOK
<1>15. BuddyOK(freelist, hdr, freeBit, {b})
  <2>1. b \in Blocks
    <3>1. at \in Units /\ at + 2 ^ level <= NumUnits
      BY <1>4, <1>5, <1>6, <1>7, <1>8, LevelAssumption DEF Units
    <3> QED
      BY <1>7, <1>10, <3>1 DEF Blocks
  <2>2. \A f \in Free(freelist) : Apart(Span(f[1], f[2]), Span(b[1], b[2])) /\ f # b
    <3> SUFFICES ASSUME NEW f \in Free(freelist)
                 PROVE  Apart(Span(f[1], f[2]), Span(at, level)) /\ f # b
      BY <1>10
    <3>1. Apart(Span(f[1], f[2]), Span(at, level))
      BY <1>11, <1>12, <1>14 DEF Apart
    <3> QED
      BY <1>10, <1>11, <3>1 DEF Apart
  <2>3. ~freeBit[at]
    <3>1. at \in Units /\ at \notin MemUnits
      BY <1>5, <1>11, <1>12 DEF Apart
    <3>2. Free(freelist) \cup {} = Free(freelist)
      OBVIOUS
    <3> QED
      BY <1>4, <3>1, <3>2 DEF BuddyOK
  <2>4. \A u \in Units : freeBit[u] => u \in Area(Free(freelist) \cup {b})
    <3>1. Area(Free(freelist) \cup {}) \subseteq Area(Free(freelist) \cup {b})
      BY DEF Area
    <3> QED
      BY <1>4, <3>1 DEF BuddyOK
  <2>5. \A x, y \in Free(freelist) \cup {b} : x # y => Apart(Span(x[1], x[2]), Span(y[1], y[2]))
    <3>1. \A x, y \in Free(freelist) : x # y => Apart(Span(x[1], x[2]), Span(y[1], y[2]))
      BY <1>4 DEF BuddyOK
    <3> QED
      BY <2>2, <3>1 DEF Apart
  <2> QED
    BY <1>4, <1>10, <2>1, <2>2, <2>3, <2>4, <2>5 DEF BuddyOK, Apart
<1>16. PICK m, M, N, me : /\ m = MergedLevel(at, level) /\ M = MergedBlocks(at, level)
                          /\ N = MergedInto(at, level) /\ me = <<at, level>>
  OBVIOUS
<1>17. /\ BuddyOK(freelist', hdr', freeBit', {})
       /\ Area(Free(freelist') \cup {}) = Area(Free(freelist) \cup {b})
       /\ \A u \in Units \ Span(N[1], N[2]) : hdr'[u] = hdr[u]
  <2>1. PICK check \in BOOLEAN : MergeIn(at, level, check)
    BY <1>6
  <2>2. <<at, level>> \in T /\ BuddyOK(freelist, hdr, freeBit, T)
    BY <1>10, <1>15
  <2>3. \A u \in Span(at, level) : hdr[u] = Zero
    BY <1>6, <1>11
  <2>4. MergeReady(T, at, level)
    BY <2>2, <2>3 DEF MergeReady
  <2>5. Merged(T, at, level)
    BY <2>1, <2>4, MergeStep
  <2>6. T \ {<<at, level>>} = {}
    BY <1>10, <1>16
  <2> QED
    BY <1>10, <1>16, <2>5, <2>6 DEF Merged
<1>18. \A u \in (at + size)..(end - 1) : hdr'[u] = Zero
  <2> SUFFICES ASSUME NEW u \in (at + size)..(end - 1) PROVE u \in Units \ Span(N[1], N[2])
    BY <1>4, <1>6, <1>17, <1>8
  <2>1. u \in at..(end - 1) /\ u \notin Span(at, level) /\ u \in Units
    <3>1. u \in Int /\ at + size <= u /\ u <= end - 1
      BY <1>4, <1>5, <1>8
    <3>2. u \in at..(end - 1) /\ u \notin at..(at + size - 1)
      BY <1>4, <1>5, <1>8, <3>1
    <3> QED
      BY <1>5, <1>11, <3>2
  <2>2. Span(N[1], N[2]) = Span(at, level) \cup Area(M) /\ M \subseteq Free(freelist)
    <3>1. <<at, level>> \in T /\ BuddyOK(freelist, hdr, freeBit, T)
      BY <1>10, <1>15
    <3>2. PICK F : F = Free(freelist)
      OBVIOUS
    <3>3. /\ at \in Nat /\ level \in Levels /\ m \in Levels /\ level <= m
          /\ M \subseteq F /\ N \in Blocks
          /\ Span(N[1], N[2]) = Span(at, level) \cup Area(M)
          /\ \A f \in (F \cup T) \ (M \cup {me}) : Apart(Span(f[1], f[2]), Span(N[1], N[2]))
          /\ N \notin (F \cup T) \ (M \cup {me})
          /\ m < MAX_LEVEL - 1 => <<Neighbor(N[1], m), m>> \notin F
      BY <1>16, <3>1, <3>2, MergeShape
    <3> QED
      BY <3>2, <3>3
  <2>3. Area(M) \subseteq MemUnits
    BY <1>14, <2>2 DEF Area
  <2> QED
    BY <1>12, <2>1, <2>2, <2>3 DEF Apart
<1>19. LockOK' /\ HandsOK' /\ Taken' = {} /\ op' \in [Cpus -> OpStates] /\ \A c \in Cpus : op'[c] = Idle
  BY <1>1, BootQuiet
<1>20. Area(Free(freelist') \cup Taken') = MemUnits'
  <2>1. Area(Free(freelist) \cup {b}) = Area(Free(freelist)) \cup Span(at, level)
    BY <1>10 DEF Area
  <2> QED
    BY <1>4, <1>13, <1>17, <1>19, <2>1
<1>21. (at + size) % UnitsPerPage = 0
  <2>1. PICK k \in Nat : at = k * size
    BY <1>4, <1>7, <1>8, Multiple
  <2>2. at + size = (k + 1) * size /\ k + 1 \in Nat
    BY <1>8, <2>1
  <2>3. (at + size) % 2 ^ level = 0
    <3>1. PICK p \in Nat : p = at + size
      BY <1>4, <1>8
    <3>2. p % size = 0
      BY <1>8, <2>2, <3>1, Multiple
    <3> QED
      BY <1>8, <3>1, <3>2
  <2> QED
    BY <1>4, <1>7, <1>8, <2>3, AlignedBelow, LevelAssumption DEF UnitsPerPage
<1>22. BootOK'
  <2>1. boot'.started /\ boot'.region = i /\ boot'.at = at + size /\ ~Booted'
    BY <1>1, <1>2, <1>9 DEF Booted
  <2>2. owned' = {}
    BY <1>1 DEF PhysInv, BuddyInv, BootOK
  <2>3. r1 <= at + size /\ at + size <= end
    BY <1>4, <1>5, <1>6, <1>7, <1>8
  <2> QED
    BY <1>2, <1>18, <1>19, <1>21, <2>1, <2>2, <2>3 DEF BootOK, UnitsPerPage, Idle
<1>23. PhysTypes'
  <2>1. at + size \in Nat
    BY <1>4, <1>8
  <2> QED
    BY <1>1, <1>4, <1>9, <1>19, <2>1 DEF PhysInv, BuddyInv, PhysTypes, OpStates
<1>24. BuddyInv'
  BY <1>17, <1>19, <1>20, <1>22, <1>23, BuddyNext
<1>25. FramesOK' /\ ClaimsOK'
  BY <1>1 DEF PhysInv, FramesOK, FrameFits, ClaimsOK, PagesToCommit, get_page_count_by_level
<1>26. PagesExact'
  <2>1. PICK n : n = get_page_count_by_level(level)
    OBVIOUS
  <2>2. n \in Nat /\ Cardinality(PagesIn(Span(at, level))) = n
    BY <1>4, <1>5, <1>7, <1>8, <2>1, PagesOfBlock, LevelAssumption
  <2>3. Cardinality(BigPages(freelist')) = Cardinality(BigPages(freelist)) + n
    <3>1. <<at, level>> \in T /\ BuddyOK(freelist, hdr, freeBit, T)
      BY <1>10, <1>15
    <3>2. PagesToUncommit(level, MergedLevel(at, level)) = n
      BY <1>7, <2>1 DEF PagesToUncommit
    <3> QED
      BY <1>6, <3>1, <3>2, MergePages
  <2>4. Cardinality(PagesIn(MemUnits \cup Span(at, level))) = Cardinality(PagesIn(MemUnits)) + n
    <3>1. Apart(MemUnits, Span(at, level))
      BY <1>11, <1>12 DEF Apart
    <3> QED
      BY <2>2, <3>1, PagesUnion
  <2>5. Cardinality(BigPages(freelist)) + held["committed"] = Cardinality(PagesIn(MemUnits))
    BY <1>4, FreePagesAre DEF PhysInv, PagesExact
  <2>6. /\ Cardinality(BigPages(freelist)) \in Nat /\ Cardinality(PagesIn(MemUnits)) \in Nat
        /\ held["committed"] \in Nat
    BY PagesFinite, HeldType DEF BigPages, PhysInv
  <2>7. Cardinality(BigPages(freelist')) + held["committed"]
          = Cardinality(PagesIn(MemUnits \cup Span(at, level)))
    BY <2>2, <2>3, <2>4, <2>5, <2>6
  <2>8. \A c \in Cpus : ~Granted(c)'
    BY <1>19 DEF Granted, Idle
  <2>9. /\ PagesIn(MemUnits)' = PagesIn(MemUnits \cup Span(at, level))
        /\ PagesIn(DoneUnits)' = PagesIn(DoneUnits)
    BY <1>13 DEF PagesIn
  <2>10. Cardinality(FreePages)' + held'["committed"] = Cardinality(PagesIn(MemUnits))'
    BY <1>1, <2>7, <2>9, FreePagesNext
  <2>11. held'["outside"] + Cardinality(PagesIn(DoneUnits))' = MaxPages
    BY <1>1, <2>9 DEF PhysInv, PagesExact
  <2> QED
    BY <2>8, <2>10, <2>11 DEF PagesExact
<1> QED
  BY <1>1, <1>24, <1>25, <1>26 DEF Moved, AcctMove

LEMMA EndStep == ASSUME PhysInv, AddMemoryEnd PROVE Moved
<1>1. /\ ~Booted /\ boot.started /\ UNCHANGED <<buddyVars, lock, op, owned>>
      /\ UNCHANGED <<freelist, hdr, freeBit>>
  BY DEF AddMemoryEnd, buddyVars
<1>2. PICK i, r1, r2, n : /\ i = boot.region /\ r1 = Regions[i][1] /\ r2 = Regions[i][2]
                          /\ n = (r2 - r1) \div UnitsPerPage
  OBVIOUS
<1>3. /\ i \in 1..Len(Regions) /\ i \in Nat /\ BuddyOK(freelist, hdr, freeBit, {})
      /\ Area(Free(freelist)) = MemUnits /\ Apart(DoneUnits, RegionUnits(i))
      /\ \A c \in Cpus : op[c].pc = "idle" /\ ~Granted(c)
  BY <1>1, <1>2, BootFacts
<1>4. /\ r1 \in Nat /\ r2 \in Nat /\ r1 < r2 /\ r2 <= NumUnits /\ RegionUnits(i) = r1..(r2 - 1)
      /\ r1 % UnitsPerPage = 0 /\ r2 % UnitsPerPage = 0
  BY <1>2, <1>3, RegionFacts DEF RegionUnits
<1>5. boot.at = r2 /\ Call(BootCpu, "add_total", n)
      /\ boot' = [region |-> i + 1, started |-> FALSE, at |-> 0]
  BY <1>2 DEF AddMemoryEnd
<1>6. DoneUnits' = DoneUnits \cup RegionUnits(i) /\ MemUnits' = MemUnits /\ MemUnits' = DoneUnits'
  <2>1. boot'.region = i + 1 /\ ~boot'.started
    BY <1>5
  <2>2. DoneUnits' = UNION {RegionUnits(k) : k \in 1..i}
    <3>1. (i + 1) - 1 = i
      BY <1>3
    <3> QED
      BY <2>1, <3>1 DEF DoneUnits, RegionUnits
  <2>3. 1..i = (1..(i - 1)) \cup {i}
    BY <1>3
  <2>4. UNION {RegionUnits(k) : k \in 1..i} = DoneUnits \cup RegionUnits(i)
    BY <1>2, <2>3 DEF DoneUnits
  <2>5. MemUnits = DoneUnits \cup RegionUnits(i)
    BY <1>1, <1>2, <1>4, <1>5 DEF MemUnits
  <2>6. MemUnits' = DoneUnits'
    BY <2>1 DEF MemUnits
  <2> QED
    BY <2>2, <2>4, <2>5, <2>6
<1>7. n \in Nat /\ Cardinality(PagesIn(RegionUnits(i))) = n
  <2>1. PICK s \in Nat \ {0} : s = UnitsPerPage
    BY UnitsPerPageType
  <2>2. PICK j \in Nat, k \in Nat : r1 = j * s /\ r2 = k * s
    <3>1. PICK j \in Nat : r1 = j * s
      BY <1>4, <2>1, Multiple
    <3>2. PICK k \in Nat : r2 = k * s
      BY <1>4, <2>1, Multiple
    <3> QED
      BY <3>1, <3>2
  <2>3. j <= k
    <3> SUFFICES ASSUME k < j PROVE FALSE
      BY <2>2
    <3>1. k * s <= j * s
      BY <2>1, <2>2, MulMono
    <3> QED
      BY <1>4, <2>2, <3>1
  <2>4. Cardinality(PagesIn(RegionUnits(i))) = k - j
    BY <1>4, <2>1, <2>2, <2>3, PagesOfInterval
  <2>5. PICK d \in Nat : d = k - j
    BY <2>2, <2>3
  <2>6. r2 - r1 = d * s
    BY <2>1, <2>2, <2>5
  <2>7. (d * s) \div s = d
    BY <2>1, <2>5
  <2> QED
    BY <1>2, <2>1, <2>4, <2>5, <2>6, <2>7
<1>8. Cardinality(PagesIn(DoneUnits \cup RegionUnits(i))) = Cardinality(PagesIn(DoneUnits)) + n
  BY <1>3, <1>7, PagesUnion
<1>9. Cardinality(PagesIn(DoneUnits \cup RegionUnits(i))) <= MaxPages
  <2>1. DoneUnits \cup RegionUnits(i) \subseteq UNION {RegionUnits(k) : k \in 1..Len(Regions)}
    <3>1. \A k \in 1..(i - 1) : k \in 1..Len(Regions)
      BY <1>3
    <3> QED
      BY <1>2, <1>3, <3>1 DEF DoneUnits
  <2>2. PICK all : all = UNION {RegionUnits(k) : k \in 1..Len(Regions)}
    OBVIOUS
  <2>3. Cardinality(PagesIn(all)) <= MaxPages
    BY <2>2, RegionAssumption
  <2>4. Cardinality(PagesIn(DoneUnits \cup RegionUnits(i))) <= Cardinality(PagesIn(all))
    BY <2>1, <2>2, PagesSubset
  <2> QED
    BY <2>3, <2>4, PagesFinite, PagesAssumption
<1>10. /\ held["outside"] + Cardinality(PagesIn(DoneUnits)) = MaxPages
       /\ held["outside"] \in Nat /\ Cardinality(PagesIn(DoneUnits)) \in Nat
  BY PagesFinite, HeldType DEF PhysInv, PagesExact
<1>11. n <= held["outside"] /\ n \in Word
  BY <1>7, <1>8, <1>9, <1>10, PagesAssumption, WordAssumption DEF Word
<1>12. AcctNext
  BY <1>5, <1>11, BootAssumption DEF AcctNext, AddTotal
<1>13. /\ frame'[BootCpu].pc # "idle" /\ frame'[BootCpu].op = "add_total"
       /\ (\A d \in Cpus \ {BootCpu} : frame'[d] = frame[d])
       /\ held'["committed"] = held["committed"] /\ held'["reserved"] = held["reserved"]
       /\ held'["outside"] = held["outside"] - n
  <2>1. "add_total" \in Ops
    BY DEF Ops
  <2> QED
    BY <1>5, <2>1, BootAssumption, CallFacts DEF PhysInv
<1>14. LockOK' /\ HandsOK' /\ Taken' = {} /\ op' \in [Cpus -> OpStates] /\ \A c \in Cpus : op'[c] = Idle
  BY <1>1, BootQuiet
<1>15. BootOK'
  <2>1. owned' = {} /\ ~boot'.started
    BY <1>1, <1>5 DEF PhysInv, BuddyInv, BootOK
  <2> QED
    BY <1>14, <2>1 DEF BootOK, Idle
<1>16. PhysTypes'
  <2>1. i + 1 \in 1..(Len(Regions) + 1)
    BY <1>3, RegionAssumption
  <2> QED
    BY <1>1, <1>5, <1>14, <2>1 DEF PhysInv, BuddyInv, PhysTypes, OpStates
<1>17. BuddyInv'
  BY <1>1, <1>3, <1>6, <1>14, <1>15, <1>16, BuddyNext
<1>18. FramesOK'
  <2>1. FrameFits(op[BootCpu], frame[BootCpu]) /\ op[BootCpu].pc = "idle" /\ PhysTypes /\ FramesOK
    BY <1>3, BootAssumption DEF PhysInv, BuddyInv, FramesOK
  <2>2. FrameFits(op'[BootCpu], frame'[BootCpu])
    BY <1>1, <1>13, <2>1 DEF FrameFits
  <2> QED
    BY <1>1, <1>13, <2>1, <2>2, BootAssumption, FramesStep
<1>19. ClaimsOK'
  BY <1>14 DEF ClaimsOK, Idle
<1>20. PagesExact'
  <2>1. \A c \in Cpus : ~Granted(c)'
    BY <1>14 DEF Granted, Idle
  <2>2. FreePages' = FreePages
    BY <1>1, FreePagesAre, FreePagesNext
  <2>3. /\ PagesIn(MemUnits)' = PagesIn(MemUnits)
        /\ PagesIn(DoneUnits)' = PagesIn(DoneUnits \cup RegionUnits(i))
    BY <1>6 DEF PagesIn
  <2>4. Cardinality(FreePages)' + held'["committed"] = Cardinality(PagesIn(MemUnits))'
    BY <1>3, <1>13, <2>2, <2>3 DEF PhysInv, PagesExact
  <2>5. held'["outside"] + Cardinality(PagesIn(DoneUnits))' = MaxPages
    BY <1>7, <1>8, <1>10, <1>13, <2>3
  <2> QED
    BY <2>1, <2>4, <2>5 DEF PagesExact
<1> QED
  BY <1>12, <1>17, <1>18, <1>19, <1>20 DEF Moved, AcctMove

-----------------------------------------------------------------------------
(* The theorems *)

LEMMA PhysInvInit == PhysInit => PhysInv
<1> SUFFICES ASSUME PhysInit PROVE PhysInv
  OBVIOUS
<1>1. AcctInv
  BY AcctInvInit DEF PhysInit
<1>2. 0 \in Levels /\ Len(Regions) \in Nat
  BY LevelAssumption, RegionAssumption DEF Levels
<1>3. /\ freelist = [l \in Levels |-> <<>>] /\ hdr = [u \in Units |-> Data]
      /\ freeBit = [u \in Units |-> FALSE] /\ lock = 0 /\ op = [c \in Cpus |-> Idle]
      /\ owned = {} /\ boot = [region |-> 1, started |-> FALSE, at |-> 0]
  BY DEF PhysInit
<1>4. PICK idle : /\ idle = Idle /\ idle \in OpStates /\ idle.pc = "idle"
                  /\ idle.ptr = NoBlock /\ ~idle.reserved
  <2>1. PICK idle : idle = Idle
    OBVIOUS
  <2>2. idle \in OpStates /\ idle.pc = "idle" /\ idle.ptr = NoBlock /\ ~idle.reserved
    BY <1>2, <2>1 DEF Idle, OpStates
  <2> QED
    BY <2>1, <2>2
<1>5. \A c \in Cpus : op[c] = idle
  BY <1>3, <1>4
<1>6. Taken = {} /\ Free(freelist) = {} /\ FreeBlocks = {}
  <2>1. BlocksInHand = {}
    BY <1>4, <1>5 DEF BlocksInHand
  <2>2. Range(<<>>) = {}
    BY DEF Range
  <2>3. \A l \in Levels : freelist[l] = <<>>
    BY <1>3
  <2> QED
    BY <1>3, <2>1, <2>2, <2>3 DEF Taken, Free, FreeBlocks
<1>7. DoneUnits = {} /\ MemUnits = {}
  <2>1. boot.region = 1 /\ ~boot.started /\ 1..(1 - 1) = {}
    BY <1>3
  <2>2. DoneUnits = {}
    BY <2>1 DEF DoneUnits
  <2> QED
    BY <2>1, <2>2 DEF MemUnits
<1>8. PhysTypes /\ LockOK /\ HandsOK /\ BootOK
  <2>1. PhysTypes
    BY <1>2, <1>3, <1>4, <1>5 DEF PhysTypes
  <2>2. LockOK
    BY <1>4, <1>5 DEF LockOK, InLock
  <2>3. HandsOK
    BY <1>4, <1>5 DEF HandsOK
  <2>4. BootOK
    BY <1>3, <1>4, <1>5 DEF BootOK
  <2> QED
    BY <2>1, <2>2, <2>3, <2>4
<1>9. BuddyOK(freelist, hdr, freeBit, Taken)
  <2>1. freelist \in [Levels -> Seq(Units)] /\ \A l \in Levels : NoDuplicates(freelist[l])
    BY <1>3 DEF NoDuplicates
  <2>2. /\ hdr \in [Units -> Levels \cup {Zero, Data}] /\ freeBit \in [Units -> BOOLEAN]
        /\ \A u \in Units : ~freeBit[u]
    BY <1>3
  <2> QED
    BY <1>6, <2>1, <2>2 DEF BuddyOK, Apart
<1>10. Area(FreeBlocks \cup Taken) = MemUnits
  BY <1>6, <1>7 DEF Area
<1>11. FramesOK /\ ClaimsOK
  <2>1. \A c \in Cpus : frame[c].pc = "idle"
    BY DEF PhysInit, AcctInit, Returned
  <2> QED
    BY <1>4, <1>5, <2>1 DEF FramesOK, FrameFits, ClaimsOK
<1>12. PagesExact
  <2>1. FreePages = {} /\ PagesIn(MemUnits) = {} /\ PagesIn(DoneUnits) = {}
    BY <1>6, <1>7 DEF FreePages, PagesIn
  <2>2. held["committed"] = 0 /\ held["outside"] = MaxPages
    BY DEF PhysInit, AcctInit, Owned
  <2>3. \A c \in Cpus : ~Granted(c)
    BY <1>4, <1>5 DEF Granted
  <2>4. Cardinality({}) = 0
    BY FS_EmptySet
  <2> QED
    BY <2>1, <2>2, <2>3, <2>4, PagesAssumption DEF PagesExact
<1> QED
  BY <1>1, <1>8, <1>9, <1>10, <1>11, <1>12 DEF PhysInv, BuddyInv

LEMMA PhysInvStep == PhysInv /\ [PhysNext]_physVars => PhysInv' /\ AcctMove
<1> SUFFICES ASSUME PhysInv, [PhysNext]_physVars PROVE PhysInv' /\ AcctMove
  OBVIOUS
<1>1. CASE PhysNext
  <2>1. ASSUME AddMemoryStart \/ AddMemoryBlock \/ AddMemoryEnd PROVE Moved
    BY <2>1, StartStep, BlockStep, EndStep
  <2>2. ASSUME NEW c \in Cpus,
               \/ \E size \in Sizes : phys_alloc(c, size) \/ phys_alloc_reserved(c, size)
               \/ AllocSearch(c) \/ AllocRefused(c) \/ AllocTake(c) \/ AllocReturn(c)
               \/ \E block \in owned : phys_free(c, block) \/ phys_free_reserved(c, block)
               \/ FreeMerge(c)
               \/ \E n \in Requests : Reserving(c, n) \/ Unreserving(c, n)
               \/ AcctRuns(c)
        PROVE  Moved
    BY <2>2, AllocStep, SearchStep, RefusedStep, TakeStep, ReturnStep, FreeStep, MergesStep,
       ReservingStep, AcctRunsStep
  <2>3. Moved
    BY <1>1, <2>1, <2>2 DEF PhysNext
  <2> QED
    BY <2>3, AcctMoves DEF Moved, PhysInv
<1>2. CASE UNCHANGED physVars
  <2>1. /\ UNCHANGED acctVars /\ UNCHANGED <<pages, frame, held>>
        /\ UNCHANGED <<buddyVars, lock, op, owned, boot>> /\ UNCHANGED <<freelist, boot>>
    BY <1>2 DEF physVars, acctVars, buddyVars
  <2>2. BuddyInv' /\ FreePages' = FreePages /\ MemUnits' = MemUnits /\ DoneUnits' = DoneUnits
    BY <2>1, StillStep, SameMemory DEF PhysInv
  <2>3. FramesOK' /\ ClaimsOK'
    BY <2>1 DEF PhysInv, FramesOK, FrameFits, ClaimsOK, PagesToCommit, get_page_count_by_level
  <2>4. PagesExact'
    BY <2>1, <2>2 DEF PhysInv, PagesExact, Granted, PagesIn, PagesToCommit, get_page_count_by_level
  <2> QED
    BY <2>1, <2>2, <2>3, <2>4, AcctMoves DEF PhysInv, AcctMove
<1> QED
  BY <1>1, <1>2

(* What phys.c keeps true in every state: the order of its freelists,      *)
(* headers and bitmap, and the pages the accounting owes to them.          *)
THEOREM PhysInvariant == PhysSpec => []PhysInv
BY PhysInvInit, PhysInvStep, PTL DEF PhysSpec

(* No assertion of phys.c or accounting.c fails (phys.c:113, 136, 192,     *)
(* accounting.c:47).                                                       *)
THEOREM PhysNoPanic == PhysSpec => []NoPanic
<1>1. PhysInv => NoPanic
  BY DEF PhysInv, AcctInv, NoUnderflow, BuddyInv, PhysTypes, OpStates, InLock, NoPanic
<1> QED
  BY <1>1, PhysInvariant, PTL

(* No memory belongs to two blocks, however phys_alloc splits and          *)
(* phys_free merges.                                                       *)
THEOREM PhysBlocksDisjoint == PhysSpec => []BlocksDisjoint
<1>1. ASSUME PhysInv PROVE BlocksDisjoint
  <2>1. HandsOK /\ BuddyOK(freelist, hdr, freeBit, Taken)
    BY <1>1 DEF PhysInv, BuddyInv
  <2>2. FreeBlocks = Free(freelist) /\ Taken = owned \cup BlocksInHand
    BY DEF FreeBlocks, Free, Taken
  <2>3. \A a, b \in FreeBlocks \cup owned \cup BlocksInHand :
          a # b => Apart(Span(a[1], a[2]), Span(b[1], b[2]))
    BY <2>1, <2>2 DEF BuddyOK
  <2>4. Apart(owned, FreeBlocks) /\ Apart(FreeBlocks, BlocksInHand)
    BY <2>1, <2>2 DEF BuddyOK, Apart
  <2>5. Apart(owned, BlocksInHand)
    BY <2>1 DEF HandsOK, BlocksInHand, Apart
  <2>6. Apart(owned, FreeBlocks \cup BlocksInHand)
    BY <2>4, <2>5 DEF Apart
  <2>7. \A l \in Levels : \A i, j \in 1..Len(freelist[l]) : freelist[l][i] = freelist[l][j] => i = j
    BY <2>1 DEF BuddyOK, NoDuplicates
  <2> QED
    BY <2>3, <2>4, <2>6, <2>7 DEF BlocksDisjoint
<1> QED
  BY <1>1, PhysInvariant, PTL

(* The merge loop leaves no two free buddies (phys.c:196-227). *)
THEOREM PhysFullyMerged == PhysSpec => []FullyMerged
<1>1. ASSUME PhysInv PROVE FullyMerged
  <2>1. BuddyOK(freelist, hdr, freeBit, Taken) /\ FreeBlocks = Free(freelist)
    BY <1>1 DEF PhysInv, BuddyInv, FreeBlocks, Free
  <2> QED
    BY <2>1 DEF BuddyOK, FullyMerged
<1> QED
  BY <1>1, PhysInvariant, PTL

(* What phys_alloc returns is zero (phys.c:138-140). *)
THEOREM PhysZeroedOnAlloc == PhysSpec => []ZeroedOnAlloc
<1>1. ASSUME PhysInv PROVE ZeroedOnAlloc
  <2>1. HandsOK /\ LockOK
    BY <1>1 DEF PhysInv, BuddyInv
  <2> QED
    BY <2>1 DEF HandsOK, LockOK, ZeroedOnAlloc
<1> QED
  BY <1>1, PhysInvariant, PTL

(* The counters promise only pages that are free (phys.c:107). *)
THEOREM PhysPromisesBacked == PhysSpec => []PromisesBacked
<1>1. PhysInv => PromisesBacked
  BY PromisesHold
<1> QED
  BY <1>1, PhysInvariant, PTL

(* At rest the counters know of every free page: phys_free gives back      *)
(* exactly what phys_alloc committed.                                      *)
THEOREM PhysCommittedExact == PhysSpec => []CommittedExact
<1>1. ASSUME PhysInv, Booted, \A c \in Cpus : op[c].pc = "idle" /\ frame[c].pc = "idle"
      PROVE  pages["available"] + pages["reserved"] = Cardinality(FreePages)
  <2>1. /\ \A k : DebitOf(k) = [c \in Cpus |-> 0] /\ CreditOf(k) = [c \in Cpus |-> 0]
        /\ GrowthOf = [c \in Cpus |-> 0]
    BY <1>1 DEF DebitOf, CreditOf, GrowthOf
  <2>2. (\A k : Debiting(k) = 0 /\ Crediting(k) = 0) /\ Growing = 0
    BY <2>1, SumOfZeros DEF Debiting, Crediting, Growing
  <2>3. /\ pages["available"] + pages["reserved"] + pages["committed"] = pages["total"]
        /\ pages["committed"] = held["committed"] /\ pages["total"] + held["outside"] = MaxPages
    <3>1. /\ pages["available"] \in Nat /\ pages["reserved"] \in Nat /\ pages["committed"] \in Nat
          /\ pages["total"] \in Nat /\ held["committed"] \in Nat /\ held["outside"] \in Nat
      BY <1>1, HeldType DEF PhysInv, AcctInv, Types, Counters
    <3> QED
      BY <1>1, <2>2, <3>1 DEF PhysInv, AcctInv, Conservation, Backed
  <2>4. \A c \in Cpus : ~Granted(c)
    BY <1>1 DEF Granted
  <2>5. /\ Cardinality(FreePages) + held["committed"] = Cardinality(PagesIn(DoneUnits))
        /\ held["outside"] + Cardinality(PagesIn(DoneUnits)) = MaxPages
    BY <1>1, <2>4, MemoryCounted DEF PhysInv, PagesExact
  <2>6. /\ pages["available"] \in Nat /\ pages["reserved"] \in Nat /\ pages["total"] \in Nat
        /\ held["committed"] \in Nat /\ held["outside"] \in Nat /\ MaxPages \in Nat
        /\ Cardinality(FreePages) \in Nat /\ Cardinality(PagesIn(DoneUnits)) \in Nat
    BY <1>1, HeldType, PagesFinite, PagesAssumption DEF PhysInv, AcctInv, Types, Counters, FreePages
  <2>7. PICK av, re, co, to, hc, ho, free, done :
          /\ av = pages["available"] /\ re = pages["reserved"] /\ co = pages["committed"]
          /\ to = pages["total"] /\ hc = held["committed"] /\ ho = held["outside"]
          /\ free = Cardinality(FreePages) /\ done = Cardinality(PagesIn(DoneUnits))
    OBVIOUS
  <2>8. /\ av + re + co = to /\ co = hc /\ to + ho = MaxPages
        /\ free + hc = done /\ ho + done = MaxPages
        /\ av \in Nat /\ re \in Nat /\ to \in Nat /\ hc \in Nat /\ ho \in Nat
        /\ free \in Nat /\ done \in Nat /\ MaxPages \in Nat
    BY <2>3, <2>5, <2>6, <2>7
  <2>9. av + re = free
    BY <2>8
  <2> QED
    BY <2>7, <2>9
<1>2. PhysInv => CommittedExact
  BY <1>1 DEF CommittedExact
<1> QED
  BY <1>2, PhysInvariant, PTL

(* phys.c and its callers keep the contract of mem_acct_*: they return     *)
(* only pages they hold, and commit reserved pages only out of their own   *)
(* reservations.                                                           *)
THEOREM PhysUsesAccounting == PhysSpec => UsesAccounting
<1>1. PhysInit => AcctInit
  BY DEF PhysInit
<1>2. PhysInv /\ [PhysNext]_physVars => [UNCHANGED acctVars \/ AcctNext]_acctVars
  BY PhysInvStep DEF AcctMove
<1> QED
  BY <1>1, <1>2, PhysInvariant, PTL DEF PhysSpec, UsesAccounting
=============================================================================
