----------------------------- MODULE SlabProofs -----------------------------
(***************************************************************************)
(* The slab allocator is exact for any number of cores, any number of      *)
(* pages and any number of objects per slab: each slab is in the list its  *)
(* count says, no object is handed out twice or lost, and what is handed   *)
(* out holds no link of the free list.                                     *)
(***************************************************************************)
EXTENDS Slab, ListTheorems

Mine(s) == {o \in Objects : object_to_slab(o) = s}
Busy(c) == call[c].op \in {"alloc", "free"}

SlabTypeOK ==
  /\ lock \in {0, 1}
  /\ partial \in Seq(Slabs) /\ full \in Seq(Slabs) /\ empty \in Seq(Slabs)
  /\ free \in [Slabs -> Seq(Objects)]
  /\ in_use \in [Slabs -> 0..ObjectsPerSlab]
  /\ content \in [Objects -> {"zero", "links", "used"}]
  /\ owned \subseteq Objects
  /\ call \in [Cpus -> [op : {"none", "alloc", "free", "halted"}, object : Objects \cup {None}]]

(* The lock is taken by the one core that is inside an operation. *)
LockHeld ==
  /\ \A c \in Cpus : Busy(c) => lock = 1
  /\ \A c, d \in Cpus : Busy(c) /\ Busy(d) => c = d

(* The lists agree with the counts; a page that is no slab yet counts nothing. *)
Listed ==
  /\ NoDuplicates(partial) /\ NoDuplicates(full) /\ NoDuplicates(empty)
  /\ \A s \in Slabs :
       /\ s \in Range(partial) => in_use[s] # 0 /\ in_use[s] # ObjectsPerSlab
       /\ s \in Range(full) => in_use[s] = ObjectsPerSlab
       /\ s \in Range(empty) => in_use[s] = 0
       /\ s \notin Known => in_use[s] = 0

(* The free list of a slab: objects of the slab, each once, nobody's, and  *)
(* as many as are not in use                                               *)
FreeListed ==
  \A s \in Known :
    /\ NoDuplicates(free[s])
    /\ in_use[s] = ObjectsPerSlab - Len(free[s])
    /\ Range(free[s]) \subseteq Mine(s)
    /\ \A o \in Range(free[s]) : o \notin owned /\ content[o] = "links"

(* What a user holds or gives back is an object of a slab. *)
HeldKnown ==
  /\ \A o \in owned : object_to_slab(o) \in Known /\ content[o] # "links"
  /\ \A c \in Cpus : call[c].op = "free" =>
       LET o == call[c].object
       IN  /\ o \in Objects /\ o \notin owned
           /\ object_to_slab(o) \in Known /\ o \notin Range(free[object_to_slab(o)])

SlabInv == SlabTypeOK /\ LockHeld /\ Listed /\ FreeListed /\ HeldKnown

-----------------------------------------------------------------------------
(* A slab has ObjectsPerSlab objects. *)
LEMMA MineCounted ==
  ASSUME NEW s \in Slabs
  PROVE  IsFiniteSet(Mine(s)) /\ Cardinality(Mine(s)) = ObjectsPerSlab
<1> DEFINE f == [i \in 1..ObjectsPerSlab |-> <<s, i>>]
<1>1. ObjectsPerSlab \in Nat
  BY SlabAssumption
<1>2. IsFiniteSet(1..ObjectsPerSlab) /\ Cardinality(1..ObjectsPerSlab) = ObjectsPerSlab
  BY <1>1, FS_Interval
<1>3. \A o \in Mine(s) : \E i \in 1..ObjectsPerSlab : o = <<s, i>>
  BY DEF Mine, Objects, object_to_slab
<1>4. \A i \in 1..ObjectsPerSlab : <<s, i>> \in Mine(s)
  BY DEF Mine, Objects, object_to_slab
<1>5. f \in Bijection(1..ObjectsPerSlab, Mine(s))
  BY <1>3, <1>4 DEF Bijection, Injection, Surjection, IsInjective
<1>6. ExistsBijection(1..ObjectsPerSlab, Mine(s))
  BY <1>5 DEF ExistsBijection
<1> QED
  BY <1>2, <1>6, FS_Bijection

(* While an object of a slab is missing from a list of its objects, the    *)
(* list is shorter than the slab.                                          *)
LEMMA RoomForOne ==
  ASSUME NEW s \in Slabs, NEW list \in Seq(Objects), NoDuplicates(list),
         Range(list) \subseteq Mine(s), NEW o \in Mine(s), o \notin Range(list)
  PROVE  Len(list) < ObjectsPerSlab
<1>1. IsFiniteSet(Range(list)) /\ Cardinality(Range(list)) = Len(list)
  BY LengthCounts
<1>2. IsFiniteSet(Mine(s)) /\ Cardinality(Mine(s)) = ObjectsPerSlab
  BY MineCounted
<1>3. Range(list) # Mine(s)
  OBVIOUS
<1>4. Cardinality(Range(list)) <= Cardinality(Mine(s)) /\ Cardinality(Range(list)) # Cardinality(Mine(s))
  BY <1>2, <1>3, FS_Subset
<1> QED
  BY <1>1, <1>2, <1>4, SlabAssumption

(* slab_create links every object of the slab once. *)
LEMMA Created ==
  ASSUME NEW s \in Slabs
  PROVE  /\ slab_create(s) \in Seq(Objects) /\ Len(slab_create(s)) = ObjectsPerSlab
         /\ NoDuplicates(slab_create(s)) /\ Range(slab_create(s)) \subseteq Mine(s)
<1> DEFINE list == slab_create(s)
<1>1. ObjectsPerSlab \in Nat
  BY SlabAssumption
<1>2. \A i \in 1..ObjectsPerSlab : ObjectsPerSlab + 1 - i \in 1..ObjectsPerSlab
  BY <1>1
<1>3. \A i \in 1..ObjectsPerSlab :
        list[i] = <<s, ObjectsPerSlab + 1 - i>> /\ list[i] \in Objects /\ list[i] \in Mine(s)
  BY <1>2 DEF slab_create, Objects, Mine, object_to_slab
<1>4. list \in [1..ObjectsPerSlab -> Objects]
  BY <1>3 DEF slab_create
<1>5. list \in Seq(Objects) /\ Len(list) = ObjectsPerSlab /\ DOMAIN list = 1..ObjectsPerSlab
  BY <1>1, <1>4
<1>6. Range(list) \subseteq Mine(s)
  BY <1>3, <1>5 DEF Range
<1>7. NoDuplicates(list)
  <2> SUFFICES ASSUME NEW i \in 1..ObjectsPerSlab, NEW j \in 1..ObjectsPerSlab, i # j
               PROVE  list[i] # list[j]
    BY <1>5 DEF NoDuplicates
  <2>1. ObjectsPerSlab + 1 - i # ObjectsPerSlab + 1 - j
    BY <1>1
  <2> HIDE DEF list
  <2> QED
    BY <1>3, <2>1
<1> QED
  BY <1>5, <1>6, <1>7

(* A slab is in the one list its count says. *)
LEMMA ListsApart ==
  ASSUME SlabInv
  PROVE  /\ Range(partial) \subseteq Slabs /\ Range(full) \subseteq Slabs /\ Range(empty) \subseteq Slabs
         /\ Range(partial) \cap Range(full) = {} /\ Range(partial) \cap Range(empty) = {}
         /\ Range(full) \cap Range(empty) = {}
<1>1. ObjectsPerSlab # 0
  BY SlabAssumption
<1>2. Range(partial) \subseteq Slabs /\ Range(full) \subseteq Slabs /\ Range(empty) \subseteq Slabs
  BY DEF SlabInv, SlabTypeOK, Range
<1> QED
  BY <1>1, <1>2 DEF SlabInv, Listed

-----------------------------------------------------------------------------
(* Handing out the first of a list of free objects of slab s keeps what    *)
(* the invariant says of the objects, whichever list the slab came from.   *)
LEMMA TakeKeepsObjects ==
  ASSUME SlabInv, NEW c \in Cpus, call[c].op = "alloc", NEW s \in Slabs,
         NEW objects \in Seq(Objects), objects # <<>>, NoDuplicates(objects),
         Range(objects) \subseteq Mine(s), in_use[s] = ObjectsPerSlab - Len(objects),
         NEW memory \in [Objects -> {"zero", "links", "used"}],
         \A o \in Range(objects) : o \notin owned /\ memory[o] = "links",
         \A o \in Objects : o \in owned \/ object_to_slab(o) # s => memory[o] = content[o],
         Take(c, s, objects, memory), Known' = Known \cup {s}, Known \subseteq Slabs
  PROVE  /\ lock' \in {0, 1} /\ free' \in [Slabs -> Seq(Objects)]
         /\ in_use' \in [Slabs -> 0..ObjectsPerSlab]
         /\ content' \in [Objects -> {"zero", "links", "used"}] /\ owned' \subseteq Objects
         /\ call' \in [Cpus -> [op : {"none", "alloc", "free", "halted"}, object : Objects \cup {None}]]
         /\ LockHeld' /\ FreeListed' /\ HeldKnown'
<1> USE DEF SlabInv, SlabTypeOK
<1> DEFINE o == Head(objects)
<1>1. /\ Tail(objects) \in Seq(Objects) /\ o \in Objects /\ o \in Range(objects)
      /\ Range(objects) = Range(Tail(objects)) \cup {o}
      /\ NoDuplicates(Tail(objects)) /\ o \notin Range(Tail(objects))
  BY TakeFront
<1>2. Len(objects) \in Nat /\ Len(objects) # 0 /\ Len(Tail(objects)) = Len(objects) - 1
  OBVIOUS
<1>3. o \in Mine(s) /\ object_to_slab(o) = s /\ o \notin owned
  BY <1>1 DEF Mine
<1> HIDE DEF o
<1>4. /\ free' = [free EXCEPT ![s] = Tail(objects)] /\ content' = [memory EXCEPT ![o] = "zero"]
      /\ in_use' = [in_use EXCEPT ![s] = @ + 1] /\ owned' = owned \cup {o} /\ lock' = 0
      /\ call' = [call EXCEPT ![c] = [op |-> "none", object |-> None]]
  BY DEF Take, Goto, o
<1>5. ObjectsPerSlab \in Nat \ {0}
  BY SlabAssumption
<1>6. in_use' \in [Slabs -> 0..ObjectsPerSlab]
  BY <1>2, <1>4, <1>5
<1>7. /\ lock' \in {0, 1} /\ free' \in [Slabs -> Seq(Objects)]
      /\ content' \in [Objects -> {"zero", "links", "used"}] /\ owned' \subseteq Objects
  BY <1>1, <1>4
<1>8. call' \in [Cpus -> [op : {"none", "alloc", "free", "halted"}, object : Objects \cup {None}]]
  BY <1>4
<1>9. \A d \in Cpus : ~ Busy(d)' /\ call'[d].op # "free"
  <2> TAKE d \in Cpus
  <2>1. CASE d = c
    BY <1>4, <2>1 DEF Busy
  <2>2. CASE d # c
    <3>1. Busy(c) /\ ~ Busy(d)
      BY <2>2 DEF LockHeld, Busy
    <3> QED
      BY <1>4, <2>2, <3>1 DEF Busy
  <2> QED
    BY <2>1, <2>2
<1>10. LockHeld'
  BY <1>9 DEF LockHeld
<1>11. FreeListed'
  <2> SUFFICES ASSUME NEW r \in Known'
               PROVE  /\ NoDuplicates(free'[r])
                      /\ in_use'[r] = ObjectsPerSlab - Len(free'[r])
                      /\ Range(free'[r]) \subseteq Mine(r)
                      /\ \A q \in Range(free'[r]) : q \notin owned' /\ content'[q] = "links"
    BY DEF FreeListed, Mine, Objects
  <2>1. CASE r = s
    <3>1. free'[r] = Tail(objects) /\ in_use'[r] = in_use[s] + 1
      BY <1>4, <2>1
    <3>2. ASSUME NEW q \in Range(Tail(objects)) PROVE q \notin owned' /\ content'[q] = "links"
      BY <1>1, <1>4, <3>2 DEF Mine
    <3> QED
      BY <1>1, <1>2, <1>5, <2>1, <3>1, <3>2
  <2>2. CASE r # s
    <3>1. r \in Known /\ r \in Slabs
      BY <2>2
    <3>2. free'[r] = free[r] /\ in_use'[r] = in_use[r]
      BY <1>4, <2>2, <3>1
    <3>3. Range(free[r]) \subseteq Mine(r) /\ \A q \in Range(free[r]) : q \notin owned /\ content[q] = "links"
      BY <3>1 DEF FreeListed
    <3>4. ASSUME NEW q \in Range(free[r]) PROVE q \notin owned' /\ content'[q] = "links"
      <4>1. q \in Objects /\ object_to_slab(q) = r /\ q # o
        BY <1>3, <2>2, <3>3 DEF Mine
      <4>2. memory[q] = content[q]
        BY <2>2, <4>1
      <4> QED
        BY <1>4, <3>3, <4>1, <4>2
    <3> QED
      BY <3>1, <3>2, <3>3, <3>4 DEF FreeListed
  <2> QED
    BY <2>1, <2>2
<1>12. HeldKnown'
  <2>1. ASSUME NEW q \in owned' PROVE object_to_slab(q) \in Known' /\ content'[q] # "links"
    <3>1. CASE q = o
      BY <1>1, <1>3, <1>4, <3>1
    <3>2. CASE q # o
      <4>1. q \in owned /\ q \in Objects
        BY <1>4, <2>1, <3>2
      <4>2. memory[q] = content[q] /\ content[q] # "links" /\ object_to_slab(q) \in Known
        BY <4>1 DEF HeldKnown
      <4> QED
        BY <1>4, <3>2, <4>1, <4>2
    <3> QED
      BY <3>1, <3>2
  <2> QED
    BY <1>9, <2>1 DEF HeldKnown, object_to_slab
<1> QED
  BY <1>6, <1>7, <1>8, <1>10, <1>11, <1>12

(* Where a slab that handed out an object goes: list is what partial is    *)
(* before the count is looked at.                                          *)
LEMMA TakeKeepsLists ==
  ASSUME SlabInv, NEW s \in Slabs, NEW list \in Seq(Slabs), NoDuplicates(list),
         s \in Range(list), Range(list) \subseteq Range(partial) \cup {s},
         Range(partial) \subseteq Range(list), s \notin Range(full), s \notin Range(empty'),
         empty' \in Seq(Slabs), NoDuplicates(empty'), Range(empty') \cup {s} = Range(empty) \cup {s},
         in_use[s] # ObjectsPerSlab, in_use' = [in_use EXCEPT ![s] = @ + 1],
         PlaceTaken(s, in_use[s] + 1, list)
  PROVE  /\ partial' \in Seq(Slabs) /\ full' \in Seq(Slabs)
         /\ Known' = Known \cup {s} /\ Listed'
<1> USE DEF SlabInv, SlabTypeOK
<1>1. ObjectsPerSlab \in Nat \ {0} /\ in_use[s] \in Nat /\ in_use[s] + 1 # 0
  BY SlabAssumption
<1>2. in_use'[s] = in_use[s] + 1 /\ \A r \in Slabs : r # s => in_use'[r] = in_use[r]
  OBVIOUS
<1>3. CASE in_use[s] + 1 = ObjectsPerSlab
  <2>1. partial' = RemoveFirst(list, s) /\ full' = <<s>> \o full
    BY <1>3 DEF PlaceTaken, list_del, list_add
  <2>2. partial' \in Seq(Slabs) /\ Range(partial') = Range(list) \ {s} /\ NoDuplicates(partial')
    BY <2>1, Unlink
  <2>3. full' \in Seq(Slabs) /\ Range(full') = Range(full) \cup {s} /\ NoDuplicates(full')
    BY <2>1, PutFront DEF Listed
  <2>4. Known' = Known \cup {s}
    BY <2>2, <2>3 DEF Known
  <2>5. Listed'
    BY <1>1, <1>2, <1>3, <2>2, <2>3, <2>4 DEF Listed, Known
  <2> QED
    BY <2>2, <2>3, <2>4, <2>5
<1>4. CASE in_use[s] + 1 # ObjectsPerSlab
  <2>1. partial' = list /\ full' = full
    BY <1>4 DEF PlaceTaken
  <2>2. Known' = Known \cup {s}
    BY <2>1 DEF Known
  <2>3. Listed'
    BY <1>1, <1>2, <1>4, <2>1, <2>2 DEF Listed, Known
  <2> QED
    BY <2>1, <2>2, <2>3
<1> QED
  BY <1>3, <1>4

-----------------------------------------------------------------------------
(* No slab is known at the start. *)
LEMMA SlabInitInv == SlabInit => SlabInv
<1> SUFFICES ASSUME SlabInit PROVE SlabInv
  OBVIOUS
<1> USE DEF SlabInit
<1>1. Range(partial) = {} /\ Range(full) = {} /\ Range(empty) = {} /\ Known = {}
  BY DEF Range, Known
<1>2. SlabTypeOK
  BY SlabAssumption DEF SlabTypeOK
<1>3. LockHeld
  BY DEF LockHeld, Busy
<1>4. Listed
  BY <1>1 DEF Listed, NoDuplicates
<1>5. FreeListed /\ HeldKnown
  BY <1>1 DEF FreeListed, HeldKnown
<1> QED
  BY <1>2, <1>3, <1>4, <1>5 DEF SlabInv

(* Taking the lock, or halting on it, at the start of mem_alloc or mem_free *)
LEMMA EnterKeepsInv ==
  ASSUME SlabInv, NEW c \in Cpus,
         \/ mem_alloc(c)
         \/ \E o \in Objects : mem_free(c, o)
  PROVE  SlabInv'
<1> USE DEF SlabInv, SlabTypeOK
<1>1. /\ UNCHANGED <<partial, full, empty, free, in_use, content>>
      /\ owned' \subseteq owned
      /\ call[c].op = "none"
  BY DEF mem_alloc, mem_free, Enter
<1>2. PICK op \in {"alloc", "free", "halted"}, o \in Objects \cup {None} :
        /\ call' = [call EXCEPT ![c] = [op |-> op, object |-> o]]
        /\ op = "halted" => lock' = lock
        /\ op # "halted" => lock = 0 /\ lock' = 1
        /\ op = "free" => o \in Objects /\ o \in owned /\ o \notin owned'
  BY DEF mem_alloc, mem_free, Enter, Goto
<1>3. Known' = Known
  BY <1>1 DEF Known
<1>4. SlabTypeOK'
  BY <1>1, <1>2
<1>5. LockHeld'
  <2>1. \A d \in Cpus : d # c => Busy(d)' = Busy(d)
    BY <1>2 DEF Busy
  <2>2. Busy(c)' => lock = 0 /\ lock' = 1
    BY <1>2 DEF Busy
  <2>3. ~ Busy(c)' => lock' = lock
    BY <1>2 DEF Busy
  <2>4. ASSUME NEW d \in Cpus, Busy(d)' PROVE lock' = 1
    BY <2>1, <2>2, <2>3, <2>4 DEF LockHeld
  <2>5. ASSUME NEW d \in Cpus, NEW e \in Cpus, Busy(d)', Busy(e)' PROVE d = e
    <3>1. \A f \in Cpus : Busy(f) => lock = 1
      BY DEF LockHeld
    <3>2. lock = 0 => d = c /\ e = c
      BY <2>1, <2>5, <3>1
    <3>3. lock # 0 => d # c /\ e # c
      BY <2>2, <2>5
    <3>4. lock # 0 => Busy(d) /\ Busy(e)
      BY <2>1, <2>5, <3>3
    <3> QED
      BY <3>2, <3>4 DEF LockHeld
  <2> QED
    BY <2>4, <2>5 DEF LockHeld
<1>6. Listed'
  BY <1>1, <1>3 DEF Listed
<1>7. FreeListed'
  BY <1>1, <1>3 DEF FreeListed, Mine, Objects
<1>8. HeldKnown'
  <2>1. \A q \in owned' : object_to_slab(q) \in Known' /\ content'[q] # "links"
    BY <1>1, <1>3 DEF HeldKnown
  <2>2. ASSUME NEW d \in Cpus, call'[d].op = "free"
        PROVE  /\ call'[d].object \in Objects /\ call'[d].object \notin owned'
               /\ object_to_slab(call'[d].object) \in Known'
               /\ call'[d].object \notin Range(free'[object_to_slab(call'[d].object)])
    <3>1. CASE d = c
      <4>1. call'[d].object = o /\ o \in owned /\ o \notin owned' /\ o \in Objects
        BY <1>2, <2>2, <3>1
      <4>2. object_to_slab(o) \in Known
        BY <4>1 DEF HeldKnown
      <4>3. o \notin Range(free[object_to_slab(o)])
        BY <4>1, <4>2 DEF FreeListed
      <4> QED
        BY <1>1, <1>3, <4>1, <4>2, <4>3
    <3>2. CASE d # c
      <4>1. call'[d] = call[d]
        BY <1>2, <3>2
      <4> QED
        BY <1>1, <1>3, <2>2, <4>1 DEF HeldKnown
    <3> QED
      BY <3>1, <3>2
  <2> QED
    BY <2>1, <2>2 DEF HeldKnown, object_to_slab, Objects
<1> QED
  BY <1>4, <1>5, <1>6, <1>7, <1>8

(* A user writes to an object of its own, which is in no free list. *)
LEMMA WriteKeepsInv ==
  ASSUME SlabInv, NEW c \in Cpus, NEW o \in Objects, Write(c, o)
  PROVE  SlabInv'
<1> USE DEF SlabInv, SlabTypeOK
<1>1. /\ UNCHANGED <<lock, partial, full, empty, free, in_use, owned, call>>
      /\ o \in owned /\ content' = [content EXCEPT ![o] = "used"]
  BY DEF Write
<1>2. Known' = Known
  BY <1>1 DEF Known
<1>3. SlabTypeOK' /\ LockHeld' /\ Listed'
  BY <1>1, <1>2 DEF LockHeld, Busy, Listed
<1>4. FreeListed'
  BY <1>1, <1>2 DEF FreeListed, Mine, Objects
<1>5. HeldKnown'
  BY <1>1, <1>2 DEF HeldKnown, object_to_slab, Objects
<1> QED
  BY <1>3, <1>4, <1>5

(* mem_alloc from a slab that has room: its free list is not empty. *)
LEMMA AllocPartialKeepsInv ==
  ASSUME SlabInv, NEW c \in Cpus, AllocPartial(c)
  PROVE  SlabInv'
<1> USE DEF SlabInv, SlabTypeOK
<1>1. call[c].op = "alloc" /\ partial # <<>> /\ empty' = empty
  BY DEF AllocPartial
<1>2. PICK s \in Slabs : s = Head(partial)
  BY <1>1
<1>3. s \in Range(partial) /\ s \in Known /\ s \notin Range(full) /\ s \notin Range(empty)
  BY <1>1, <1>2, TakeFront, ListsApart DEF Known
<1>4. free[s] # <<>> /\ in_use[s] # ObjectsPerSlab
  <2>1. Len(free[s]) # 0 /\ in_use[s] # ObjectsPerSlab
    BY <1>3, SlabAssumption DEF Listed, FreeListed
  <2> QED
    BY <2>1
<1>5. Take(c, s, free[s], content) /\ PlaceTaken(s, in_use[s] + 1, partial)
  BY <1>2, <1>4 DEF AllocPartial, TakeFrom
<1>6. in_use' = [in_use EXCEPT ![s] = @ + 1]
  BY <1>5 DEF Take
<1>7. /\ partial' \in Seq(Slabs) /\ full' \in Seq(Slabs)
      /\ Known' = Known \cup {s} /\ Listed'
  BY <1>1, <1>3, <1>4, <1>5, <1>6, TakeKeepsLists DEF Listed
<1>8. Known \subseteq Slabs
  BY ListsApart DEF Known
<1>9. /\ NoDuplicates(free[s]) /\ Range(free[s]) \subseteq Mine(s)
      /\ in_use[s] = ObjectsPerSlab - Len(free[s])
      /\ \A o \in Range(free[s]) : o \notin owned /\ content[o] = "links"
  BY <1>3 DEF FreeListed
<1>10. /\ lock' \in {0, 1} /\ free' \in [Slabs -> Seq(Objects)]
       /\ in_use' \in [Slabs -> 0..ObjectsPerSlab]
       /\ content' \in [Objects -> {"zero", "links", "used"}] /\ owned' \subseteq Objects
       /\ call' \in [Cpus -> [op : {"none", "alloc", "free", "halted"}, object : Objects \cup {None}]]
       /\ LockHeld' /\ FreeListed' /\ HeldKnown'
  BY <1>1, <1>4, <1>5, <1>7, <1>8, <1>9, TakeKeepsObjects
<1> QED
  BY <1>1, <1>7, <1>10

(* mem_alloc from an empty slab, all of whose objects are free *)
LEMMA AllocEmptyKeepsInv ==
  ASSUME SlabInv, NEW c \in Cpus, AllocEmpty(c)
  PROVE  SlabInv'
<1> USE DEF SlabInv, SlabTypeOK
<1>1. call[c].op = "alloc" /\ partial = <<>> /\ empty # <<>>
  BY DEF AllocEmpty
<1>2. PICK s \in Slabs : s = Head(empty)
  BY <1>1
<1>3. s \in Range(empty) /\ s \in Known /\ s \notin Range(full) /\ s \notin Range(partial)
  BY <1>1, <1>2, TakeFront, ListsApart DEF Known
<1>4. free[s] # <<>> /\ in_use[s] # ObjectsPerSlab
  <2>1. Len(free[s]) # 0 /\ in_use[s] # ObjectsPerSlab
    BY <1>3, SlabAssumption DEF Listed, FreeListed
  <2> QED
    BY <2>1
<1>5. /\ Take(c, s, free[s], content) /\ empty' = RemoveFirst(empty, s)
      /\ PlaceTaken(s, in_use[s] + 1, <<s>> \o partial)
  BY <1>2, <1>4 DEF AllocEmpty, TakeFrom, list_del, list_add
<1>6. in_use' = [in_use EXCEPT ![s] = @ + 1]
  BY <1>5 DEF Take
<1>7. empty' \in Seq(Slabs) /\ Range(empty') = Range(empty) \ {s} /\ NoDuplicates(empty')
  BY <1>5, Unlink DEF Listed
<1>8. /\ <<s>> \o partial \in Seq(Slabs) /\ Range(<<s>> \o partial) = Range(partial) \cup {s}
      /\ NoDuplicates(<<s>> \o partial)
  BY <1>3, PutFront DEF Listed
<1>9. /\ partial' \in Seq(Slabs) /\ full' \in Seq(Slabs)
      /\ Known' = Known \cup {s} /\ Listed'
  <2>1. /\ s \in Range(<<s>> \o partial) /\ Range(<<s>> \o partial) \subseteq Range(partial) \cup {s}
        /\ Range(partial) \subseteq Range(<<s>> \o partial) /\ s \notin Range(empty')
        /\ Range(empty') \cup {s} = Range(empty) \cup {s}
    BY <1>7, <1>8
  <2> QED
    BY <1>3, <1>4, <1>5, <1>6, <1>7, <1>8, <2>1, TakeKeepsLists
<1>10. Known \subseteq Slabs
  BY ListsApart DEF Known
<1>11. /\ NoDuplicates(free[s]) /\ Range(free[s]) \subseteq Mine(s)
       /\ in_use[s] = ObjectsPerSlab - Len(free[s])
       /\ \A o \in Range(free[s]) : o \notin owned /\ content[o] = "links"
  BY <1>3 DEF FreeListed
<1>12. /\ lock' \in {0, 1} /\ free' \in [Slabs -> Seq(Objects)]
       /\ in_use' \in [Slabs -> 0..ObjectsPerSlab]
       /\ content' \in [Objects -> {"zero", "links", "used"}] /\ owned' \subseteq Objects
       /\ call' \in [Cpus -> [op : {"none", "alloc", "free", "halted"}, object : Objects \cup {None}]]
       /\ LockHeld' /\ FreeListed' /\ HeldKnown'
  BY <1>1, <1>4, <1>5, <1>9, <1>10, <1>11, TakeKeepsObjects
<1> QED
  BY <1>7, <1>9, <1>12

(* mem_alloc from a page that becomes a slab *)
LEMMA AllocNewKeepsInv ==
  ASSUME SlabInv, NEW c \in Cpus, AllocNew(c)
  PROVE  SlabInv'
<1> USE DEF SlabInv, SlabTypeOK
<1>1. call[c].op = "alloc" /\ partial = <<>> /\ empty' = empty
  BY DEF AllocNew
<1>2. PICK s \in Slabs \ Known :
        /\ Take(c, s, slab_create(s), Threaded(s))
        /\ PlaceTaken(s, in_use[s] + 1, <<s>> \o partial)
  <2>1. PICK s \in Slabs \ Known :
          TakeFrom(c, s, slab_create(s), Threaded(s), <<s>> \o partial)
    BY DEF AllocNew, list_add
  <2>2. slab_create(s) # <<>>
    BY Created, SlabAssumption
  <2> QED
    BY <2>1, <2>2 DEF TakeFrom
<1>3. s \notin Range(partial) /\ s \notin Range(full) /\ s \notin Range(empty) /\ in_use[s] = 0
  BY DEF Known, Listed
<1>4. in_use' = [in_use EXCEPT ![s] = @ + 1]
  BY <1>2 DEF Take
<1>5. /\ <<s>> \o partial \in Seq(Slabs) /\ Range(<<s>> \o partial) = Range(partial) \cup {s}
      /\ NoDuplicates(<<s>> \o partial)
  BY <1>3, PutFront DEF Listed
<1>6. in_use[s] # ObjectsPerSlab
  BY <1>3, SlabAssumption
<1>7. /\ partial' \in Seq(Slabs) /\ full' \in Seq(Slabs)
      /\ Known' = Known \cup {s} /\ Listed'
  <2>1. /\ s \in Range(<<s>> \o partial) /\ Range(<<s>> \o partial) \subseteq Range(partial) \cup {s}
        /\ Range(partial) \subseteq Range(<<s>> \o partial) /\ s \notin Range(empty')
        /\ Range(empty') \cup {s} = Range(empty) \cup {s}
        /\ empty' \in Seq(Slabs) /\ NoDuplicates(empty')
    BY <1>1, <1>3, <1>5 DEF Listed
  <2> QED
    BY <1>2, <1>3, <1>4, <1>5, <1>6, <2>1, TakeKeepsLists
<1>8. Known \subseteq Slabs
  BY ListsApart DEF Known
<1>9. /\ slab_create(s) \in Seq(Objects) /\ slab_create(s) # <<>> /\ NoDuplicates(slab_create(s))
      /\ Range(slab_create(s)) \subseteq Mine(s)
      /\ in_use[s] = ObjectsPerSlab - Len(slab_create(s))
  BY <1>3, Created, SlabAssumption
<1>10. \A o \in owned : o \in Objects /\ object_to_slab(o) # s
  BY <1>2 DEF HeldKnown
<1>11. /\ Threaded(s) \in [Objects -> {"zero", "links", "used"}]
       /\ \A o \in Range(slab_create(s)) : o \notin owned /\ Threaded(s)[o] = "links"
       /\ \A o \in Objects : o \in owned \/ object_to_slab(o) # s => Threaded(s)[o] = content[o]
  BY <1>9, <1>10 DEF Threaded, Mine
<1>12. /\ lock' \in {0, 1} /\ free' \in [Slabs -> Seq(Objects)]
       /\ in_use' \in [Slabs -> 0..ObjectsPerSlab]
       /\ content' \in [Objects -> {"zero", "links", "used"}] /\ owned' \subseteq Objects
       /\ call' \in [Cpus -> [op : {"none", "alloc", "free", "halted"}, object : Objects \cup {None}]]
       /\ LockHeld' /\ FreeListed' /\ HeldKnown'
  BY <1>1, <1>2, <1>7, <1>8, <1>9, <1>11, TakeKeepsObjects
<1> QED
  BY <1>1, <1>7, <1>12

(* mem_alloc finds no page. *)
LEMMA AllocFailsKeepsInv ==
  ASSUME SlabInv, NEW c \in Cpus, AllocFails(c)
  PROVE  SlabInv'
<1> USE DEF SlabInv, SlabTypeOK
<1>1. /\ UNCHANGED <<partial, full, empty, free, in_use, content, owned>>
      /\ lock' = 0 /\ call[c].op = "alloc" /\ call' = [call EXCEPT ![c] = [op |-> "none", object |-> None]]
  BY DEF AllocFails, Goto
<1>2. Known' = Known
  BY <1>1 DEF Known
<1>3. SlabTypeOK'
  BY <1>1
<1>4. Listed' /\ FreeListed'
  BY <1>1, <1>2 DEF Listed, FreeListed, Mine, Objects
<1>5. \A d \in Cpus : ~ Busy(d)' /\ call'[d].op # "free"
  <2> TAKE d \in Cpus
  <2>1. CASE d = c
    BY <1>1, <2>1 DEF Busy
  <2>2. CASE d # c
    <3>1. Busy(c) /\ ~ Busy(d)
      BY <1>1, <2>2 DEF LockHeld, Busy
    <3> QED
      BY <1>1, <2>2, <3>1 DEF Busy
  <2> QED
    BY <2>1, <2>2
<1>6. LockHeld' /\ HeldKnown'
  BY <1>1, <1>2, <1>5 DEF LockHeld, HeldKnown, object_to_slab
<1> QED
  BY <1>3, <1>4, <1>6

(* mem_free: the object is in use, so its slab has one in use, and it goes *)
(* back to a free list that has not got it.                                *)
LEMMA FreeObjectKeepsInv ==
  ASSUME SlabInv, NEW c \in Cpus, FreeObject(c)
  PROVE  SlabInv'
<1> USE DEF SlabInv, SlabTypeOK
<1>1. call[c].op = "free" /\ owned' = owned
  BY DEF FreeObject
<1>2. PICK o \in Objects : o = call[c].object
  BY <1>1 DEF HeldKnown
<1>3. PICK s \in Slabs : s = object_to_slab(o)
  BY <1>2 DEF Objects, object_to_slab
<1>4. o \notin owned /\ s \in Known /\ o \notin Range(free[s]) /\ o \in Mine(s)
  BY <1>1, <1>2, <1>3 DEF HeldKnown, Mine
<1>5. ObjectsPerSlab \in Nat \ {0} /\ in_use[s] \in 0..ObjectsPerSlab
  BY SlabAssumption
<1>6. /\ free[s] \in Seq(Objects) /\ NoDuplicates(free[s]) /\ Range(free[s]) \subseteq Mine(s)
      /\ in_use[s] = ObjectsPerSlab - Len(free[s])
  BY <1>4 DEF FreeListed
<1>7. in_use[s] # 0
  <2>1. Len(free[s]) < ObjectsPerSlab
    BY <1>4, <1>6, RoomForOne
  <2> QED
    BY <1>5, <1>6, <2>1
<1>8. /\ content' = [content EXCEPT ![o] = "links"] /\ free' = [free EXCEPT ![s] = Append(free[s], o)]
      /\ in_use' = [in_use EXCEPT ![s] = @ - 1] /\ PlaceReturned(s, in_use[s] - 1) /\ lock' = 0
      /\ call' = [call EXCEPT ![c] = [op |-> "none", object |-> None]]
  BY <1>1, <1>2, <1>3, <1>7 DEF FreeObject, LinkFreed, list_add_tail, Goto
<1>9. /\ Append(free[s], o) \in Seq(Objects) /\ Range(Append(free[s], o)) = Range(free[s]) \cup {o}
      /\ NoDuplicates(Append(free[s], o)) /\ Len(Append(free[s], o)) = Len(free[s]) + 1
  BY <1>4, <1>6, PutBack
<1>10. \A d \in Cpus : ~ Busy(d)' /\ call'[d].op # "free"
  <2> TAKE d \in Cpus
  <2>1. CASE d = c
    BY <1>8, <2>1 DEF Busy
  <2>2. CASE d # c
    <3>1. Busy(c) /\ ~ Busy(d)
      BY <1>1, <2>2 DEF LockHeld, Busy
    <3> QED
      BY <1>8, <2>2, <3>1 DEF Busy
  <2> QED
    BY <2>1, <2>2
<1>11. /\ partial' \in Seq(Slabs) /\ full' \in Seq(Slabs) /\ empty' \in Seq(Slabs)
       /\ Known' = Known /\ Listed'
  <2>1. in_use'[s] = in_use[s] - 1 /\ \A r \in Slabs : r # s => in_use'[r] = in_use[r]
    BY <1>8
  <2>2. /\ NoDuplicates(partial) /\ NoDuplicates(full) /\ NoDuplicates(empty)
        /\ s \notin Range(empty)
    BY <1>7 DEF Listed
  <2>3. CASE in_use[s] - 1 = 0
    <3>1. /\ empty' = Append(empty, s) /\ partial' = RemoveFirst(partial, s)
          /\ full' = RemoveFirst(full, s)
      BY <1>8, <2>3 DEF PlaceReturned, list_add_tail, list_del
    <3>2. empty' \in Seq(Slabs) /\ Range(empty') = Range(empty) \cup {s} /\ NoDuplicates(empty')
      BY <2>2, <3>1, PutBack
    <3>3. partial' \in Seq(Slabs) /\ Range(partial') = Range(partial) \ {s} /\ NoDuplicates(partial')
      BY <2>2, <3>1, Unlink
    <3>4. full' \in Seq(Slabs) /\ Range(full') = Range(full) \ {s} /\ NoDuplicates(full')
      BY <2>2, <3>1, Unlink
    <3>5. Known' = Known
      BY <1>4, <3>2, <3>3, <3>4 DEF Known
    <3>6. Listed'
      BY <1>4, <2>1, <2>3, <3>2, <3>3, <3>4, <3>5 DEF Listed, Known
    <3> QED
      BY <3>2, <3>3, <3>4, <3>5, <3>6
  <2>4. CASE in_use[s] - 1 # 0 /\ in_use[s] = ObjectsPerSlab
    <3>1. /\ partial' = Append(partial, s) /\ full' = RemoveFirst(full, s) /\ empty' = empty
      BY <1>5, <1>8, <2>4 DEF PlaceReturned, list_add_tail, list_del
    <3>2. s \notin Range(partial)
      BY <2>4 DEF Listed
    <3>3. partial' \in Seq(Slabs) /\ Range(partial') = Range(partial) \cup {s} /\ NoDuplicates(partial')
      BY <2>2, <3>1, <3>2, PutBack
    <3>4. full' \in Seq(Slabs) /\ Range(full') = Range(full) \ {s} /\ NoDuplicates(full')
      BY <2>2, <3>1, Unlink
    <3>5. Known' = Known
      BY <1>4, <3>1, <3>3, <3>4 DEF Known
    <3>6. in_use'[s] # 0 /\ in_use'[s] # ObjectsPerSlab
      BY <1>5, <2>1, <2>4
    <3>7. Listed'
      BY <1>4, <2>1, <2>2, <3>1, <3>3, <3>4, <3>5, <3>6 DEF Listed, Known
    <3> QED
      BY <3>1, <3>3, <3>4, <3>5, <3>7
  <2>5. CASE in_use[s] - 1 # 0 /\ in_use[s] # ObjectsPerSlab
    <3>1. UNCHANGED <<partial, full, empty>>
      BY <1>5, <1>8, <2>5 DEF PlaceReturned
    <3>2. Known' = Known
      BY <3>1 DEF Known
    <3>3. in_use'[s] # 0 /\ in_use'[s] # ObjectsPerSlab /\ s \notin Range(full)
      BY <1>5, <2>1, <2>5 DEF Listed
    <3> QED
      BY <1>4, <2>1, <2>2, <3>1, <3>2, <3>3 DEF Listed
  <2> QED
    BY <2>3, <2>4, <2>5
<1>12. SlabTypeOK'
  <2>1. in_use' \in [Slabs -> 0..ObjectsPerSlab]
    BY <1>5, <1>7, <1>8
  <2>2. call' \in [Cpus -> [op : {"none", "alloc", "free", "halted"}, object : Objects \cup {None}]]
    BY <1>8
  <2> QED
    BY <1>1, <1>8, <1>9, <1>11, <2>1, <2>2
<1>13. LockHeld'
  BY <1>10 DEF LockHeld
<1>14. FreeListed'
  <2> SUFFICES ASSUME NEW r \in Known
               PROVE  /\ NoDuplicates(free'[r])
                      /\ in_use'[r] = ObjectsPerSlab - Len(free'[r])
                      /\ Range(free'[r]) \subseteq Mine(r)
                      /\ \A q \in Range(free'[r]) : q \notin owned' /\ content'[q] = "links"
    BY <1>11 DEF FreeListed, Mine, Objects
  <2>1. r \in Slabs
    BY ListsApart DEF Known
  <2>2. /\ NoDuplicates(free[r]) /\ in_use[r] = ObjectsPerSlab - Len(free[r])
        /\ Range(free[r]) \subseteq Mine(r)
        /\ \A q \in Range(free[r]) : q \notin owned /\ q \in Objects /\ content[q] = "links"
    BY DEF FreeListed, Mine
  <2>3. \A q \in Range(free[r]) : q \notin owned' /\ content'[q] = "links"
    BY <1>1, <1>8, <2>2
  <2>4. CASE r = s
    <3>1. free'[r] = Append(free[s], o) /\ in_use'[r] = in_use[s] - 1
      BY <1>8, <2>4
    <3>2. o \notin owned' /\ content'[o] = "links"
      BY <1>1, <1>4, <1>8
    <3>3. in_use'[r] = ObjectsPerSlab - Len(free'[r])
      BY <1>5, <1>6, <1>9, <3>1
    <3> QED
      BY <1>4, <1>6, <1>9, <2>3, <2>4, <3>1, <3>2, <3>3
  <2>5. CASE r # s
    <3>1. free'[r] = free[r] /\ in_use'[r] = in_use[r]
      BY <1>8, <2>1, <2>5
    <3> QED
      BY <2>2, <2>3, <3>1
  <2> QED
    BY <2>4, <2>5
<1>15. HeldKnown'
  <2>1. ASSUME NEW q \in owned PROVE object_to_slab(q) \in Known /\ content'[q] # "links"
    BY <1>4, <1>8, <2>1 DEF HeldKnown
  <2> QED
    BY <1>1, <1>10, <1>11, <2>1 DEF HeldKnown, object_to_slab
<1> QED
  BY <1>11, <1>12, <1>13, <1>14, <1>15

(* The invariant is inductive. *)
LEMMA SlabStepInv == SlabInv /\ [SlabNext]_slabVars => SlabInv'
<1> SUFFICES ASSUME SlabInv, [SlabNext]_slabVars PROVE SlabInv'
  OBVIOUS
<1>1. CASE UNCHANGED slabVars
  <2>1. UNCHANGED <<lock, partial, full, empty, free, in_use, content, owned, call>>
    BY <1>1 DEF slabVars
  <2>2. Known' = Known
    BY <2>1 DEF Known
  <2>3. SlabTypeOK' /\ Listed'
    BY <2>1, <2>2 DEF SlabInv, SlabTypeOK, Listed
  <2>4. LockHeld'
    BY <2>1 DEF SlabInv, LockHeld, Busy
  <2>5. FreeListed' /\ HeldKnown'
    BY <2>1, <2>2 DEF SlabInv, FreeListed, HeldKnown, Mine, object_to_slab, Objects
  <2> QED
    BY <2>3, <2>4, <2>5 DEF SlabInv
<1>2. CASE SlabNext
  <2>1. PICK c \in Cpus :
          \/ mem_alloc(c) \/ AllocPartial(c) \/ AllocEmpty(c) \/ AllocNew(c) \/ AllocFails(c)
          \/ \E o \in Objects : mem_free(c, o) \/ Write(c, o)
          \/ FreeObject(c)
    BY <1>2 DEF SlabNext
  <2>2. CASE mem_alloc(c) \/ \E o \in Objects : mem_free(c, o)
    BY <2>2, EnterKeepsInv
  <2>3. CASE \E o \in Objects : Write(c, o)
    BY <2>3, WriteKeepsInv
  <2>4. CASE AllocPartial(c) \/ AllocEmpty(c) \/ AllocNew(c) \/ AllocFails(c) \/ FreeObject(c)
    BY <2>4, AllocPartialKeepsInv, AllocEmptyKeepsInv, AllocNewKeepsInv, AllocFailsKeepsInv,
       FreeObjectKeepsInv
  <2> QED
    BY <2>1, <2>2, <2>3, <2>4
<1> QED
  BY <1>1, <1>2

LEMMA SlabAlwaysInv == SlabSpec => []SlabInv
<1> QED
  BY SlabInitInv, SlabStepInv, PTL DEF SlabSpec

-----------------------------------------------------------------------------
(* mem/alloc.c lines 75 to 115: for any number of cores, pages and objects *)
(* per slab, each slab is once in the list that its count says.            *)
THEOREM SlabListsExact == SlabSpec => []ListsExact
<1>1. ASSUME SlabInv PROVE ListsExact
  <2> USE <1>1 DEF SlabInv
  <2>1. ObjectsPerSlab \in Nat \ {0} /\ \A s \in Slabs : in_use[s] \in 0..ObjectsPerSlab
    BY SlabAssumption DEF SlabTypeOK
  <2>2. Known \subseteq Slabs
    BY ListsApart DEF Known
  <2>3. \A s \in Known :
          /\ s \in Range(empty) <=> in_use[s] = 0
          /\ s \in Range(full) <=> in_use[s] = ObjectsPerSlab
          /\ s \in Range(partial) <=> in_use[s] \in 1..(ObjectsPerSlab - 1)
    BY <2>1, <2>2 DEF Listed, Known
  <2>4. /\ IsFiniteSet(Range(partial)) /\ Cardinality(Range(partial)) = Len(partial)
        /\ IsFiniteSet(Range(full)) /\ Cardinality(Range(full)) = Len(full)
        /\ IsFiniteSet(Range(empty)) /\ Cardinality(Range(empty)) = Len(empty)
    BY LengthCounts DEF SlabTypeOK, Listed
  <2>5. Cardinality({}) = 0
    BY FS_EmptySet
  <2>6. Len(partial) \in Nat /\ Len(full) \in Nat /\ Len(empty) \in Nat
    BY DEF SlabTypeOK
  <2>7. /\ IsFiniteSet(Range(partial) \cup Range(full))
        /\ Cardinality(Range(partial) \cup Range(full)) = Len(partial) + Len(full)
    <3>1. Range(partial) \cap Range(full) = {}
      BY ListsApart
    <3>2. /\ IsFiniteSet(Range(partial) \cup Range(full))
          /\ Cardinality(Range(partial) \cup Range(full))
               = Cardinality(Range(partial)) + Cardinality(Range(full))
                   - Cardinality(Range(partial) \cap Range(full))
      BY <2>4, FS_Union
    <3>3. Cardinality(Range(partial) \cap Range(full)) = 0
      BY <2>5, <3>1, Zenon
    <3> QED
      BY <2>4, <2>6, <3>2, <3>3
  <2>8. (Range(partial) \cup Range(full)) \cap Range(empty) = {}
    BY ListsApart
  <2>9. Cardinality(Known) = Len(partial) + Len(full) + Len(empty)
    <3>1. Cardinality(Known) = Cardinality(Range(partial) \cup Range(full))
                                 + Cardinality(Range(empty)) - Cardinality({})
      BY <2>4, <2>7, <2>8, FS_Union DEF Known
    <3> QED
      BY <2>4, <2>5, <2>6, <2>7, <3>1
  <2> QED
    BY <2>3, <2>9 DEF ListsExact
<1> QED
  BY <1>1, SlabAlwaysInv, PTL

(* mem/alloc.c lines 67 and 94 to 105: no object is handed out twice, one  *)
(* that is given back is in nobody's hands, and the count of a slab is the *)
(* number of its objects that are not in its free list.                    *)
THEOREM SlabObjectsExact == SlabSpec => []ObjectsExact
<1>1. ASSUME SlabInv PROVE ObjectsExact
  <2> USE <1>1 DEF SlabInv
  <2> SUFFICES ASSUME NEW s \in Known
               PROVE  /\ Len(free[s]) = Cardinality(Range(free[s]))
                      /\ Range(free[s]) \cap owned = {} /\ Range(free[s]) \subseteq Mine(s)
                      /\ in_use[s] = Cardinality(Mine(s)) - Len(free[s])
                      /\ \A o \in {call[c].object : c \in {d \in Cpus : call[d].op = "free"}} :
                           o \notin Range(free[s]) /\ o \notin owned
    BY DEF ObjectsExact, Mine
  <2>1. s \in Slabs /\ free[s] \in Seq(Objects)
    BY ListsApart DEF Known, SlabTypeOK
  <2>2. Len(free[s]) = Cardinality(Range(free[s]))
    BY <2>1, LengthCounts DEF FreeListed
  <2>3. /\ Range(free[s]) \cap owned = {} /\ Range(free[s]) \subseteq Mine(s)
        /\ in_use[s] = Cardinality(Mine(s)) - Len(free[s])
    BY <2>1, MineCounted DEF FreeListed
  <2>4. ASSUME NEW c \in Cpus, call[c].op = "free"
        PROVE  call[c].object \notin Range(free[s]) /\ call[c].object \notin owned
    BY <2>3, <2>4 DEF HeldKnown, Mine
  <2> QED
    BY <2>2, <2>3, <2>4
<1> QED
  BY <1>1, SlabAlwaysInv, PTL

(* mem/alloc.c lines 69 to 72 and 97: what is handed out holds no link of  *)
(* the free list, and what is free holds nothing of its last user.         *)
THEOREM SlabHandedOutZeroed == SlabSpec => []HandedOutZeroed
<1>1. ASSUME SlabInv PROVE HandedOutZeroed
  BY <1>1 DEF SlabInv, HandedOutZeroed, HeldKnown, FreeListed
<1> QED
  BY <1>1, SlabAlwaysInv, PTL
(* mem/alloc.c lines 67 and 103: a slab that is chosen has a free object,  *)
(* and a slab that takes one back had one in use; neither ASSERT fails.    *)
THEOREM SlabNoPanic == SlabSpec => [](\A c \in Cpus : call[c].op # "panic")
<1>1. ASSUME SlabInv PROVE \A c \in Cpus : call[c].op # "panic"
  BY <1>1 DEF SlabInv, SlabTypeOK
<1> QED
  BY <1>1, SlabAlwaysInv, PTL
=============================================================================
