-------------------------------- MODULE Slab --------------------------------
(***************************************************************************)
(* mem/alloc.c: the slab allocator of one object type.  A slab is a page   *)
(* cut into objects; the allocator keeps its slabs in a partial, a full    *)
(* and an empty list, and the free objects of a slab in a list threaded    *)
(* through the objects themselves.                                         *)
(*                                                                         *)
(* An object holds "zero" bytes only, the "links" of the free list, or     *)
(* what its user wrote ("used").  phys_alloc hands out zeroed pages (see   *)
(* Phys); whether it has one is an input.  The allocator's mutex has no    *)
(* slow path: a core that meets it taken halts.                            *)
(***************************************************************************)
EXTENDS Integers, FiniteSets, Sequences, SequencesExt

CONSTANTS
  Cpus,             \* the cores
  Slabs,            \* pages phys_alloc can hand out
  ObjectsPerSlab,   \* meta->objects_per_slab
  None              \* no object

ASSUME SlabAssumption ==
  /\ ObjectsPerSlab \in Nat \ {0}          \* static_assert in DEFINE_ALLOC
  /\ IsFiniteSet(Cpus) /\ IsFiniteSet(Slabs)

Objects == Slabs \X (1..ObjectsPerSlab)
object_to_slab(o) == o[1]

VARIABLES
  lock,                   \* alloc->lock
  partial, full, empty,   \* the lists of slabs
  free,                   \* slab->free
  in_use,                 \* slab->in_use
  content,                \* what the memory of each object holds
  owned,                  \* objects handed out and not given back
  call                    \* per core, the operation it is in

slabVars == <<lock, partial, full, empty, free, in_use, content, owned, call>>

SlabInit ==
  /\ lock = 0
  /\ partial = <<>> /\ full = <<>> /\ empty = <<>>
  /\ free = [s \in Slabs |-> <<>>]
  /\ in_use = [s \in Slabs |-> 0]
  /\ content = [o \in Objects |-> "zero"]
  /\ owned = {}
  /\ call = [c \in Cpus |-> [op |-> "none", object |-> None]]

-----------------------------------------------------------------------------
Known == Range(partial) \cup Range(full) \cup Range(empty)
Goto(c, op, o) == call' = [call EXCEPT ![c] = [op |-> op, object |-> o]]

list_add(list, s) == <<s>> \o list
list_add_tail(list, s) == Append(list, s)
list_del(list, s) == RemoveFirst(list, s)

(* mutex_lock at the start of both operations *)
Enter(c, op, o) ==
  /\ call[c].op = "none"
  /\ \/ lock = 0 /\ lock' = 1 /\ Goto(c, op, o)
     \/ lock = 1 /\ UNCHANGED lock /\ Goto(c, "halted", None)
  /\ UNCHANGED <<partial, full, empty, free, in_use, content>>

mem_alloc(c) == Enter(c, "alloc", None) /\ UNCHANGED owned

(* The object is no longer the caller's once the call is made. *)
mem_free(c, o) == o \in owned /\ Enter(c, "free", o) /\ owned' = owned \ {o}

(* A user writes to its object. *)
Write(c, o) ==
  /\ call[c].op = "none" /\ o \in owned /\ content[o] # "used"
  /\ content' = [content EXCEPT ![o] = "used"]
  /\ UNCHANGED <<lock, partial, full, empty, free, in_use, owned, call>>

(* slab_create links the objects in front of one another. *)
slab_create(s) == [i \in 1..ObjectsPerSlab |-> <<s, ObjectsPerSlab + 1 - i>>]

(* The memory of the objects after slab_create: the links of the free list *)
Threaded(s) == [o \in Objects |-> IF object_to_slab(o) = s THEN "links" ELSE content[o]]

(* The lists after the count of slab s, which is in list, reached n *)
PlaceTaken(s, n, list) ==
  IF n = ObjectsPerSlab
  THEN partial' = list_del(list, s) /\ full' = list_add(full, s)
  ELSE partial' = list /\ UNCHANGED full

(* An object handed out with the links of the free list still in it *)
TakeUncleared(c, s, objects, memory) ==
  LET o == Head(objects)
  IN  /\ free' = [free EXCEPT ![s] = Tail(objects)]
      /\ content' = memory
      /\ in_use' = [in_use EXCEPT ![s] = @ + 1]
      /\ owned' = owned \cup {o}
      /\ lock' = 0 /\ Goto(c, "none", None)

(* The first free object of slab s, its links cleared *)
Take(c, s, objects, memory) ==
  LET o == Head(objects)
  IN  /\ free' = [free EXCEPT ![s] = Tail(objects)]
      /\ content' = [memory EXCEPT ![o] = "zero"]
      /\ in_use' = [in_use EXCEPT ![s] = @ + 1]
      /\ owned' = owned \cup {o}
      /\ lock' = 0 /\ Goto(c, "none", None)

(* The slab chosen for mem_alloc is slab s, now in list; its first free    *)
(* object is taken.                                                        *)
TakeFrom(c, s, objects, memory, list) ==
  IF objects = <<>>
  THEN /\ Goto(c, "panic", None) /\ partial' = list
       /\ UNCHANGED <<lock, full, free, in_use, content, owned>>
  ELSE Take(c, s, objects, memory) /\ PlaceTaken(s, in_use[s] + 1, list)

(* mem_alloc under the lock: a partial slab, else an empty one, else a new *)
(* one, else nullptr.                                                      *)
AllocPartial(c) ==
  LET s == Head(partial)
  IN  /\ call[c].op = "alloc" /\ partial # <<>>
      /\ TakeFrom(c, s, free[s], content, partial)
      /\ UNCHANGED empty

AllocEmpty(c) ==
  LET s == Head(empty)
  IN  /\ call[c].op = "alloc" /\ partial = <<>> /\ empty # <<>>
      /\ empty' = list_del(empty, s)
      /\ TakeFrom(c, s, free[s], content, list_add(partial, s))

AllocNew(c) ==
  /\ call[c].op = "alloc" /\ partial = <<>> /\ empty = <<>>
  /\ \E s \in Slabs \ Known :
       TakeFrom(c, s, slab_create(s), Threaded(s), list_add(partial, s))
  /\ UNCHANGED empty

AllocFails(c) ==
  /\ call[c].op = "alloc" /\ partial = <<>> /\ empty = <<>>
  /\ lock' = 0 /\ Goto(c, "none", None)
  /\ UNCHANGED <<partial, full, empty, free, in_use, content, owned>>

(* A slab that was full and is not any more left in the full list *)
PlaceReturnedNever(s, n) ==
  IF n = 0
  THEN /\ empty' = list_add_tail(empty, s)
       /\ partial' = list_del(partial, s) /\ full' = list_del(full, s)
  ELSE UNCHANGED <<partial, full, empty>>

(* The lists after the object count of slab s dropped to n *)
PlaceReturned(s, n) ==
  IF n = 0
  THEN /\ empty' = list_add_tail(empty, s)
       /\ partial' = list_del(partial, s) /\ full' = list_del(full, s)
  ELSE IF n + 1 = ObjectsPerSlab
  THEN /\ partial' = list_add_tail(partial, s)
       /\ full' = list_del(full, s) /\ UNCHANGED empty
  ELSE UNCHANGED <<partial, full, empty>>

(* A freed object linked twice into the free list of its slab *)
LinkFreedTwice(s, o) == <<o>> \o list_add_tail(free[s], o)

(* A freed object goes to the end of the free list. *)
LinkFreed(s, o) == list_add_tail(free[s], o)

(* mem_free under the lock *)
FreeObject(c) ==
  LET o == call[c].object
      s == object_to_slab(o)
  IN  /\ call[c].op = "free"
      /\ IF in_use[s] = 0
         THEN /\ Goto(c, "panic", None)
              /\ UNCHANGED <<lock, partial, full, empty, free, in_use, content>>
         ELSE /\ content' = [content EXCEPT ![o] = "links"]
              /\ free' = [free EXCEPT ![s] = LinkFreed(s, o)]
              /\ in_use' = [in_use EXCEPT ![s] = @ - 1]
              /\ PlaceReturned(s, in_use[s] - 1)
              /\ lock' = 0 /\ Goto(c, "none", None)
      /\ UNCHANGED owned

-----------------------------------------------------------------------------
SlabNext == \E c \in Cpus :
  \/ mem_alloc(c) \/ AllocPartial(c) \/ AllocEmpty(c) \/ AllocNew(c) \/ AllocFails(c)
  \/ \E o \in Objects : mem_free(c, o) \/ Write(c, o)
  \/ FreeObject(c)

SlabSpec == SlabInit /\ [][SlabNext]_slabVars

-----------------------------------------------------------------------------
(* Properties *)

(* Each slab is once in the list that its count of objects in use says, so *)
(* a full slab is never tried, and a slab with room is never lost.         *)
ListsExact ==
  /\ \A s \in Known :
       /\ s \in Range(empty) <=> in_use[s] = 0
       /\ s \in Range(full) <=> in_use[s] = ObjectsPerSlab
       /\ s \in Range(partial) <=> in_use[s] \in 1..(ObjectsPerSlab - 1)
  /\ Len(partial) + Len(full) + Len(empty) = Cardinality(Known)

(* Every object is in the hands of one user, once in the free list of its  *)
(* slab, or in a mem_free that has not got to it: no object is handed out  *)
(* twice.  Only a mem_free that halts at the taken mutex loses its object. *)
(* With ListsExact, neither assertion of alloc.c (lines 67 and 103) can    *)
(* fail.                                                                   *)
ObjectsExact ==
  \A s \in Known :
    LET inFree == Range(free[s])
        returning == {call[c].object : c \in {d \in Cpus : call[d].op = "free"}}
        mine == {o \in Objects : object_to_slab(o) = s}
    IN  /\ Len(free[s]) = Cardinality(inFree)
        /\ inFree \cap owned = {} /\ inFree \subseteq mine
        /\ in_use[s] = Cardinality(mine) - Len(free[s])
        /\ \A o \in returning : o \notin inFree /\ o \notin owned

(* mem_alloc hands out zeroed memory although the free list is threaded    *)
(* through the objects: an object nobody wrote to since is all zeroes, and *)
(* a free one holds nothing of its last user.                              *)
HandedOutZeroed ==
  \A o \in Objects :
    /\ o \in owned => content[o] # "links"
    /\ object_to_slab(o) \in Known /\ o \in Range(free[object_to_slab(o)])
         => content[o] = "links"
=============================================================================
