----------------------------- MODULE VmarProofs -----------------------------
(***************************************************************************)
(* Proofs for Vmar, for any number of cores, objects, pages and frames.    *)
(*                                                                         *)
(* The first part is about objects: a vmar somebody can reach is alive,    *)
(* and its count is the number of references.  It does not look at page    *)
(* tables or memory, and holds whatever assertion fails.                   *)
(***************************************************************************)
EXTENDS Vmar, FiniteSetTheorems, TLAPS

Making == {"place", "tables"}
Populating == {"pop_mutex", "populate"}
Faulting == {"fault_mutex", "fault_unlock", "fault_flags", "fault", "fault_put"}
Pinning == {"lock", "lock_global", "lock_next"}
Unmapping == {"unmap_first", "unmap", "free", "erase"}
Stopped == {"halted", "panic"}

Writing == Making \cup Pinning \cup Unmapping      \* has the rwlock exclusively
Reading == {"pop_mutex", "populate", "fault_mutex", "fault_unlock"}      \* or shared

Object == [kind : {"region", "mapping"}, parent : Vmars \cup {None}, range : SUBSET VPages,
           ref : Int, unmapped : BOOLEAN, locked : BOOLEAN]
Call == [pc : {"idle"} \cup Writing \cup Populating \cup Faulting \cup Stopped,
         v : Pool \cup {None}, top : Pool \cup {None}, par : Vmars \cup {None},
         todo : SUBSET VPages, done : SUBSET Pool, n : Nat, global : BOOLEAN,
         borrow : SUBSET Pool]

ObjTypeOK ==
  /\ vm \in [Vmars -> Object]
  /\ alive \subseteq Vmars /\ held \subseteq Pool
  /\ rw \in Nat
  /\ job \in [Cpus -> Call]

(* The word of the rwlock: one writer, or at least as many readers as are  *)
(* inside.  A core that halted inside keeps its share for ever.            *)
Readers == {c \in Cpus : job[c].pc \in Reading}
NoWriter == \A c \in Cpus : job[c].pc \notin Writing
LockOK ==
  /\ \A c, d \in Cpus : job[c].pc \in Writing /\ job[d].pc \in Writing => c = d
  /\ ~NoWriter => rw = WRITER
  /\ \/ rw = WRITER /\ Readers = {}
     \/ \E k \in 0..rw : rw = READER * k /\ k >= Cardinality(Readers)

(* What a call keeps of its arguments: the parent of a new vmar, the       *)
(* handle that is used, or the reference of a fault.                       *)
Shape(j) ==
  /\ j.pc = "idle" => j = Idle
  /\ j.pc \in Making => j.par # None
  /\ j.pc \in Populating => j.v \in Pool /\ j.par = None /\ j.borrow = {j.v}
  /\ j.pc \in Faulting => j.v \in Pool /\ j.par = None /\ j.borrow = {}
  /\ j.pc \in Pinning \cup Unmapping => j.top \in Pool
  /\ j.par # None => j.v \in Pool /\ j.top = None /\ j.borrow = {j.par} \ {Root}
  /\ j.top # None => j.v \in Pool /\ j.borrow = {j.top}
  /\ j.par = None /\ j.top = None => j.borrow \subseteq {j.v}
ShapeOK == \A c \in Cpus : Shape(job[c]) /\ job[c].borrow \subseteq held

(* A vmar that vmar_allocate or vmar_map has not linked yet: nobody else   *)
(* knows of it.                                                            *)
IsNew(v) == \E c \in Cpus : job[c].v = v /\ job[c].par # None
MakingAt(c) ==
  LET v == job[c].v
  IN  /\ v \in alive /\ v \notin held /\ vm[v].parent = None /\ ~vm[v].unmapped
      /\ vm[v].ref = 2
      /\ vm[job[c].par].kind = "region"
      /\ \A d \in Cpus : job[d].v = v => d = c
MakingOK == \A c \in Cpus : job[c].par # None => MakingAt(c)

(* A tree of objects that are alive, under the root; what is not in it was *)
(* unmapped.                                                               *)
LinkedAt(v) ==
  LET p == vm[v].parent
  IN  /\ v \in alive /\ p \in Vmars /\ vm[p].kind = "region"
      /\ p = Root \/ vm[p].parent # None
      /\ ~vm[v].unmapped
TreeAlive ==
  /\ Root \in alive /\ ~Linked(Root) /\ vm[Root].kind = "region" /\ ~vm[Root].unmapped
  /\ held \subseteq alive
  /\ \A v \in Pool : Linked(v) => LinkedAt(v)
  /\ \A v \in alive \ {Root} : Linked(v) \/ vm[v].unmapped \/ IsNew(v)
  /\ \A c \in Cpus, v \in Pool : OwnsRef(c, v) => v \in alive

(* Ancestors, as the members of every set that is closed under parents *)
UpClosed(S) == \A x \in S : Linked(x) => vm[x].parent \in S
Below(v, w) == \A S \in SUBSET Vmars : v \in S /\ UpClosed(S) => w \in S

(* A core with the exclusive lock works on what is linked; so did one      *)
(* that stopped, and then nobody will ever unlink it.                      *)
Work(c) ==
  LET j == job[c]
  IN  /\ j.pc = "tables" => j.par = Root \/ Linked(j.par)
      /\ j.pc \in Pinning \cup {"unmap", "free", "erase"} => Linked(j.v)
      /\ j.pc = "unmap_first" => j.v = j.top
      /\ j.pc \in {"unmap", "free", "erase"} => Below(j.v, j.top)
      /\ j.pc = "free" => vm[j.v].kind = "mapping"
      /\ j.pc = "erase" => Children(j.v) = {}
      /\ j.pc \in Stopped /\ j.top # None /\ j.v # j.top =>
           Linked(j.v) /\ rw = WRITER /\ NoWriter
WorkOK == \A c \in Cpus : Work(c)

ObjInv == ObjTypeOK /\ LockOK /\ ShapeOK /\ MakingOK /\ TreeAlive /\ WorkOK /\ RefCountExact

-----------------------------------------------------------------------------
(* Records and functions that one step changes in one place *)

LEMMA BlankFields ==
  ASSUME NEW k \in {"region", "mapping"}
  PROVE  /\ Blank(k) \in Object /\ Blank(k).kind = k /\ Blank(k).parent = None
         /\ Blank(k).ref = 2 /\ ~Blank(k).unmapped /\ ~Blank(k).locked /\ Blank(k).range = {}
BY DEF Blank, Object

LEMMA FreedFields ==
  /\ Freed \in Object /\ Freed.parent = None /\ Freed.ref = 0 /\ ~Freed.unmapped
  /\ Freed.kind = "region" /\ ~Freed.locked
<1>1. \A b \in Object : LET e == [b EXCEPT !.ref = 0]
                       IN  /\ e \in Object /\ e.parent = b.parent /\ e.ref = 0
                           /\ e.unmapped = b.unmapped /\ e.kind = b.kind /\ e.locked = b.locked
  BY DEF Object
<1> QED
  BY <1>1, BlankFields DEF Freed

LEMMA IdleFields ==
  /\ Idle \in Call /\ Idle.pc = "idle" /\ Idle.v = None /\ Idle.top = None /\ Idle.par = None
  /\ Idle.borrow = {} /\ Idle.todo = {} /\ Idle.done = {} /\ Idle.n = 0 /\ Idle.global = FALSE
BY DEF Idle, Call

(* object_put: one reference less, or the object is free again. *)
LEMMA PutEffect ==
  ASSUME NEW f \in [Vmars -> Object], NEW v \in Vmars
  PROVE  /\ PutFields(f, v) \in [Vmars -> Object]
         /\ \A w \in Vmars \ {v} : PutFields(f, v)[w] = f[w]
         /\ f[v].ref = 1 => PutFields(f, v)[v] = Freed
         /\ f[v].ref # 1 =>
              /\ PutFields(f, v)[v].ref = f[v].ref - 1
              /\ PutFields(f, v)[v].parent = f[v].parent
              /\ PutFields(f, v)[v].unmapped = f[v].unmapped
              /\ PutFields(f, v)[v].kind = f[v].kind
              /\ PutFields(f, v)[v].range = f[v].range
              /\ PutFields(f, v)[v].locked = f[v].locked
<1>1. CASE f[v].ref = 1
  BY <1>1, FreedFields DEF PutFields
<1>2. CASE f[v].ref # 1
  <2>1. PutFields(f, v) = [f EXCEPT ![v].ref = f[v].ref - 1]
    BY <1>2 DEF PutFields
  <2>2. f[v] \in Object /\ f[v].ref - 1 \in Int
    BY DEF Object
  <2>3. [f[v] EXCEPT !.ref = f[v].ref - 1] \in Object
    BY <2>2 DEF Object
  <2> QED
    BY <1>2, <2>1, <2>2, <2>3 DEF Object
<1> QED
  BY <1>1, <1>2

-----------------------------------------------------------------------------
(* The lock word *)

(* Core c moves, no other does. *)
Moves(c) == job' \in [Cpus -> Call] /\ \A d \in Cpus \ {c} : job'[d] = job[d]

(* Once a writer stopped, the lock stays taken. *)
StuckKept == rw = WRITER /\ NoWriter => rw' = WRITER /\ NoWriter'

LEMMA LockStays ==
  ASSUME ObjTypeOK, LockOK, NEW c \in Cpus, Moves(c), rw' = rw,
         job'[c].pc \in Writing => job[c].pc \in Writing,
         job'[c].pc \in Reading => job[c].pc \in Reading
  PROVE  LockOK' /\ StuckKept
<1>1. Readers' \subseteq Readers
  BY DEF Readers, Moves
<1>2. IsFiniteSet(Readers)
  BY VmarAssumption, FS_Subset DEF Readers
<1>3. /\ IsFiniteSet(Readers') /\ Cardinality(Readers') <= Cardinality(Readers)
      /\ Cardinality(Readers) \in Nat /\ Cardinality(Readers') \in Nat
  BY <1>1, <1>2, FS_Subset, FS_CardinalityType
<1>4. ~NoWriter' => ~NoWriter
  BY DEF NoWriter, Moves
<1>5. \A d, e \in Cpus : job'[d].pc \in Writing /\ job'[e].pc \in Writing => d = e
  BY DEF LockOK, Moves
<1>6. \/ rw' = WRITER /\ Readers' = {}
      \/ \E k \in 0..rw' : rw' = READER * k /\ k >= Cardinality(Readers')
  <2>1. CASE rw = WRITER /\ Readers = {}
    BY <2>1, <1>1
  <2>2. CASE \E k \in 0..rw : rw = READER * k /\ k >= Cardinality(Readers)
    <3>1. PICK k \in 0..rw : rw = READER * k /\ k >= Cardinality(Readers)
      BY <2>2
    <3>2. k >= Cardinality(Readers')
      BY <3>1, <1>3 DEF ObjTypeOK
    <3> QED
      BY <3>1, <3>2
  <2> QED
    BY <2>1, <2>2 DEF LockOK
<1> QED
  BY <1>4, <1>5, <1>6 DEF LockOK, StuckKept

LEMMA LockTaken ==
  ASSUME ObjTypeOK, LockOK, NEW c \in Cpus, Moves(c), rw = 0, rw' = WRITER,
         job'[c].pc \in Writing, job[c].pc \notin Reading
  PROVE  LockOK' /\ StuckKept
<1>1. IsFiniteSet(Readers) /\ Cardinality(Readers) \in Nat
  BY VmarAssumption, FS_Subset, FS_CardinalityType DEF Readers
<1>2. Cardinality(Readers) = 0
  BY <1>1 DEF LockOK, WRITER, READER
<1>3. Readers = {}
  BY <1>1, <1>2, FS_EmptySet
<1>4. Readers' = {}
  BY <1>3 DEF Readers, Moves, Writing, Reading, Making, Pinning, Unmapping
<1>5. NoWriter
  BY DEF LockOK, WRITER
<1>6. \A d, e \in Cpus : job'[d].pc \in Writing /\ job'[e].pc \in Writing => d = e
  BY <1>5 DEF NoWriter, Moves
<1> QED
  BY <1>4, <1>6 DEF LockOK, StuckKept, WRITER

LEMMA LockReleased ==
  ASSUME ObjTypeOK, LockOK, NEW c \in Cpus, Moves(c), job[c].pc \in Writing, rw' = 0,
         job'[c].pc \notin Writing \cup Reading
  PROVE  LockOK' /\ NoWriter' /\ StuckKept
<1>1. rw = WRITER
  BY DEF LockOK, NoWriter
<1>2. Readers = {}
  <2>1. rw # READER * 0
    BY <1>1 DEF READER, WRITER
  <2>2. \A k \in 0..rw : rw # READER * k
    BY <1>1 DEF READER, WRITER, ObjTypeOK
  <2> QED
    BY <2>2 DEF LockOK
<1>3. Readers' = {}
  BY <1>2 DEF Readers, Moves
<1>4. NoWriter'
  BY DEF NoWriter, LockOK, Moves
<1>5. rw' = READER * 0 /\ 0 >= Cardinality(Readers') /\ 0 \in 0..rw'
  BY <1>3, FS_EmptySet DEF READER
<1> QED
  BY <1>4, <1>5 DEF LockOK, NoWriter, StuckKept

LEMMA LockShared ==
  ASSUME ObjTypeOK, LockOK, NEW c \in Cpus, Moves(c), rw # WRITER, rw' = rw + READER,
         job[c].pc \notin Writing \cup Reading, job'[c].pc \in Reading
  PROVE  LockOK' /\ StuckKept
<1>1. IsFiniteSet(Readers) /\ Cardinality(Readers) \in Nat
  BY VmarAssumption, FS_Subset, FS_CardinalityType DEF Readers
<1>2. Readers' = Readers \cup {c} /\ c \notin Readers
  BY DEF Readers, Moves
<1>3. Cardinality(Readers') = Cardinality(Readers) + 1
  BY <1>1, <1>2, FS_AddElement
<1>4. PICK k \in 0..rw : rw = READER * k /\ k >= Cardinality(Readers)
  BY DEF LockOK
<1>5. /\ rw' = READER * (k + 1) /\ k + 1 >= Cardinality(Readers') /\ k + 1 \in 0..rw'
  BY <1>1, <1>3, <1>4 DEF READER, ObjTypeOK
<1>6. NoWriter
  BY DEF LockOK
<1>7. NoWriter'
  BY <1>6 DEF NoWriter, Moves, Reading, Writing, Making, Pinning, Unmapping
<1> QED
  BY <1>5, <1>7 DEF LockOK, NoWriter, StuckKept

LEMMA UnlockShared ==
  ASSUME ObjTypeOK, LockOK, NEW c \in Cpus, Moves(c), rw' = rw - READER,
         job[c].pc \in Reading, job'[c].pc \notin Reading \cup Writing
  PROVE  LockOK' /\ rw' \in Nat /\ StuckKept
<1>1. IsFiniteSet(Readers) /\ Cardinality(Readers) \in Nat
  BY VmarAssumption, FS_Subset, FS_CardinalityType DEF Readers
<1>2. Readers' = Readers \ {c} /\ c \in Readers
  BY DEF Readers, Moves
<1>3. Cardinality(Readers') = Cardinality(Readers) - 1
  BY <1>1, <1>2, FS_RemoveElement
<1>4. PICK k \in 0..rw : rw = READER * k /\ k >= Cardinality(Readers)
  BY <1>2 DEF LockOK
<1>5. Cardinality(Readers) # 0
  BY <1>1, <1>2, FS_EmptySet
<1>6. /\ rw' = READER * (k - 1) /\ k - 1 >= Cardinality(Readers') /\ k - 1 \in 0..rw'
  BY <1>1, <1>3, <1>4, <1>5 DEF READER, ObjTypeOK
<1>7. rw # WRITER
  BY <1>2, <1>4 DEF READER, WRITER, ObjTypeOK
<1>8. NoWriter
  BY <1>7 DEF LockOK
<1>9. NoWriter'
  BY <1>8 DEF NoWriter, Moves
<1>10. rw' \in Nat
  BY <1>6 DEF READER, ObjTypeOK
<1> QED
  BY <1>6, <1>7, <1>9, <1>10 DEF LockOK, NoWriter, StuckKept

-----------------------------------------------------------------------------
(* What one core does leaves the other cores their part of the invariant. *)

LEMMA ShapeMoves ==
  ASSUME ShapeOK, NEW c \in Cpus, Moves(c), Shape(job'[c]), job'[c].borrow \subseteq held',
         \A d \in Cpus \ {c} : job[d].borrow \subseteq held'
  PROVE  ShapeOK'
<1> SUFFICES ASSUME NEW d \in Cpus PROVE Shape(job'[d]) /\ job'[d].borrow \subseteq held'
  BY DEF ShapeOK, Shape
<1> QED
  BY DEF ShapeOK, Moves

(* No object is linked, unlinked, counted or freed. *)
SameTree ==
  \A v \in Vmars : vm'[v].parent = vm[v].parent /\ (Linked(v) => vm'[v].kind = vm[v].kind)
SameObjects ==
  /\ vm' \in [Vmars -> Object] /\ alive' = alive /\ held' = held
  /\ \A v \in Vmars : /\ vm'[v].parent = vm[v].parent /\ vm'[v].kind = vm[v].kind
                      /\ vm'[v].unmapped = vm[v].unmapped /\ vm'[v].ref = vm[v].ref

LEMMA BelowSame ==
  ASSUME NEW v \in Vmars, NEW w \in Vmars, SameTree
  PROVE  Below(v, w)' <=> Below(v, w)
<1>1. \A S \in SUBSET Vmars : UpClosed(S)' <=> UpClosed(S)
  BY DEF UpClosed, Linked, SameTree
<1> QED
  BY <1>1 DEF Below

LEMMA ChildrenSame ==
  ASSUME NEW v, SameTree
  PROVE  Children(v)' = Children(v)
BY DEF Children, SameTree, Vmars

LEMMA WorkOthers ==
  ASSUME ObjTypeOK, ShapeOK, WorkOK, NEW c \in Cpus, Moves(c), StuckKept, SameTree
  PROVE  \A d \in Cpus \ {c} : Work(d)'
<1> SUFFICES ASSUME NEW d \in Cpus \ {c} PROVE Work(d)'
  OBVIOUS
<1>1. job'[d] = job[d] /\ Work(d) /\ Shape(job[d])
  BY DEF Moves, WorkOK, ShapeOK
<1>2. PICK j : j = job[d]
  OBVIOUS
<1>3. /\ j.pc \in Pinning \cup Unmapping \/ j.top # None => j.v \in Vmars /\ j.top \in Vmars
      /\ j.pc \in Making => j.par \in Vmars
  BY <1>1, <1>2 DEF Shape, Vmars, ObjTypeOK, Call
<1>4. /\ j.v \in Vmars => (Linked(j.v)' <=> Linked(j.v))
      /\ j.par \in Vmars => (Linked(j.par)' <=> Linked(j.par))
  BY DEF Linked, SameTree
<1>5. j.v \in Vmars /\ j.top \in Vmars => (Below(j.v, j.top)' <=> Below(j.v, j.top))
  BY BelowSame
<1>6. Children(j.v)' = Children(j.v)
  BY ChildrenSame
<1>7. j.v \in Vmars /\ Linked(j.v) => vm'[j.v].kind = vm[j.v].kind
  BY DEF SameTree
<1> QED
  BY <1>1, <1>2, <1>3, <1>4, <1>5, <1>6, <1>7 DEF Work, StuckKept, Making, Pinning, Unmapping, Stopped

(* A call that neither makes a vmar nor has a reference of its own *)
NoRef(j) == j.par = None /\ (j.v = None \/ j.borrow # {})
SameRef(c) ==
  \/ job'[c].v = job[c].v /\ job'[c].par = job[c].par /\ job'[c].borrow = job[c].borrow
  \/ NoRef(job[c]) /\ NoRef(job'[c]) /\ (job'[c].v # None => ~IsNew(job'[c].v))

LEMMA ObjectsStay ==
  ASSUME ObjTypeOK, MakingOK, TreeAlive, RefCountExact, NEW c \in Cpus, Moves(c),
         SameObjects, SameRef(c)
  PROVE  MakingOK' /\ TreeAlive' /\ RefCountExact' /\ SameTree
<1>1. \A v \in Pool : IsNew(v)' <=> IsNew(v)
  BY VmarAssumption DEF IsNew, SameRef, NoRef, Moves
<1>2. \A v \in Pool, d \in Cpus : OwnsRef(d, v)' <=> OwnsRef(d, v)
  BY VmarAssumption DEF OwnsRef, SameRef, NoRef, Moves
<1>3. \A v \in Vmars : Linked(v)' <=> Linked(v)
  BY DEF Linked, SameObjects
<1>4. SameTree
  BY DEF SameObjects, SameTree
<1>5. MakingOK'
  <2> SUFFICES ASSUME NEW d \in Cpus, job'[d].par # None
               PROVE  MakingAt(d)'
    BY DEF MakingOK
  <2>1. job'[d].par = job[d].par /\ job'[d].v = job[d].v
    BY DEF SameRef, NoRef, Moves
  <2>2. IsNew(job[d].v) /\ MakingAt(d)
    BY <2>1 DEF IsNew, MakingOK
  <2>3. job[d].v \in Vmars /\ job[d].par \in Vmars /\ job[d].v # None
    BY <2>1, <2>2, VmarAssumption DEF MakingAt, ObjTypeOK, Call, Vmars
  <2>4. \A e \in Cpus : job'[e].v = job[d].v => e = d
    BY <2>1, <2>2, <2>3 DEF MakingAt, SameRef, Moves
  <2> QED
    BY <2>1, <2>2, <2>3, <2>4 DEF MakingAt, SameObjects
<1>6. TreeAlive'
  <2>1. Root \in Vmars /\ Pool \subseteq Vmars
    BY DEF Vmars
  <2>2. \A v \in alive' \ {Root} : v \in Pool
    BY DEF SameObjects, ObjTypeOK, Vmars
  <2>3. \A v \in alive' \ {Root} : Linked(v)' \/ vm'[v].unmapped \/ IsNew(v)'
    BY <1>1, <1>3, <2>1, <2>2 DEF TreeAlive, SameObjects
  <2>4. /\ Root \in alive' /\ ~Linked(Root)' /\ vm'[Root].kind = "region" /\ ~vm'[Root].unmapped
        /\ held' \subseteq alive'
    BY <1>3, <2>1 DEF TreeAlive, SameObjects
  <2>5. \A v \in Pool : Linked(v)' => LinkedAt(v)'
    BY <1>3, <2>1 DEF TreeAlive, SameObjects, LinkedAt
  <2>6. \A d \in Cpus, v \in Pool : OwnsRef(d, v)' => v \in alive'
    BY <1>2 DEF TreeAlive, SameObjects
  <2> QED
    BY <2>3, <2>4, <2>5, <2>6 DEF TreeAlive
<1>7. RefCountExact'
  <2> SUFFICES ASSUME NEW v \in alive \ {Root}
               PROVE  vm'[v].ref =
                        IF IsNew(v)' THEN 2
                        ELSE (IF Linked(v)' THEN 1 ELSE 0) + (IF v \in held' THEN 1 ELSE 0)
                             + Cardinality({d \in Cpus : OwnsRef(d, v)'})
    BY DEF RefCountExact, SameObjects, IsNew
  <2>1. v \in Pool /\ v \in Vmars
    BY DEF ObjTypeOK, Vmars
  <2>2. {d \in Cpus : OwnsRef(d, v)'} = {d \in Cpus : OwnsRef(d, v)}
    BY <1>2, <2>1
  <2>3. vm[v].ref = IF IsNew(v) THEN 2
                    ELSE (IF Linked(v) THEN 1 ELSE 0) + (IF v \in held THEN 1 ELSE 0)
                         + Cardinality({d \in Cpus : OwnsRef(d, v)})
    BY DEF RefCountExact, IsNew
  <2> QED
    BY <1>1, <1>3, <2>1, <2>2, <2>3 DEF SameObjects
<1> QED
  BY <1>4, <1>5, <1>6, <1>7

-----------------------------------------------------------------------------
(* Steps that leave the objects alone *)

Pcs == {"idle"} \cup Writing \cup Populating \cup Faulting \cup Stopped

LEMMA GotoMoves ==
  ASSUME ObjTypeOK, NEW c \in Cpus, NEW new \in Call, Goto(c, new)
  PROVE  Moves(c) /\ job'[c] = new
BY DEF ObjTypeOK, Goto, Moves

SameFields(j, k) ==
  /\ k.v = j.v /\ k.top = j.top /\ k.par = j.par /\ k.borrow = j.borrow /\ k.n = j.n

LEMMA BecomeMoves ==
  ASSUME ObjTypeOK, NEW c \in Cpus, NEW pc \in Pcs, Become(c, pc)
  PROVE  /\ Moves(c) /\ job'[c].pc = pc /\ SameFields(job[c], job'[c])
         /\ job'[c].todo = job[c].todo /\ job'[c].done = job[c].done /\ job'[c].global = job[c].global
<1>1. job[c] \in Call /\ [job[c] EXCEPT !.pc = pc] \in Call
  BY DEF ObjTypeOK, Call, Pcs
<1> QED
  BY <1>1 DEF ObjTypeOK, Become, Moves, SameFields, Call

LEMMA ObjStutter ==
  ASSUME ObjInv, UNCHANGED <<vm, alive, held, rw, job>>
  PROVE  ObjInv'
<1>1. ObjTypeOK' /\ ShapeOK'
  BY DEF ObjInv, ObjTypeOK, ShapeOK
<1>2. Readers' = Readers /\ NoWriter' = NoWriter /\ LockOK'
  BY DEF ObjInv, LockOK, Readers, NoWriter
<1>3. MakingOK' /\ TreeAlive'
  BY DEF ObjInv, MakingOK, MakingAt, TreeAlive, LinkedAt, Linked, IsNew, OwnsRef
<1>4. RefCountExact'
  BY DEF ObjInv, RefCountExact, Linked, OwnsRef
<1>5. WorkOK'
  BY <1>2 DEF ObjInv, WorkOK, Work, Linked, Children, Below, UpClosed
<1> QED
  BY <1>1, <1>2, <1>3, <1>4, <1>5 DEF ObjInv

LEMMA FixedStep ==
  ASSUME ObjInv, NEW c \in Cpus, Moves(c), SameObjects, SameRef(c),
         Shape(job'[c]), job'[c].borrow \subseteq held,
         rw' \in Nat, LockOK', StuckKept, Work(c)'
  PROVE  ObjInv'
<1>1. MakingOK' /\ TreeAlive' /\ RefCountExact' /\ SameTree
  BY ObjectsStay DEF ObjInv
<1>2. ObjTypeOK'
  BY DEF ObjInv, ObjTypeOK, SameObjects, Moves
<1>3. ShapeOK'
  BY ShapeMoves DEF ObjInv, ShapeOK, SameObjects
<1>4. WorkOK'
  BY <1>1, WorkOthers DEF ObjInv, WorkOK
<1> QED
  BY <1>1, <1>2, <1>3, <1>4 DEF ObjInv

LEMMA UnchangedObjects ==
  ASSUME ObjTypeOK, UNCHANGED <<vm, alive, held>>
  PROVE  SameObjects
BY DEF ObjTypeOK, SameObjects

(* A call goes on with the same arguments, or stops. *)
SamePhase(j, k) ==
  \/ k.pc \in Stopped
  \/ j.pc \in Making /\ k.pc \in Making
  \/ j.pc \in Populating /\ k.pc \in Populating
  \/ j.pc \in Faulting /\ k.pc \in Faulting
  \/ j.pc \in Pinning \cup Unmapping /\ k.pc \in Pinning \cup Unmapping

LEMMA ShapeKept ==
  ASSUME NEW j \in Call, NEW k \in Call, Shape(j), SameFields(j, k), SamePhase(j, k)
  PROVE  Shape(k)
BY DEF Shape, SameFields, SamePhase, Making, Populating, Faulting, Pinning, Unmapping, Stopped

LEMMA QuietStep ==
  ASSUME ObjInv, NEW c \in Cpus, Moves(c), UNCHANGED <<vm, alive, held>>,
         SameFields(job[c], job'[c]), SamePhase(job[c], job'[c]),
         rw' \in Nat, LockOK', StuckKept, Work(c)'
  PROVE  ObjInv'
<1>1. SameObjects
  BY UnchangedObjects DEF ObjInv
<1>2. job[c] \in Call /\ job'[c] \in Call /\ Shape(job[c]) /\ job[c].borrow \subseteq held
  BY DEF ObjInv, ObjTypeOK, Moves, ShapeOK
<1>3. Shape(job'[c])
  BY <1>2, ShapeKept
<1>4. SameRef(c) /\ job'[c].borrow \subseteq held
  BY <1>2 DEF SameRef, SameFields
<1> QED
  BY <1>1, <1>3, <1>4, FixedStep

(* Outside of pinning and unmapping a core has no work to account for. *)
LEMMA NoWork ==
  ASSUME NEW c \in Cpus,
         \/ job'[c].pc \in {"idle", "place"} \cup Populating \cup Faulting
         \/ job'[c].pc \in Stopped /\ (job'[c].top = None \/ job'[c].v = job'[c].top)
  PROVE  Work(c)'
BY DEF Work, Populating, Faulting, Pinning, Stopped

(* A writer that stops leaves the lock taken for ever. *)
LEMMA WriterStops ==
  ASSUME ObjInv, NEW c \in Cpus, Moves(c), job[c].pc \in Writing, job'[c].pc \in Stopped,
         rw' = rw
  PROVE  rw' = WRITER /\ NoWriter'
BY DEF ObjInv, LockOK, NoWriter, Moves, Stopped, Writing, Making, Pinning, Unmapping

(* The lock of a step that keeps it *)
LEMMA QuietLock ==
  ASSUME ObjInv, NEW c \in Cpus, Moves(c), rw' = rw,
         job'[c].pc \in Writing => job[c].pc \in Writing,
         job'[c].pc \in Reading => job[c].pc \in Reading
  PROVE  LockOK' /\ StuckKept /\ rw' \in Nat
BY LockStays DEF ObjInv, ObjTypeOK

(* A core that returns from a call in which it used a handle *)
LEMMA ReturnStep ==
  ASSUME ObjInv, NEW c \in Cpus, Goto(c, Idle), UNCHANGED <<vm, alive, held>>,
         NoRef(job[c]), rw' \in Nat, LockOK', StuckKept
  PROVE  ObjInv'
<1>1. Moves(c) /\ job'[c] = Idle
  BY GotoMoves, IdleFields DEF ObjInv
<1>2. SameObjects
  BY UnchangedObjects DEF ObjInv
<1>3. SameRef(c)
  BY <1>1, IdleFields DEF SameRef, NoRef
<1>4. Shape(job'[c]) /\ job'[c].borrow \subseteq held
  BY <1>1, IdleFields DEF Shape, Making, Populating, Faulting, Pinning, Unmapping
<1>5. Work(c)'
  BY <1>1, IdleFields, NoWork
<1> QED
  BY <1>1, <1>2, <1>3, <1>4, <1>5, FixedStep

(* vmar_populate *)

LEMMA PopulateMutexObj ==
  ASSUME ObjInv, NEW c \in Cpus, PopulateMutex(c)
  PROVE  ObjInv'
<1> DEFINE v == job[c].v
<1>1. /\ ObjTypeOK /\ LockOK /\ job[c] \in Call /\ job[c].pc = "pop_mutex" /\ UNCHANGED <<vm, alive, held>>
      /\ Shape(job[c]) /\ v \in Pool /\ NoRef(job[c]) /\ job[c].top \in {None, v}
  BY DEF ObjInv, ObjTypeOK, PopulateMutex, ShapeOK, Shape, Populating, NoRef, Call
<1>2. CASE mutex[v] = 1 /\ Stop(c) /\ UNCHANGED <<mutex, rw>>
  <2>1. Moves(c) /\ job'[c].pc = "halted" /\ SameFields(job[c], job'[c])
    BY <1>1, <1>2, BecomeMoves DEF Stop, Pcs, Stopped
  <2>2. LockOK' /\ StuckKept /\ rw' \in Nat
    BY <1>2, <2>1, QuietLock DEF Writing, Reading, Making, Pinning, Unmapping
  <2>3. SamePhase(job[c], job'[c]) /\ Work(c)'
    BY <1>1, <2>1, NoWork DEF SamePhase, Stopped, SameFields, Shape, Populating
  <2> QED
    BY <1>1, <2>1, <2>2, <2>3, QuietStep
<1>3. CASE mutex[v] = 0 /\ vm[v].unmapped /\ rw' = rw - READER /\ Goto(c, Idle)
  <2>1. Moves(c) /\ job'[c].pc = "idle"
    BY <1>1, <1>3, GotoMoves, IdleFields
  <2>2. LockOK' /\ StuckKept /\ rw' \in Nat
    BY <1>1, <1>3, <2>1, UnlockShared DEF Reading, Writing, Making, Pinning, Unmapping
  <2> QED
    BY <1>1, <1>3, <2>2, ReturnStep
<1>4. CASE /\ UNCHANGED rw
           /\ Goto(c, [job[c] EXCEPT !.pc = "populate", !.todo = vm[v].range,
                                     !.global = vm[v].locked])
  <2>1. vm[v].range \in SUBSET VPages /\ vm[v].locked \in BOOLEAN /\ "populate" \in Pcs
    BY <1>1 DEF ObjTypeOK, Object, Vmars, Pcs, Populating
  <2>a. PICK k : k = [job[c] EXCEPT !.pc = "populate", !.todo = vm[v].range,
                                    !.global = vm[v].locked]
    OBVIOUS
  <2>b. k \in Call
    BY <1>1, <2>1, <2>a DEF Call, Pcs
  <2>c. k.pc = "populate" /\ SameFields(job[c], k)
    BY <1>1, <2>a DEF Call, SameFields
  <2>2. Moves(c) /\ job'[c].pc = "populate" /\ SameFields(job[c], job'[c])
    BY <1>1, <1>4, <2>a, <2>b, <2>c, GotoMoves
  <2>3. LockOK' /\ StuckKept /\ rw' \in Nat
    BY <1>1, <1>4, <2>2, QuietLock DEF Writing, Reading, Making, Pinning, Unmapping
  <2>4. SamePhase(job[c], job'[c]) /\ Work(c)'
    BY <1>1, <2>2, NoWork DEF SamePhase, Populating
  <2> QED
    BY <1>1, <2>2, <2>3, <2>4, QuietStep
<1> QED
  BY <1>2, <1>3, <1>4 DEF PopulateMutex

(* The page is taken off what is left to populate, or the core stops. *)
LEMMA PopulatePageMoves ==
  ASSUME ObjTypeOK, NEW c \in Cpus, NEW p, PopulatePage(c, p), job[c].pc # "panic"
  PROVE  /\ Moves(c) /\ SameFields(job[c], job'[c])
         /\ job'[c].pc \in {job[c].pc, "panic"}
         /\ job'[c].pc = "panic" => ~Present(p) /\ (resv = 0 \/ free = {})
         /\ job'[c].global = job[c].global
         /\ job'[c].pc # "panic" => job'[c].todo = job[c].todo \ {p}
<1>1. job[c] \in Call /\ job[c].todo \ {p} \in SUBSET VPages
  BY DEF ObjTypeOK, Call
<1>2. CASE Goto(c, [job[c] EXCEPT !.todo = @ \ {p}])
  <2>1. PICK k : k = [job[c] EXCEPT !.todo = job[c].todo \ {p}]
    OBVIOUS
  <2>2. Goto(c, k) /\ k \in Call
    BY <1>1, <1>2, <2>1 DEF Call
  <2>3. /\ SameFields(job[c], k) /\ k.pc = job[c].pc /\ k.todo = job[c].todo \ {p}
        /\ k.global = job[c].global
    BY <1>1, <2>1 DEF Call, SameFields
  <2> QED
    BY <2>2, <2>3, GotoMoves
<1>3. CASE ~Present(p) /\ (resv = 0 \/ free = {}) /\ Fail(c)
  BY <1>3, BecomeMoves DEF Fail, Pcs, Stopped
<1> QED
  BY <1>2, <1>3 DEF PopulatePage

LEMMA PopulateObj ==
  ASSUME ObjInv, NEW c \in Cpus, NEW p, PopulatePage(c, p), job[c].pc \in {"populate", "fault"},
         UNCHANGED <<vm, alive, held, rw>>
  PROVE  ObjInv'
<1>1. /\ ObjTypeOK /\ job[c] \in Call /\ Shape(job[c])
      /\ job[c].top = None \/ job[c].top = job[c].v
  BY DEF ObjInv, ObjTypeOK, ShapeOK, Shape, Populating, Faulting, Call
<1>2. Moves(c) /\ SameFields(job[c], job'[c]) /\ job'[c].pc \in {job[c].pc, "panic"}
  BY <1>1, PopulatePageMoves
<1>3. LockOK' /\ StuckKept /\ rw' \in Nat
  BY <1>2, QuietLock DEF Writing, Reading, Making, Pinning, Unmapping
<1>4. SamePhase(job[c], job'[c])
  BY <1>2 DEF SamePhase, Stopped, Populating, Faulting
<1>5. Work(c)'
  BY <1>1, <1>2, NoWork DEF Populating, Faulting, Stopped, SameFields
<1> QED
  BY <1>2, <1>3, <1>4, <1>5, QuietStep

LEMMA PopulateDoneObj ==
  ASSUME ObjInv, NEW c \in Cpus, PopulateDone(c)
  PROVE  ObjInv'
<1>1. /\ ObjTypeOK /\ LockOK /\ job[c].pc = "populate" /\ UNCHANGED <<vm, alive, held>>
      /\ Goto(c, Idle) /\ rw' = rw - READER /\ NoRef(job[c])
  BY DEF ObjInv, PopulateDone, ShapeOK, Shape, Populating, NoRef
<1>2. Moves(c) /\ job'[c].pc = "idle"
  BY <1>1, GotoMoves, IdleFields
<1>3. LockOK' /\ StuckKept /\ rw' \in Nat
  BY <1>1, <1>2, UnlockShared DEF Reading, Writing, Making, Pinning, Unmapping
<1> QED
  BY <1>1, <1>3, ReturnStep

(* The page fault, between its reference and its put *)

LEMMA FaultMovesObj ==
  ASSUME ObjInv, NEW c \in Cpus,
         FaultMutex(c) \/ FaultUnlock(c) \/ FaultFlags(c) \/ FaultMutexUnlock(c)
  PROVE  ObjInv'
<1>1. /\ ObjTypeOK /\ LockOK /\ job[c] \in Call /\ job[c].pc \in Faulting /\ UNCHANGED <<vm, alive, held>>
      /\ Shape(job[c]) /\ job[c].v \in Vmars /\ job[c].top = None
  BY DEF ObjInv, ObjTypeOK, ShapeOK, Shape, Faulting, Call, Vmars,
         FaultMutex, FaultUnlock, FaultFlags, FaultMutexUnlock
<1>2. /\ Moves(c) /\ SameFields(job[c], job'[c]) /\ job'[c].pc \in Faulting \cup Stopped
      /\ LockOK' /\ StuckKept /\ rw' \in Nat
  <2>1. CASE FaultMutex(c)
    <3>1. job[c].pc = "fault_mutex" /\ rw' = rw /\ (Stop(c) \/ Become(c, "fault_unlock"))
      BY <2>1 DEF FaultMutex
    <3>2. /\ Moves(c) /\ SameFields(job[c], job'[c]) /\ job'[c].pc \in {"halted", "fault_unlock"}
      BY <1>1, <3>1, BecomeMoves DEF Stop, Pcs, Faulting, Stopped
    <3>3. LockOK' /\ StuckKept /\ rw' \in Nat
      BY <3>1, <3>2, QuietLock DEF Writing, Reading, Making, Pinning, Unmapping
    <3> QED
      BY <3>2, <3>3 DEF Faulting, Stopped
  <2>2. CASE FaultUnlock(c)
    <3>1. job[c].pc = "fault_unlock" /\ rw' = rw - READER /\ Become(c, "fault_flags")
      BY <2>2 DEF FaultUnlock
    <3>2. /\ Moves(c) /\ SameFields(job[c], job'[c]) /\ job'[c].pc = "fault_flags"
      BY <1>1, <3>1, BecomeMoves DEF Pcs, Faulting
    <3>3. LockOK' /\ StuckKept /\ rw' \in Nat
      BY <1>1, <3>1, <3>2, UnlockShared DEF Writing, Reading, Making, Pinning, Unmapping
    <3> QED
      BY <3>2, <3>3 DEF Faulting
  <2>3. CASE FaultFlags(c)
    <3>1. /\ job[c].pc = "fault_flags" /\ rw' = rw
          /\ Goto(c, [job[c] EXCEPT !.pc = "fault", !.global = vm[job[c].v].locked])
      BY <2>3 DEF FaultFlags
    <3>2. vm[job[c].v].locked \in BOOLEAN /\ "fault" \in Pcs
      BY <1>1 DEF ObjTypeOK, Object, Pcs, Faulting
    <3>a. PICK k : k = [job[c] EXCEPT !.pc = "fault", !.global = vm[job[c].v].locked]
      OBVIOUS
    <3>b. k \in Call
      BY <1>1, <3>2, <3>a DEF Call, Pcs
    <3>c. k.pc = "fault" /\ SameFields(job[c], k)
      BY <1>1, <3>a DEF Call, SameFields
    <3>3. /\ Moves(c) /\ SameFields(job[c], job'[c]) /\ job'[c].pc = "fault"
      BY <1>1, <3>1, <3>a, <3>b, <3>c, GotoMoves
    <3>4. LockOK' /\ StuckKept /\ rw' \in Nat
      BY <3>1, <3>3, QuietLock DEF Writing, Reading, Making, Pinning, Unmapping
    <3> QED
      BY <3>3, <3>4 DEF Faulting
  <2>4. CASE FaultMutexUnlock(c)
    <3>1. job[c].pc = "fault" /\ rw' = rw /\ Become(c, "fault_put")
      BY <2>4 DEF FaultMutexUnlock
    <3>2. /\ Moves(c) /\ SameFields(job[c], job'[c]) /\ job'[c].pc = "fault_put"
      BY <1>1, <3>1, BecomeMoves DEF Pcs, Faulting
    <3>3. LockOK' /\ StuckKept /\ rw' \in Nat
      BY <3>1, <3>2, QuietLock DEF Writing, Reading, Making, Pinning, Unmapping
    <3> QED
      BY <3>2, <3>3 DEF Faulting
  <2> QED
    BY <2>1, <2>2, <2>3, <2>4
<1>3. SamePhase(job[c], job'[c]) /\ Work(c)'
  BY <1>1, <1>2, NoWork DEF SamePhase, SameFields
<1> QED
  BY <1>1, <1>2, <1>3, QuietStep

(* Calls that a thread begins with a handle *)

LEMMA HeldNotNew ==
  ASSUME ObjInv, NEW v \in held
  PROVE  v \in Pool /\ v \in alive /\ ~IsNew(v) /\ (vm[v].unmapped \/ Linked(v))
<1>1. v \in Pool /\ v \in alive /\ v # Root
  BY VmarAssumption DEF ObjInv, ObjTypeOK, TreeAlive
<1>2. ~IsNew(v)
  BY DEF ObjInv, MakingOK, MakingAt, IsNew
<1> QED
  BY <1>1, <1>2 DEF ObjInv, TreeAlive

LEMMA HandleStep ==
  ASSUME ObjInv, NEW c \in Cpus, NEW v \in held, job[c].pc = "idle", NEW new \in Call,
         Goto(c, new), new.v = v, new.par = None, new.borrow = {v},
         \/ new.top = None /\ new.pc \in Populating \cup Stopped
         \/ new.top = v /\ new.pc \in Pinning \cup Unmapping \cup Stopped,
         UNCHANGED <<vm, alive, held>>, rw' \in Nat, LockOK', StuckKept, Work(c)'
  PROVE  ObjInv'
<1>1. Moves(c) /\ job'[c] = new
  BY GotoMoves DEF ObjInv
<1>2. SameObjects
  BY UnchangedObjects DEF ObjInv
<1>3. v \in Pool /\ ~IsNew(v) /\ v # None
  BY HeldNotNew, VmarAssumption
<1>4. NoRef(job[c]) /\ NoRef(new)
  BY IdleFields DEF NoRef, ObjInv, ShapeOK, Shape
<1>5. SameRef(c)
  BY <1>1, <1>3, <1>4 DEF SameRef
<1>6. Shape(new)
  BY <1>3 DEF Shape, Making, Populating, Faulting, Pinning, Unmapping, Stopped
<1> QED
  BY <1>1, <1>2, <1>5, <1>6, FixedStep

LEMMA vmar_populateObj ==
  ASSUME ObjInv, NEW c \in Cpus, NEW v \in Pool, vmar_populate(c, v)
  PROVE  ObjInv'
<1> DEFINE new == [Idle EXCEPT !.pc = "pop_mutex", !.v = v, !.borrow = {v}]
           stop == [new EXCEPT !.pc = "halted"]
<1>1. /\ v \in held /\ job[c].pc = "idle" /\ Shared(c, new) /\ UNCHANGED <<vm, alive, held>>
      /\ ObjTypeOK /\ LockOK
  BY DEF vmar_populate, CanUse, ObjInv
<1>2. /\ new \in Call /\ new.v = v /\ new.par = None /\ new.top = None /\ new.borrow = {v}
      /\ new.pc = "pop_mutex"
  BY IdleFields DEF Call, Populating
<1> HIDE DEF new
<1>3. /\ stop \in Call /\ stop.v = v /\ stop.par = None /\ stop.top = None /\ stop.borrow = {v}
      /\ stop.pc = "halted"
  BY <1>2 DEF Call, Stopped
<1> HIDE DEF stop
<1>4. CASE rw # WRITER /\ rw' = rw + READER /\ Goto(c, new)
  <2>1. Moves(c) /\ job'[c] = new
    BY <1>1, <1>2, <1>4, GotoMoves
  <2>2. LockOK' /\ StuckKept
    BY <1>1, <1>2, <1>4, <2>1, LockShared DEF Writing, Reading, Making, Pinning, Unmapping
  <2>3. rw' \in Nat
    BY <1>1, <1>4 DEF ObjTypeOK, READER
  <2>4. Work(c)'
    BY <1>2, <2>1, NoWork DEF Populating
  <2> QED
    BY <1>1, <1>2, <1>4, <2>2, <2>3, <2>4, HandleStep DEF Populating
<1>5. CASE UNCHANGED rw /\ Goto(c, stop)
  <2>1. Moves(c) /\ job'[c] = stop
    BY <1>1, <1>3, <1>5, GotoMoves
  <2>2. LockOK' /\ StuckKept /\ rw' \in Nat
    BY <1>1, <1>3, <1>5, <2>1, QuietLock DEF Writing, Reading, Making, Pinning, Unmapping
  <2>3. Work(c)'
    BY <1>3, <2>1, NoWork DEF Stopped
  <2> QED
    BY <1>1, <1>3, <1>5, <2>2, <2>3, HandleStep DEF Stopped
<1> QED
  BY <1>1, <1>4, <1>5 DEF Shared, stop

(* vmar_lock and vmar_unmap *)
LEMMA ExclusiveStep ==
  ASSUME ObjInv, NEW c \in Cpus, NEW v \in held, job[c].pc = "idle",
         UNCHANGED <<vm, alive, held>>,
         NEW new \in Call, new.v = v, new.par = None, new.top = v, new.borrow = {v},
         new.pc \in {"lock", "unmap_first"}, new.pc = "lock" => ~vm[v].unmapped,
         Exclusive(c, new)
  PROVE  ObjInv'
<1> DEFINE stop == [new EXCEPT !.pc = "halted"]
<1>1. ObjTypeOK /\ LockOK
  BY DEF ObjInv
<1>2. /\ stop \in Call /\ stop.v = v /\ stop.par = None /\ stop.top = v /\ stop.borrow = {v}
      /\ stop.pc = "halted"
  BY DEF Call, Stopped
<1> HIDE DEF stop
<1>3. CASE rw = 0 /\ rw' = WRITER /\ Goto(c, new)
  <2>1. Moves(c) /\ job'[c] = new
    BY <1>1, <1>3, GotoMoves
  <2>2. LockOK' /\ StuckKept /\ rw' \in Nat
    BY <1>1, <1>3, <2>1, LockTaken DEF Writing, Reading, Making, Pinning, Unmapping, WRITER
  <2>3. Work(c)'
    <3>1. new.pc = "lock" => Linked(v)'
      BY HeldNotNew DEF Linked
    <3> QED
      BY <2>1, <3>1 DEF Work, Pinning, Stopped, Linked
  <2> QED
    BY <1>3, <2>2, <2>3, HandleStep DEF Pinning, Unmapping
<1>4. CASE UNCHANGED rw /\ Goto(c, stop)
  <2>1. Moves(c) /\ job'[c] = stop
    BY <1>1, <1>2, <1>4, GotoMoves
  <2>2. LockOK' /\ StuckKept /\ rw' \in Nat
    BY <1>1, <1>2, <1>4, <2>1, QuietLock DEF Writing, Reading, Making, Pinning, Unmapping
  <2>3. Work(c)'
    BY <1>2, <2>1, NoWork DEF Stopped
  <2> QED
    BY <1>2, <1>4, <2>2, <2>3, HandleStep DEF Stopped
<1> QED
  BY <1>3, <1>4 DEF Exclusive, stop

LEMMA vmar_lockObj ==
  ASSUME ObjInv, NEW c \in Cpus, NEW v \in Pool, vmar_lock(c, v)
  PROVE  ObjInv'
<1> DEFINE new == [Idle EXCEPT !.pc = "lock", !.v = v, !.top = v, !.borrow = {v}]
<1>1. /\ new \in Call /\ new.v = v /\ new.par = None /\ new.top = v /\ new.borrow = {v}
      /\ new.pc = "lock"
  BY IdleFields DEF Call, Writing, Pinning
<1> HIDE DEF new
<1>2. /\ v \in held /\ job[c].pc = "idle" /\ ~vm[v].unmapped /\ Exclusive(c, new)
      /\ UNCHANGED <<vm, alive, held>>
  BY DEF vmar_lock, CanUse, new
<1> QED
  BY <1>1, <1>2, ExclusiveStep

LEMMA vmar_unmapObj ==
  ASSUME ObjInv, NEW c \in Cpus, NEW v \in Pool, vmar_unmap(c, v)
  PROVE  ObjInv'
<1> DEFINE new == [Idle EXCEPT !.pc = "unmap_first", !.v = v, !.top = v, !.borrow = {v}]
<1>1. /\ new \in Call /\ new.v = v /\ new.par = None /\ new.top = v /\ new.borrow = {v}
      /\ new.pc = "unmap_first"
  BY IdleFields DEF Call, Writing, Unmapping
<1> HIDE DEF new
<1>2. /\ v \in held /\ job[c].pc = "idle" /\ Exclusive(c, new)
      /\ UNCHANGED <<vm, alive, held>>
  BY DEF vmar_unmap, CanUse, new
<1> QED
  BY <1>1, <1>2, ExclusiveStep

(* Under the exclusive lock: pinning, and unmapping up to the erase *)

LEMMA WorkerFacts ==
  ASSUME ObjInv, NEW c \in Cpus, job[c].pc \in Pinning \cup Unmapping
  PROVE  /\ ObjTypeOK /\ LockOK /\ job[c] \in Call /\ job[c].v \in Pool /\ job[c].top \in Pool
         /\ job[c].par = None /\ job[c].borrow = {job[c].top} /\ NoRef(job[c])
         /\ Shape(job[c]) /\ job[c].pc \in Writing /\ rw = WRITER /\ Work(c)
         /\ job[c].top \in held
<1>1. Shape(job[c]) /\ job[c].borrow \subseteq held
  BY DEF ObjInv, ShapeOK
<1>2. job[c].pc \in Writing
  BY DEF Writing
<1>3. job[c].top \in Pool /\ job[c].top # None
  BY <1>1, VmarAssumption DEF Shape
<1> QED
  BY <1>1, <1>2, <1>3 DEF ObjInv, ObjTypeOK, Shape, NoRef, LockOK, NoWriter, WorkOK

(* The core stays at its vmar. *)
LEMMA WorkerStays ==
  ASSUME ObjInv, NEW c \in Cpus, job[c].pc \in Pinning \cup Unmapping, Moves(c),
         SameFields(job[c], job'[c]), job'[c].pc \in Pinning \cup Unmapping \cup Stopped,
         UNCHANGED <<vm, alive, held, rw>>, Work(c)'
  PROVE  ObjInv'
<1>1. LockOK' /\ StuckKept /\ rw' \in Nat
  BY QuietLock, WorkerFacts DEF Writing, Reading, Making, Pinning, Unmapping, Stopped
<1>2. SamePhase(job[c], job'[c])
  BY DEF SamePhase
<1> QED
  BY <1>1, <1>2, QuietStep

LEMMA WorkerStops ==
  ASSUME ObjInv, NEW c \in Cpus, job[c].pc \in Pinning \cup Unmapping, NEW pc \in Stopped,
         Become(c, pc), UNCHANGED <<vm, alive, held, rw>>,
         job[c].v # job[c].top => Linked(job[c].v)
  PROVE  ObjInv'
<1>1. Moves(c) /\ job'[c].pc = pc /\ SameFields(job[c], job'[c])
  BY BecomeMoves, WorkerFacts DEF Pcs
<1>2. rw' = WRITER /\ NoWriter'
  BY <1>1, WriterStops, WorkerFacts
<1>3. Work(c)'
  BY <1>1, <1>2 DEF Work, SameFields, Linked, Stopped, Pinning
<1> QED
  BY <1>1, <1>3, WorkerStays

(* The core goes to another linked vmar. *)
LEMMA WorkerGoes ==
  ASSUME ObjInv, NEW c \in Cpus, job[c].pc \in Pinning \cup Unmapping, NEW new \in Call,
         Goto(c, new), new.v \in Pool, Linked(new.v), new.top = job[c].top,
         new.par = None, new.borrow = job[c].borrow, new.pc \in {"lock", "unmap"},
         new.pc = "unmap" => Below(new.v, new.top),
         UNCHANGED <<vm, alive, held, rw>>
  PROVE  ObjInv'
<1>1. Moves(c) /\ job'[c] = new
  BY GotoMoves, WorkerFacts
<1>2. LockOK' /\ StuckKept /\ rw' \in Nat
  BY <1>1, QuietLock, WorkerFacts DEF Writing, Reading, Making, Pinning, Unmapping
<1>3. SameObjects
  BY UnchangedObjects, WorkerFacts
<1>4. ~IsNew(new.v)
  BY VmarAssumption DEF ObjInv, MakingOK, MakingAt, IsNew, Linked
<1>5. SameRef(c)
  BY <1>1, <1>4, WorkerFacts DEF SameRef, NoRef
<1>6. Shape(new) /\ new.borrow \subseteq held
  BY WorkerFacts, VmarAssumption DEF Shape, Making, Populating, Faulting, Pinning, Unmapping
<1>7. Work(c)'
  BY <1>1 DEF Work, Linked, Below, UpClosed, Stopped
<1> QED
  BY <1>1, <1>2, <1>3, <1>5, <1>6, <1>7, FixedStep

LEMMA WorkerReturns ==
  ASSUME ObjInv, NEW c \in Cpus, job[c].pc \in Pinning \cup Unmapping, Goto(c, Idle), rw' = 0,
         UNCHANGED <<vm, alive, held>>
  PROVE  ObjInv'
<1>1. Moves(c) /\ job'[c].pc = "idle"
  BY GotoMoves, IdleFields, WorkerFacts
<1>2. LockOK' /\ StuckKept /\ rw' \in Nat
  BY <1>1, LockReleased, WorkerFacts DEF Writing, Reading, Making, Pinning, Unmapping
<1> QED
  BY <1>2, ReturnStep, WorkerFacts

LEMMA LockMarkObj ==
  ASSUME ObjInv, NEW c \in Cpus, LockMark(c)
  PROVE  ObjInv' /\ SameObjects
<1> DEFINE v == job[c].v
<1>1. /\ job[c].pc = "lock" /\ job[c].pc \in Pinning \cup Unmapping
      /\ UNCHANGED <<alive, held, rw>>
      /\ vm' = [vm EXCEPT ![v].locked = TRUE]
  BY DEF LockMark, Pinning
<1>2. /\ ObjTypeOK /\ v \in Pool /\ v \in Vmars /\ Linked(v) /\ vm[v] \in Object /\ job[c] \in Call
      /\ Shape(job[c]) /\ job[c].borrow \subseteq held
  BY <1>1, WorkerFacts DEF Vmars, Work, ObjTypeOK, Pinning
<1>3. PICK new : new = [job[c] EXCEPT
                          !.pc = IF vm[v].kind = "mapping" THEN "lock_global" ELSE "lock_next",
                          !.done = @ \cup {v}]
  OBVIOUS
<1>4. new \in Call
  BY <1>2, <1>3 DEF Call, Writing, Pinning
<1>5. SameFields(job[c], new) /\ new.pc \in {"lock_global", "lock_next"}
  BY <1>2, <1>3 DEF Call, SameFields
<1>6. Goto(c, new)
  BY <1>3 DEF LockMark
<1>7. Moves(c) /\ job'[c] = new
  BY <1>2, <1>4, <1>6, GotoMoves
<1>8. [vm[v] EXCEPT !.locked = TRUE] \in Object
  BY <1>2 DEF Object
<1>9. SameObjects
  BY <1>1, <1>2, <1>8 DEF SameObjects, ObjTypeOK, Object
<1>10. LockOK' /\ StuckKept /\ rw' \in Nat
  BY <1>1, <1>5, <1>7, QuietLock DEF Writing, Reading, Making, Pinning, Unmapping
<1>11. SamePhase(job[c], new)
  BY <1>1, <1>5 DEF SamePhase, Pinning
<1>12. Shape(new)
  BY <1>2, <1>4, <1>5, <1>11, ShapeKept
<1>13. SameRef(c) /\ new.borrow \subseteq held
  BY <1>2, <1>5, <1>7 DEF SameRef, SameFields
<1>14. Linked(v)'
  <2>1. vm'[v].parent = vm[v].parent
    BY <1>2, <1>9 DEF SameObjects
  <2>2. job'[c].v = job[c].v
    BY <1>5, <1>7 DEF SameFields
  <2> QED
    BY <1>2, <2>1, <2>2 DEF Linked
<1>15. Work(c)'
  BY <1>5, <1>7, <1>14 DEF Work, Stopped, SameFields
<1> QED
  BY <1>7, <1>9, <1>10, <1>12, <1>13, <1>15, FixedStep

LEMMA LockGlobalObj ==
  ASSUME ObjInv, NEW c \in Cpus, LockGlobal(c)
  PROVE  ObjInv'
<1>1. /\ job[c].pc = "lock_global" /\ job[c].pc \in Pinning \cup Unmapping
      /\ UNCHANGED <<vm, alive, held, rw>> /\ (Stop(c) \/ Become(c, "lock_next"))
  BY DEF LockGlobal, Pinning
<1>2. ObjTypeOK /\ Linked(job[c].v)
  BY <1>1, WorkerFacts DEF Work, Pinning
<1>3. CASE Stop(c)
  BY <1>1, <1>2, <1>3, WorkerStops DEF Stop, Stopped
<1>4. CASE Become(c, "lock_next")
  <2>1. Moves(c) /\ job'[c].pc = "lock_next" /\ SameFields(job[c], job'[c])
    BY <1>2, <1>4, BecomeMoves DEF Pcs, Writing, Pinning
  <2>2. Work(c)'
    BY <1>1, <1>2, <2>1 DEF Work, Linked, SameFields, Stopped
  <2> QED
    BY <1>1, <2>1, <2>2, WorkerStays DEF Pinning
<1> QED
  BY <1>1, <1>3, <1>4

LEMMA LockNextObj ==
  ASSUME ObjInv, NEW c \in Cpus, LockNext(c)
  PROVE  ObjInv'
<1>1. /\ job[c].pc = "lock_next" /\ job[c].pc \in Pinning \cup Unmapping
      /\ UNCHANGED <<vm, alive, held>>
  BY DEF LockNext, Pinning
<1>2. job[c] \in Call /\ job[c].par = None
  BY <1>1, WorkerFacts
<1>3. CASE rw' = 0 /\ Goto(c, Idle)
  BY <1>1, <1>3, WorkerReturns
<1>4. ASSUME NEW w \in Pool \ job[c].done, vm[w].parent \in job[c].done, UNCHANGED rw,
             Goto(c, [job[c] EXCEPT !.pc = "lock", !.v = w])
      PROVE  ObjInv'
  <2>1. PICK new : new = [job[c] EXCEPT !.pc = "lock", !.v = w]
    OBVIOUS
  <2>2. new \in Call
    BY <1>2, <2>1 DEF Call, Writing, Pinning
  <2>3. new.v = w /\ new.pc = "lock" /\ new.top = job[c].top /\ new.par = None /\ new.borrow = job[c].borrow
    BY <1>2, <2>1 DEF Call
  <2>4. Linked(w)
    BY <1>2, <1>4, VmarAssumption DEF Call, Linked
  <2> QED
    BY <1>1, <1>4, <2>1, <2>2, <2>3, <2>4, WorkerGoes
<1> QED
  BY <1>3, <1>4 DEF LockNext

LEMMA UnmapFirstObj ==
  ASSUME ObjInv, NEW c \in Cpus, UnmapFirst(c)
  PROVE  ObjInv'
<1>1. /\ job[c].pc = "unmap_first" /\ job[c].pc \in Pinning \cup Unmapping
      /\ UNCHANGED <<vm, alive, held>>
  BY DEF UnmapFirst, Unmapping
<1>2. ObjTypeOK /\ job[c].top \in held /\ job[c].v = job[c].top
  BY <1>1, WorkerFacts DEF Work
<1>3. CASE rw' = 0 /\ Goto(c, Idle)
  BY <1>1, <1>3, WorkerReturns
<1>4. CASE ~vm[job[c].top].unmapped /\ UNCHANGED rw /\ Become(c, "unmap")
  <2>1. Moves(c) /\ job'[c].pc = "unmap" /\ SameFields(job[c], job'[c])
    BY <1>2, <1>4, BecomeMoves DEF Pcs, Writing, Unmapping
  <2>2. Linked(job[c].top)
    BY <1>2, <1>4, HeldNotNew
  <2>3. Work(c)'
    BY <1>1, <1>2, <2>1, <2>2 DEF Work, Linked, SameFields, Stopped, Below
  <2> QED
    BY <1>1, <1>4, <2>1, <2>3, WorkerStays DEF Unmapping
<1> QED
  BY <1>3, <1>4 DEF UnmapFirst

LEMMA BelowChild ==
  ASSUME NEW v \in Vmars, NEW w \in Vmars, NEW t, Below(v, t), Linked(w), vm[w].parent = v
  PROVE  Below(w, t)
BY DEF Below, UpClosed

LEMMA UnmapObj ==
  ASSUME ObjInv, NEW c \in Cpus, Unmap(c)
  PROVE  ObjInv'
<1> DEFINE v == job[c].v
<1>1. /\ job[c].pc = "unmap" /\ job[c].pc \in Pinning \cup Unmapping
      /\ UNCHANGED <<vm, alive, held, rw>>
  BY DEF Unmap, Unmapping
<1>2. /\ ObjTypeOK /\ job[c] \in Call /\ job[c].par = None /\ v \in Pool /\ Linked(v)
      /\ Below(v, job[c].top)
  BY <1>1, WorkerFacts DEF Work, Pinning
<1>3. CASE Fail(c) \/ Stop(c)
  BY <1>1, <1>2, <1>3, WorkerStops DEF Fail, Stop, Stopped
<1>4. ASSUME NEW w \in Children(v), Goto(c, [job[c] EXCEPT !.v = w])
      PROVE  ObjInv'
  <2>1. PICK new : new = [job[c] EXCEPT !.v = w]
    OBVIOUS
  <2>2. w \in Pool /\ Linked(w) /\ vm[w].parent = v
    BY <1>2, VmarAssumption DEF Children, Linked
  <2>3. new \in Call
    BY <1>2, <2>1, <2>2 DEF Call
  <2>4. new.v = w /\ new.pc = "unmap" /\ new.top = job[c].top /\ new.par = None /\ new.borrow = job[c].borrow
    BY <1>1, <1>2, <2>1 DEF Call
  <2>5. Below(w, job[c].top)
    BY <1>2, <2>2, BelowChild DEF Vmars
  <2> QED
    BY <1>1, <1>4, <2>1, <2>2, <2>3, <2>4, <2>5, WorkerGoes
<1>5. ASSUME Become(c, "erase"), Children(v) = {}
      PROVE  ObjInv'
  <2>1. Moves(c) /\ job'[c].pc = "erase" /\ SameFields(job[c], job'[c])
    BY <1>2, <1>5, BecomeMoves DEF Pcs, Writing, Unmapping
  <2>2. Work(c)'
    BY <1>1, <1>2, <1>5, <2>1 DEF Work, Linked, SameFields, Stopped, Below, UpClosed, Children
  <2> QED
    BY <1>1, <2>1, <2>2, WorkerStays DEF Unmapping
<1>6. ASSUME Become(c, "free"), vm[v].kind = "mapping"
      PROVE  ObjInv'
  <2>1. Moves(c) /\ job'[c].pc = "free" /\ SameFields(job[c], job'[c])
    BY <1>2, <1>6, BecomeMoves DEF Pcs, Writing, Unmapping
  <2>2. Work(c)'
    BY <1>1, <1>2, <1>6, <2>1 DEF Work, Linked, SameFields, Stopped, Below, UpClosed
  <2> QED
    BY <1>1, <2>1, <2>2, WorkerStays DEF Unmapping
<1> QED
  BY <1>3, <1>4, <1>5, <1>6 DEF Unmap

(* A mapping has no children. *)
LEMMA UnmapFreeObj ==
  ASSUME ObjInv, NEW c \in Cpus, UnmapFree(c)
  PROVE  ObjInv'
<1> DEFINE v == job[c].v
<1>1. /\ job[c].pc = "free" /\ job[c].pc \in Pinning \cup Unmapping
      /\ UNCHANGED <<vm, alive, held, rw>> /\ Become(c, "erase")
  BY DEF UnmapFree, Unmapping
<1>2. /\ ObjTypeOK /\ v \in Pool /\ Linked(v) /\ Below(v, job[c].top) /\ vm[v].kind = "mapping"
  BY <1>1, WorkerFacts DEF Work, Pinning
<1>3. Children(v) = {}
  BY <1>2, VmarAssumption DEF Children, ObjInv, TreeAlive, LinkedAt, Linked
<1>4. Moves(c) /\ job'[c].pc = "erase" /\ SameFields(job[c], job'[c])
  BY <1>1, <1>2, BecomeMoves DEF Pcs, Writing, Unmapping
<1>5. Work(c)'
  BY <1>1, <1>2, <1>3, <1>4 DEF Work, Linked, SameFields, Stopped, Below, UpClosed, Children
<1> QED
  BY <1>1, <1>4, <1>5, WorkerStays DEF Unmapping

-----------------------------------------------------------------------------
(* Everything that can be reached is alive. *)

LEMMA CallsAlive ==
  ASSUME ObjInv, NEW c \in Cpus
  PROVE  /\ job[c].v \in alive \cup {None} /\ job[c].top \in alive \cup {None}
         /\ job[c].par \in alive \cup {None}
<1>1. Shape(job[c]) /\ job[c].borrow \subseteq alive /\ Root \in alive /\ job[c] \in Call
  BY DEF ObjInv, ObjTypeOK, ShapeOK, TreeAlive
<1>2. job[c].top \in alive \cup {None} /\ job[c].par \in alive \cup {None}
  BY <1>1 DEF Shape
<1>3. CASE job[c].par # None
  BY <1>2, <1>3 DEF ObjInv, MakingOK, MakingAt
<1>4. CASE job[c].par = None /\ job[c].top = None /\ job[c].v # None
  <2>1. job[c].v \in Pool
    BY <1>1, <1>4 DEF Call
  <2>2. CASE job[c].borrow = {}
    BY <1>2, <1>4, <2>1, <2>2 DEF OwnsRef, ObjInv, TreeAlive
  <2>3. CASE job[c].borrow # {}
    BY <1>1, <1>2, <1>4, <2>3 DEF Shape
  <2> QED
    BY <2>2, <2>3
<1>5. CASE job[c].par = None /\ job[c].top # None
  <2>1. job[c].v \in Pool /\ job[c].borrow = {job[c].top}
    BY <1>1, <1>5 DEF Shape
  <2>2. job[c].v = job[c].top \/ job[c].pc \in Pinning \cup Unmapping \cup Stopped
    <3>1. job[c].pc \notin Making /\ job[c].pc \notin Faulting /\ job[c].pc # "idle"
      BY <1>1, <1>5, <2>1, IdleFields DEF Shape
    <3>2. job[c].pc \in Populating => job[c].v = job[c].top
      BY <1>1, <2>1 DEF Shape
    <3>3. job[c].pc \in {"idle"} \cup Writing \cup Populating \cup Faulting \cup Stopped
      BY <1>1 DEF Call
    <3> QED
      BY <3>1, <3>2, <3>3 DEF Writing
  <2>3. job[c].v = job[c].top \/ Linked(job[c].v)
    BY <1>5, <2>2 DEF ObjInv, WorkOK, Work, Unmapping
  <2> QED
    BY <1>2, <2>1, <2>3 DEF ObjInv, TreeAlive, LinkedAt
<1> QED
  BY <1>2, <1>3, <1>4, <1>5

LEMMA ObjInvSafe == ObjInv => NoUseAfterFree /\ RefCountExact
<1> SUFFICES ASSUME ObjInv PROVE NoUseAfterFree
  BY DEF ObjInv
<1>1. \A c \in Cpus : {job[c].v, job[c].top, job[c].par} \ {None} \subseteq alive
  BY CallsAlive
<1>2. \A v \in Pool : Linked(v) => v \in alive /\ vm[v].parent \in alive
  BY DEF ObjInv, TreeAlive, LinkedAt, Linked, Vmars
<1> QED
  BY <1>1, <1>2 DEF NoUseAfterFree, ObjInv, TreeAlive

-----------------------------------------------------------------------------
(* Steps that make, link, count or free an object *)

Owners(v) == {c \in Cpus : OwnsRef(c, v)}
Refs(v) == (IF Linked(v) THEN 1 ELSE 0) + (IF v \in held THEN 1 ELSE 0) + Cardinality(Owners(v))
RefAt(v) == vm[v].ref = IF IsNew(v) THEN 2 ELSE Refs(v)

LEMMA RefsExact == RefCountExact <=> \A v \in alive \ {Root} : RefAt(v)
BY DEF RefCountExact, RefAt, Refs, Owners, IsNew

LEMMA OwnersCounted ==
  ASSUME NEW v
  PROVE  /\ IsFiniteSet(Owners(v)) /\ Cardinality(Owners(v)) \in Nat
         /\ Cardinality(Owners(v)) = 0 => Owners(v) = {}
<1>1. IsFiniteSet(Owners(v))
  BY VmarAssumption, FS_Subset DEF Owners
<1> QED
  BY <1>1, FS_CardinalityType, FS_EmptySet

(* While a core has the lock exclusively, nobody else has work under it. *)
LEMMA WorkersGone ==
  ASSUME ObjInv, NEW c \in Cpus, Moves(c), job[c].pc \in Writing
  PROVE  \A d \in Cpus \ {c} : Work(d)'
<1> SUFFICES ASSUME NEW d \in Cpus \ {c} PROVE Work(d)'
  OBVIOUS
<1>1. job'[d] = job[d] /\ Work(d)
  BY DEF Moves, ObjInv, WorkOK
<1>2. job[d].pc \notin Writing /\ ~NoWriter
  BY DEF ObjInv, LockOK, NoWriter
<1>3. ~(job[d].pc \in Stopped /\ job[d].top # None /\ job[d].v # job[d].top)
  BY <1>1, <1>2 DEF Work
<1> QED
  BY <1>1, <1>2, <1>3 DEF Work, Writing, Making, Pinning, Unmapping

(* A vmar that is not alive is nobody's parent, and no call has it. *)
LEMMA DeadUnknown ==
  ASSUME ObjInv, NEW v \in Pool, v \notin alive
  PROVE  /\ ~Linked(v) /\ v \notin held /\ ~IsNew(v)
         /\ \A w \in Pool : Linked(w) => vm[w].parent # v
         /\ \A d \in Cpus : job[d].v # v /\ job[d].par # v /\ job[d].top # v
<1>1. v # None /\ v # Root
  BY VmarAssumption
<1>2. ~Linked(v) /\ v \notin held
  BY DEF ObjInv, TreeAlive, LinkedAt
<1>3. \A d \in Cpus : job[d].v # v /\ job[d].par # v /\ job[d].top # v
  BY <1>1, CallsAlive
<1>4. \A w \in Pool : Linked(w) => vm[w].parent # v
  BY <1>1, <1>2 DEF ObjInv, TreeAlive, LinkedAt, Linked
<1> QED
  BY <1>2, <1>3, <1>4 DEF IsNew

LEMMA CreateObjects ==
  ASSUME ObjInv, NEW c \in Cpus, job[c].pc = "idle", NEW kind \in {"region", "mapping"},
         NEW par \in Vmars, par = Root \/ par \in held, vm[par].kind = "region",
         NEW v \in Pool, v \notin alive, alive' = alive \cup {v}, held' = held,
         vm' = [vm EXCEPT ![v] = Blank(kind)], Moves(c),
         job'[c].v = v, job'[c].par = par
  PROVE  MakingOK' /\ TreeAlive' /\ RefCountExact' /\ SameTree /\ vm' \in [Vmars -> Object]
<1>1. /\ ObjTypeOK /\ MakingOK /\ TreeAlive /\ RefCountExact /\ job[c] = Idle /\ v \in Vmars
      /\ v # Root /\ v # None /\ par # v /\ par # None /\ par \in alive
  BY VmarAssumption DEF ObjInv, ShapeOK, Shape, Vmars, TreeAlive
<1>2. /\ ~Linked(v) /\ v \notin held /\ ~IsNew(v)
      /\ \A w \in Pool : Linked(w) => vm[w].parent # v
      /\ \A d \in Cpus : job[d].v # v /\ job[d].par # v
  BY DeadUnknown
<1>3. /\ vm' \in [Vmars -> Object] /\ \A w \in Vmars \ {v} : vm'[w] = vm[w]
      /\ vm'[v] = Blank(kind)
  BY <1>1, BlankFields DEF ObjTypeOK
<1>4. SameTree
  BY <1>2, <1>3, BlankFields DEF SameTree, Linked
<1>5. \A w \in Vmars : Linked(w)' <=> Linked(w)
  BY <1>4 DEF SameTree, Linked
<1>6. \A w \in Pool \ {v} : (IsNew(w)' <=> IsNew(w)) /\ Owners(w)' = Owners(w)
  <2> SUFFICES ASSUME NEW w \in Pool \ {v}
               PROVE  (IsNew(w)' <=> IsNew(w)) /\ Owners(w)' = Owners(w)
    OBVIOUS
  <2>1. w # None
    BY VmarAssumption
  <2>2. \A d \in Cpus : OwnsRef(d, w)' <=> OwnsRef(d, w)
    BY <1>1, <2>1, IdleFields DEF OwnsRef, Moves
  <2> QED
    BY <1>1, <2>1, <2>2, IdleFields DEF IsNew, Owners, Moves
<1>7. IsNew(v)'
  BY <1>1 DEF IsNew
<1>8. MakingOK'
  <2> SUFFICES ASSUME NEW d \in Cpus, job'[d].par # None PROVE MakingAt(d)'
    BY DEF MakingOK
  <2>1. CASE d = c
    BY <1>1, <1>2, <1>3, <2>1, BlankFields DEF MakingAt, Moves
  <2>2. CASE d # c
    <3>1. job'[d] = job[d] /\ MakingAt(d)
      BY <1>1, <2>2 DEF Moves, MakingOK
    <3>2. job[d].v # v /\ job[d].v \in Vmars /\ job[d].par \in Vmars \ {v}
      BY <1>1, <1>2, <3>1 DEF MakingAt, ObjTypeOK, Call
    <3>3. \A e \in Cpus : job'[e].v = job[d].v => e = d
      BY <3>1, <3>2 DEF MakingAt, Moves
    <3> QED
      BY <1>3, <3>1, <3>2, <3>3 DEF MakingAt
  <2> QED
    BY <2>1, <2>2
<1>9. TreeAlive'
  <2>1. \A w \in Pool : Linked(w)' => LinkedAt(w)'
    BY <1>1, <1>2, <1>3, <1>5 DEF TreeAlive, LinkedAt, Vmars, Linked
  <2>2. \A w \in alive' \ {Root} : Linked(w)' \/ vm'[w].unmapped \/ IsNew(w)'
    BY <1>1, <1>3, <1>5, <1>6, <1>7 DEF TreeAlive, ObjTypeOK, Vmars
  <2>3. \A d \in Cpus, w \in Pool : OwnsRef(d, w)' => w \in alive'
    BY <1>1, <1>6 DEF TreeAlive, Owners
  <2>4. /\ Root \in alive' /\ ~Linked(Root)' /\ vm'[Root].kind = "region" /\ ~vm'[Root].unmapped
        /\ held' \subseteq alive'
    BY <1>1, <1>3, <1>5 DEF TreeAlive, Vmars
  <2> QED
    BY <2>1, <2>2, <2>3, <2>4 DEF TreeAlive
<1>10. RefCountExact'
  <2>1. RefAt(v)'
    BY <1>3, <1>7, BlankFields DEF RefAt
  <2>2. \A w \in alive \ {Root} : RefAt(w)'
    <3> SUFFICES ASSUME NEW w \in alive \ {Root} PROVE RefAt(w)'
      OBVIOUS
    <3>1. w \in Pool \ {v} /\ w \in Vmars \ {v} /\ RefAt(w)
      BY <1>1, RefsExact DEF ObjTypeOK, Vmars
    <3> QED
      BY <1>3, <1>5, <1>6, <3>1 DEF RefAt, Refs
  <2>3. \A w \in alive' \ {Root} : RefAt(w)'
    BY <2>1, <2>2
  <2> QED
    BY <2>3 DEF RefCountExact, RefAt, Refs, Owners, IsNew
<1> QED
  BY <1>3, <1>4, <1>8, <1>9, <1>10

LEMMA CreateObj ==
  ASSUME ObjInv, NEW c \in Cpus, NEW kind \in {"region", "mapping"}, NEW par \in Vmars,
         NEW n \in Nat, Create(c, kind, par, n)
  PROVE  ObjInv'
<1>1. PICK v \in Pool \ alive :
        /\ alive' = alive \cup {v}
        /\ vm' = [vm EXCEPT ![v] = Blank(kind)]
        /\ Exclusive(c, [Idle EXCEPT !.pc = "place", !.v = v, !.par = par, !.n = n,
                                     !.borrow = {par} \ {Root}])
  BY DEF Create
<1>2. PICK new : new = [Idle EXCEPT !.pc = "place", !.v = v, !.par = par, !.n = n,
                                    !.borrow = {par} \ {Root}]
  OBVIOUS
<1>3. /\ ObjTypeOK /\ LockOK /\ job[c].pc = "idle" /\ (par = Root \/ par \in held)
      /\ vm[par].kind = "region" /\ held' = held /\ par # None /\ par \in Pool \cup {Root}
  BY VmarAssumption DEF Create, ObjInv, Vmars
<1>4. new \in Call
  BY <1>2, <1>3, IdleFields DEF Call, Writing, Making
<1>5. /\ new.pc = "place" /\ new.v = v /\ new.par = par /\ new.top = None
      /\ new.borrow = {par} \ {Root}
  BY <1>2, <1>3, IdleFields DEF Call
<1>6. PICK stop : stop = [new EXCEPT !.pc = "halted"]
  OBVIOUS
<1>7. /\ stop \in Call /\ stop.pc = "halted" /\ stop.v = v /\ stop.par = par /\ stop.top = None
      /\ stop.borrow = {par} \ {Root}
  BY <1>4, <1>5, <1>6 DEF Call, Stopped
<1>8. \/ rw = 0 /\ rw' = WRITER /\ Goto(c, new)
      \/ rw' = rw /\ Goto(c, stop)
  BY <1>1, <1>2, <1>6 DEF Exclusive
<1>9. PICK k \in {new, stop} : Goto(c, k) /\ (k = new => rw = 0 /\ rw' = WRITER) /\ (k = stop => rw' = rw)
  BY <1>5, <1>7, <1>8
<1>10. Moves(c) /\ job'[c] = k
  BY <1>3, <1>4, <1>7, <1>9, GotoMoves
<1>11. LockOK' /\ StuckKept /\ rw' \in Nat
  <2>1. CASE k = new
    BY <1>3, <1>5, <1>9, <1>10, <2>1, LockTaken DEF Writing, Reading, Making, Pinning, Unmapping, WRITER
  <2>2. CASE k = stop
    BY <1>3, <1>7, <1>9, <1>10, <2>2, QuietLock DEF Writing, Reading, Making, Pinning, Unmapping
  <2> QED
    BY <2>1, <2>2
<1>12. job'[c].v = v /\ job'[c].par = par /\ v \in Pool /\ v \notin alive
  BY <1>5, <1>7, <1>10
<1>13. MakingOK' /\ TreeAlive' /\ RefCountExact' /\ SameTree /\ vm' \in [Vmars -> Object]
  BY <1>1, <1>3, <1>10, <1>12, CreateObjects
<1>14. Shape(k) /\ k.borrow \subseteq held'
  BY <1>3, <1>5, <1>7 DEF Shape, Making, Populating, Faulting, Pinning, Unmapping
<1>15. ShapeOK'
  BY <1>3, <1>10, <1>14, ShapeMoves DEF ObjInv, ShapeOK
<1>16. Work(c)'
  BY <1>5, <1>7, <1>10, NoWork DEF Stopped
<1>17. WorkOK'
  BY <1>10, <1>11, <1>13, <1>16, WorkOthers DEF ObjInv, WorkOK
<1>18. ObjTypeOK'
  BY <1>1, <1>3, <1>10, <1>11, <1>13 DEF ObjTypeOK, Moves, Vmars
<1> QED
  BY <1>11, <1>13, <1>15, <1>17, <1>18 DEF ObjInv

LEMMA MakerFacts ==
  ASSUME ObjInv, NEW c \in Cpus, job[c].pc \in Making
  PROVE  /\ ObjTypeOK /\ LockOK /\ job[c] \in Call /\ job[c].v \in Pool /\ job[c].v \in Vmars
         /\ job[c].v \notin {Root, None} /\ job[c].par \in Vmars /\ job[c].par # job[c].v
         /\ job[c].par # None /\ MakingAt(c) /\ IsNew(job[c].v) /\ Shape(job[c])
         /\ job[c].pc \in Writing /\ rw = WRITER
         /\ job[c].par = Root \/ job[c].par \in held
         /\ \A d \in Cpus \ {c} : job[d].v # job[c].v /\ job[d].par # job[c].v
         /\ \A w \in Pool : Linked(w) => vm[w].parent # job[c].v
<1>1. Shape(job[c]) /\ job[c].borrow \subseteq held /\ job[c] \in Call
  BY DEF ObjInv, ObjTypeOK, ShapeOK
<1>2. job[c].par # None /\ job[c].v \in Pool /\ job[c].borrow = {job[c].par} \ {Root}
  BY <1>1 DEF Shape
<1>3. MakingAt(c)
  BY <1>2 DEF ObjInv, MakingOK
<1>4. \A d \in Cpus : job[d].par # job[c].v
  <2> SUFFICES ASSUME NEW d \in Cpus, job[d].par = job[c].v PROVE FALSE
    OBVIOUS
  <2>1. job[d].par # None /\ job[d].par # Root
    BY <1>2, VmarAssumption
  <2>2. job[d].par \in held
    BY <2>1 DEF ObjInv, ShapeOK, Shape
  <2> QED
    BY <1>3, <2>2 DEF MakingAt
<1>5. \A w \in Pool : Linked(w) => vm[w].parent # job[c].v
  BY <1>2, <1>3, VmarAssumption DEF MakingAt, ObjInv, TreeAlive, LinkedAt, Linked
<1>6. job[c].pc \in Writing /\ rw = WRITER
  BY DEF Writing, ObjInv, LockOK, NoWriter
<1> QED
  BY <1>1, <1>2, <1>3, <1>4, <1>5, <1>6, VmarAssumption DEF ObjInv, Call, Vmars, MakingAt, IsNew

(* The references of others than the vmar that is being made do not change *)
(* when its call returns.                                                  *)
LEMMA MakerReturns ==
  ASSUME ObjInv, NEW c \in Cpus, job[c].pc \in Making, Moves(c), job'[c] = Idle,
         NEW v, v = job[c].v
  PROVE  /\ \A w \in Pool \ {v} : (IsNew(w)' <=> IsNew(w)) /\ Owners(w)' = Owners(w)
         /\ \A d \in Cpus, w \in Pool : OwnsRef(d, w)' <=> OwnsRef(d, w)
         /\ ~IsNew(v)' /\ Owners(v)' = {}
<1>2. \A w \in Pool : w # None
  BY VmarAssumption
<1>3. \A d \in Cpus, w \in Pool : OwnsRef(d, w)' <=> OwnsRef(d, w)
  BY <1>2, IdleFields, MakerFacts DEF OwnsRef, Moves
<1>4. \A w \in Pool \ {v} : (IsNew(w)' <=> IsNew(w)) /\ Owners(w)' = Owners(w)
  <2> SUFFICES ASSUME NEW w \in Pool \ {v}
               PROVE  (IsNew(w)' <=> IsNew(w)) /\ Owners(w)' = Owners(w)
    OBVIOUS
  <2>1. Owners(w)' = Owners(w)
    BY <1>3 DEF Owners
  <2>2. IsNew(w)' <=> IsNew(w)
    BY <1>2, IdleFields DEF IsNew, Moves
  <2> QED
    BY <2>1, <2>2
<1>5. \A d \in Cpus : job'[d].v # v
  BY IdleFields, MakerFacts DEF Moves
<1>6. ~IsNew(v)' /\ Owners(v)' = {}
  BY <1>5 DEF IsNew, Owners, OwnsRef
<1> QED
  BY <1>3, <1>4, <1>6

LEMMA AbandonObj ==
  ASSUME ObjInv, NEW c \in Cpus, job[c].pc \in Making, Abandon(c), held' = held
  PROVE  ObjInv' /\ SameTree
<1>1. PICK v : v = job[c].v
  OBVIOUS
<1>2. /\ rw' = 0 /\ alive' = alive \ {v} /\ vm' = [vm EXCEPT ![v] = Freed] /\ Goto(c, Idle)
  BY <1>1 DEF Abandon
<1>3. /\ ObjTypeOK /\ LockOK /\ v \in Pool /\ v \in Vmars /\ v \notin {Root, None}
      /\ vm[v].parent = None /\ v \notin held /\ job[c].pc \in Writing
      /\ \A d \in Cpus \ {c} : job[d].v # v /\ job[d].par # v
      /\ \A w \in Pool : Linked(w) => vm[w].parent # v
  BY <1>1, MakerFacts DEF MakingAt
<1>4. Moves(c) /\ job'[c] = Idle
  BY <1>2, <1>3, GotoMoves, IdleFields
<1>5. LockOK' /\ StuckKept /\ rw' \in Nat
  BY <1>2, <1>3, <1>4, LockReleased, IdleFields DEF Writing, Reading, Making, Pinning, Unmapping
<1>6. /\ vm' \in [Vmars -> Object] /\ \A w \in Vmars \ {v} : vm'[w] = vm[w]
      /\ vm'[v] = Freed
  BY <1>2, <1>3, FreedFields DEF ObjTypeOK
<1>7. SameTree
  BY <1>3, <1>6, FreedFields DEF SameTree, Linked
<1>8. \A w \in Vmars : Linked(w)' <=> Linked(w)
  BY <1>7 DEF SameTree, Linked
<1>9. /\ \A w \in Pool \ {v} : (IsNew(w)' <=> IsNew(w)) /\ Owners(w)' = Owners(w)
      /\ \A d \in Cpus, w \in Pool : OwnsRef(d, w)' <=> OwnsRef(d, w)
      /\ Owners(v)' = {}
  BY <1>1, <1>4, MakerReturns
<1>10. MakingOK'
  <2> SUFFICES ASSUME NEW d \in Cpus, job'[d].par # None PROVE MakingAt(d)'
    BY DEF MakingOK
  <2>1. d # c /\ job'[d] = job[d] /\ MakingAt(d)
    BY <1>4, IdleFields DEF Moves, ObjInv, MakingOK
  <2>2. job[d].v # v /\ job[d].v \in Vmars /\ job[d].par \in Vmars \ {v} /\ job[d].v # None
    BY <1>3, <2>1, VmarAssumption DEF MakingAt, ObjTypeOK, Call, Vmars
  <2>3. \A e \in Cpus : job'[e].v = job[d].v => e = d
    BY <1>4, <2>1, <2>2, IdleFields DEF MakingAt, Moves
  <2> QED
    BY <1>2, <1>6, <2>1, <2>2, <2>3 DEF MakingAt
<1>11. TreeAlive'
  <2>1. \A w \in Pool : Linked(w)' => LinkedAt(w)'
    <3> SUFFICES ASSUME NEW w \in Pool, Linked(w)' PROVE LinkedAt(w)'
      OBVIOUS
    <3>1. Linked(w) /\ LinkedAt(w) /\ w # v /\ w \in Vmars
      BY <1>3, <1>8 DEF ObjInv, TreeAlive, Vmars, Linked
    <3>2. vm[w].parent \in Vmars \ {v}
      BY <1>3, <3>1 DEF LinkedAt
    <3> QED
      BY <1>2, <1>6, <3>1, <3>2 DEF LinkedAt
  <2>2. \A w \in alive' \ {Root} : Linked(w)' \/ vm'[w].unmapped \/ IsNew(w)'
    BY <1>2, <1>3, <1>6, <1>8, <1>9 DEF ObjInv, TreeAlive, ObjTypeOK, Vmars
  <2>3. \A d \in Cpus, w \in Pool : OwnsRef(d, w)' => w \in alive'
    BY <1>2, <1>9 DEF ObjInv, TreeAlive, Owners
  <2>4. /\ Root \in alive' /\ ~Linked(Root)' /\ vm'[Root].kind = "region" /\ ~vm'[Root].unmapped
        /\ held' \subseteq alive'
    BY <1>2, <1>3, <1>6, <1>8 DEF ObjInv, TreeAlive, Vmars
  <2> QED
    BY <2>1, <2>2, <2>3, <2>4 DEF TreeAlive
<1>12. RefCountExact'
  <2>1. \A w \in alive' \ {Root} : RefAt(w)'
    <3> SUFFICES ASSUME NEW w \in alive' \ {Root} PROVE RefAt(w)'
      OBVIOUS
    <3>1. w \in Pool \ {v} /\ w \in Vmars \ {v} /\ RefAt(w)
      BY <1>2, RefsExact DEF ObjInv, ObjTypeOK, Vmars
    <3> QED
      BY <1>6, <1>8, <1>9, <3>1 DEF RefAt, Refs
  <2> QED
    BY <2>1 DEF RefCountExact, RefAt, Refs, Owners, IsNew
<1>13. ShapeOK'
  <2>1. Shape(Idle) /\ Idle.borrow \subseteq held
    BY IdleFields DEF Shape, Making, Populating, Faulting, Pinning, Unmapping
  <2> QED
    BY <1>4, <2>1, ShapeMoves DEF ObjInv, ShapeOK
<1>14. WorkOK'
  BY <1>3, <1>4, IdleFields, NoWork, WorkersGone DEF WorkOK
<1>15. ObjTypeOK'
  BY <1>2, <1>3, <1>4, <1>5, <1>6 DEF ObjTypeOK, Moves
<1> QED
  BY <1>5, <1>7, <1>10, <1>11, <1>12, <1>13, <1>14, <1>15 DEF ObjInv

LEMMA LinkObj ==
  ASSUME ObjInv, NEW c \in Cpus, job[c].pc \in Making, NEW range \in SUBSET VPages,
         job[c].par = Root \/ Linked(job[c].par), Link(c, range), alive' = alive
  PROVE  ObjInv'
<1>1. PICK v : v = job[c].v
  OBVIOUS
<1>2. PICK par : par = job[c].par
  OBVIOUS
<1>3. /\ vm' = [vm EXCEPT ![v].parent = par, ![v].range = range] /\ held' = held \cup {v}
      /\ rw' = 0 /\ Goto(c, Idle)
  BY <1>1, <1>2 DEF Link
<1>4. /\ ObjTypeOK /\ LockOK /\ v \in Pool /\ v \in Vmars /\ v \notin {Root, None}
      /\ v \in alive /\ vm[v].parent = None /\ vm[v].ref = 2 /\ ~vm[v].unmapped
      /\ v \notin held /\ job[c].pc \in Writing
      /\ par \in Vmars /\ par # v /\ par # None /\ vm[par].kind = "region"
      /\ par = Root \/ vm[par].parent # None
      /\ \A d \in Cpus \ {c} : job[d].v # v /\ job[d].par # v
      /\ \A w \in Pool : Linked(w) => vm[w].parent # v
  BY <1>1, <1>2, MakerFacts DEF MakingAt, Linked
<1>5. Moves(c) /\ job'[c] = Idle
  BY <1>3, <1>4, GotoMoves, IdleFields
<1>6. LockOK' /\ StuckKept /\ rw' \in Nat
  BY <1>3, <1>4, <1>5, LockReleased, IdleFields DEF Writing, Reading, Making, Pinning, Unmapping
<1>7. /\ vm' \in [Vmars -> Object] /\ \A w \in Vmars \ {v} : vm'[w] = vm[w]
      /\ vm'[v].parent = par /\ vm'[v].ref = 2 /\ ~vm'[v].unmapped
  <2>0. vm[v] \in Object
    BY <1>4 DEF ObjTypeOK
  <2>1. [vm[v] EXCEPT !.parent = par, !.range = range] \in Object
    BY <1>4, <2>0 DEF Object
  <2>2. vm' = [vm EXCEPT ![v] = [vm[v] EXCEPT !.parent = par, !.range = range]]
    BY <1>3, <1>4 DEF ObjTypeOK, Object
  <2> QED
    BY <1>4, <2>0, <2>1, <2>2 DEF ObjTypeOK, Object
<1>8. /\ \A w \in Vmars \ {v} : Linked(w)' <=> Linked(w)
      /\ Linked(v)'
  BY <1>4, <1>7 DEF Linked
<1>9. /\ \A w \in Pool \ {v} : (IsNew(w)' <=> IsNew(w)) /\ Owners(w)' = Owners(w)
      /\ \A d \in Cpus, w \in Pool : OwnsRef(d, w)' <=> OwnsRef(d, w)
      /\ ~IsNew(v)' /\ Owners(v)' = {}
  BY <1>1, <1>5, MakerReturns
<1>10. MakingOK'
  <2> SUFFICES ASSUME NEW d \in Cpus, job'[d].par # None PROVE MakingAt(d)'
    BY DEF MakingOK
  <2>1. d # c /\ job'[d] = job[d] /\ MakingAt(d)
    BY <1>5, IdleFields DEF Moves, ObjInv, MakingOK
  <2>2. job[d].v # v /\ job[d].v \in Vmars /\ job[d].par \in Vmars \ {v} /\ job[d].v # None
    BY <1>4, <2>1, VmarAssumption DEF MakingAt, ObjTypeOK, Call, Vmars
  <2>3. \A e \in Cpus : job'[e].v = job[d].v => e = d
    BY <1>5, <2>1, <2>2, IdleFields DEF MakingAt, Moves
  <2> QED
    BY <1>3, <1>7, <2>1, <2>2, <2>3 DEF MakingAt
<1>11. TreeAlive'
  <2>1. \A w \in Pool : Linked(w)' => LinkedAt(w)'
    <3> SUFFICES ASSUME NEW w \in Pool, Linked(w)' PROVE LinkedAt(w)'
      OBVIOUS
    <3>1. CASE w = v
      BY <1>4, <1>7, <3>1 DEF LinkedAt
    <3>2. CASE w # v
      <4>1. Linked(w) /\ LinkedAt(w) /\ w \in Vmars
        BY <1>8, <3>2 DEF ObjInv, TreeAlive, Vmars
      <4>2. vm[w].parent \in Vmars \ {v}
        BY <1>4, <4>1 DEF LinkedAt
      <4> QED
        BY <1>7, <3>2, <4>1, <4>2 DEF LinkedAt
    <3> QED
      BY <3>1, <3>2
  <2>2. \A w \in alive' \ {Root} : Linked(w)' \/ vm'[w].unmapped \/ IsNew(w)'
    BY <1>4, <1>7, <1>8, <1>9 DEF ObjInv, TreeAlive, ObjTypeOK, Vmars
  <2>3. \A d \in Cpus, w \in Pool : OwnsRef(d, w)' => w \in alive'
    BY <1>9 DEF ObjInv, TreeAlive
  <2>4. /\ Root \in alive' /\ ~Linked(Root)' /\ vm'[Root].kind = "region" /\ ~vm'[Root].unmapped
        /\ held' \subseteq alive'
    BY <1>3, <1>4, <1>7, <1>8 DEF ObjInv, TreeAlive, Vmars
  <2> QED
    BY <2>1, <2>2, <2>3, <2>4 DEF TreeAlive
<1>12. RefCountExact'
  <2>1. RefAt(v)'
    <3>1. Cardinality(Owners(v)') = 0
      BY <1>9, FS_EmptySet
    <3> QED
      BY <1>3, <1>7, <1>8, <1>9, <3>1 DEF RefAt, Refs
  <2>2. \A w \in alive' \ {Root} : RefAt(w)'
    <3> SUFFICES ASSUME NEW w \in alive' \ {Root}, w # v PROVE RefAt(w)'
      BY <2>1
    <3>1. w \in Pool \ {v} /\ w \in Vmars \ {v} /\ RefAt(w)
      BY RefsExact DEF ObjInv, ObjTypeOK, Vmars
    <3> QED
      BY <1>3, <1>7, <1>8, <1>9, <3>1 DEF RefAt, Refs
  <2> QED
    BY <2>2 DEF RefCountExact, RefAt, Refs, Owners, IsNew
<1>13. ShapeOK'
  <2>1. Shape(Idle) /\ Idle.borrow \subseteq held'
    BY IdleFields DEF Shape, Making, Populating, Faulting, Pinning, Unmapping
  <2> QED
    BY <1>3, <1>5, <2>1, ShapeMoves DEF ObjInv, ShapeOK
<1>14. WorkOK'
  BY <1>4, <1>5, IdleFields, NoWork, WorkersGone DEF WorkOK
<1>15. ObjTypeOK'
  BY <1>3, <1>4, <1>5, <1>6, <1>7 DEF ObjTypeOK, Moves
<1> QED
  BY <1>6, <1>10, <1>11, <1>12, <1>13, <1>14, <1>15 DEF ObjInv

(* vmar_allocate and vmar_map, once they have the lock *)

LEMMA PlaceGood ==
  ASSUME ObjInv, NEW c \in Cpus, job[c].pc \in Making, NEW r \in Places(job[c].par, job[c].n)
  PROVE  /\ r \in SUBSET VPages /\ (job[c].par = Root \/ Linked(job[c].par))
         /\ r \subseteq vm[job[c].par].range /\ Cardinality(r) = job[c].n
         /\ \A w \in Children(job[c].par) : vm[w].range \cap r = {}
<1>1. ~vm[job[c].par].unmapped
  BY DEF Places
<1>2. job[c].par = Root \/ Linked(job[c].par)
  BY <1>1, MakerFacts, HeldNotNew
<1>3. r \subseteq vm[job[c].par].range \ UNION {vm[w].range : w \in Children(job[c].par)}
  BY <1>1 DEF Places
<1>4. vm[job[c].par].range \subseteq VPages
  BY MakerFacts DEF ObjTypeOK, Object
<1>5. Cardinality(r) = job[c].n
  BY <1>1 DEF Places
<1> QED
  BY <1>2, <1>3, <1>4, <1>5

LEMMA MakeObj ==
  ASSUME ObjInv, NEW c \in Cpus,
         \/ PlaceFails(c) \/ PlaceRegion(c) \/ PlaceMapping(c) \/ MapTable(c)
         \/ MapTablesFail(c) \/ MapDone(c)
  PROVE  ObjInv'
<1>1. CASE PlaceFails(c) \/ MapTablesFail(c)
  BY <1>1, AbandonObj DEF PlaceFails, MapTablesFail, Making
<1>2. CASE PlaceRegion(c)
  <2>1. job[c].pc \in Making /\ alive' = alive
    BY <1>2 DEF PlaceRegion, Making
  <2>2. PICK r \in Places(job[c].par, job[c].n) : Link(c, r)
    BY <1>2 DEF PlaceRegion
  <2> QED
    BY <2>1, <2>2, PlaceGood, LinkObj
<1>3. CASE PlaceMapping(c)
  <2>1. job[c].pc = "place" /\ job[c].pc \in Making /\ held' = held
    BY <1>3 DEF PlaceMapping, Making
  <2>2. PICK r \in Places(job[c].par, job[c].n) :
          \/ Goto(c, [job[c] EXCEPT !.pc = "tables", !.todo = r]) /\ UNCHANGED <<vm, alive, rw>>
          \/ Abandon(c)
    BY <1>3 DEF PlaceMapping
  <2>3. CASE Goto(c, [job[c] EXCEPT !.pc = "tables", !.todo = r]) /\ UNCHANGED <<vm, alive, rw>>
    <3>1. PICK k : k = [job[c] EXCEPT !.pc = "tables", !.todo = r]
      OBVIOUS
    <3>2. job[c] \in Call /\ r \in SUBSET VPages /\ (job[c].par = Root \/ Linked(job[c].par)) /\ ObjTypeOK
      BY <2>1, PlaceGood, MakerFacts
    <3>3. k \in Call
      BY <3>1, <3>2 DEF Call, Writing, Making
    <3>4. SameFields(job[c], k) /\ k.pc = "tables"
      BY <3>1, <3>2 DEF Call, SameFields
    <3>5. Moves(c) /\ job'[c] = k
      BY <2>3, <3>1, <3>2, <3>3, GotoMoves
    <3>6. LockOK' /\ StuckKept /\ rw' \in Nat
      BY <2>1, <2>3, <3>4, <3>5, QuietLock DEF Writing, Reading, Making, Pinning, Unmapping
    <3>7. SamePhase(job[c], job'[c])
      BY <2>1, <3>4, <3>5 DEF SamePhase, Making
    <3>8. Work(c)'
      BY <2>3, <3>2, <3>4, <3>5 DEF Work, Linked, Pinning, Stopped, SameFields
    <3> QED
      BY <2>1, <2>3, <3>4, <3>5, <3>6, <3>7, <3>8, QuietStep
  <2> QED
    BY <2>1, <2>2, <2>3, AbandonObj
<1>4. CASE MapTable(c)
  BY <1>4, ObjStutter DEF MapTable
<1>5. CASE MapDone(c)
  <2>1. job[c].pc = "tables" /\ job[c].pc \in Making /\ alive' = alive /\ Link(c, job[c].todo)
    BY <1>5 DEF MapDone, Making
  <2>2. job[c].todo \in SUBSET VPages
    BY <2>1, MakerFacts DEF Call
  <2>3. job[c].par = Root \/ Linked(job[c].par)
    BY <2>1 DEF ObjInv, WorkOK, Work
  <2> QED
    BY <2>1, <2>2, <2>3, LinkObj
<1> QED
  BY <1>1, <1>2, <1>3, <1>4, <1>5

(* The page fault takes a reference to the mapping it found. *)
LEMMA PageFaultObj ==
  ASSUME ObjInv, NEW c \in Cpus, NEW p \in VPages, PageFault(c, p)
  PROVE  ObjInv' /\ SameTree
<1>1. /\ job[c].pc = "idle" /\ job[c] = Idle /\ UNCHANGED <<alive, held>> /\ ObjTypeOK /\ LockOK
  BY DEF PageFault, ObjInv, ShapeOK, Shape
<1>2. CASE Stop(c) /\ UNCHANGED <<vm, rw>>
  <2>1. Moves(c) /\ job'[c].pc = "halted" /\ SameFields(job[c], job'[c])
    BY <1>1, <1>2, BecomeMoves DEF Stop, Pcs, Stopped
  <2>2. LockOK' /\ StuckKept /\ rw' \in Nat
    BY <1>2, <2>1, QuietLock DEF Writing, Reading, Making, Pinning, Unmapping
  <2>3. SamePhase(job[c], job'[c])
    BY <2>1 DEF SamePhase, Stopped
  <2>4. Work(c)'
    BY <1>1, <2>1, NoWork, IdleFields DEF Stopped, SameFields
  <2>5. SameTree
    BY <1>2 DEF SameTree
  <2> QED
    BY <1>1, <1>2, <2>1, <2>2, <2>3, <2>4, <2>5, QuietStep
<1>3. ASSUME NEW v \in MappingAt(p), rw # WRITER, rw' = rw + READER, vm' = Referenced(v),
             Goto(c, [Idle EXCEPT !.pc = "fault_mutex", !.v = v, !.todo = {p}])
      PROVE  ObjInv' /\ SameTree
  <2>1. v \in Pool /\ v \in Vmars /\ v # None /\ v # Root /\ Linked(v) /\ v \in alive
    BY VmarAssumption DEF MappingAt, Vmars, ObjInv, TreeAlive, LinkedAt
  <2>2. PICK k : k = [Idle EXCEPT !.pc = "fault_mutex", !.v = v, !.todo = {p}]
    OBVIOUS
  <2>3. k \in Call
    BY <2>1, <2>2, IdleFields DEF Call, Faulting
  <2>4. k.pc = "fault_mutex" /\ k.v = v /\ k.top = None /\ k.par = None /\ k.borrow = {}
    BY <2>2, IdleFields DEF Call
  <2>5. Moves(c) /\ job'[c] = k
    BY <1>1, <1>3, <2>2, <2>3, GotoMoves
  <2>6. LockOK' /\ StuckKept /\ rw' \in Nat
    BY <1>1, <1>3, <2>4, <2>5, LockShared
    DEF Writing, Reading, Making, Pinning, Unmapping, ObjTypeOK, READER
  <2>7. /\ vm' \in [Vmars -> Object] /\ \A w \in Vmars \ {v} : vm'[w] = vm[w]
        /\ vm'[v].ref = vm[v].ref + 1 /\ vm'[v].parent = vm[v].parent
        /\ vm'[v].kind = vm[v].kind /\ vm'[v].unmapped = vm[v].unmapped
    <3>1. vm[v] \in Object
      BY <1>1, <2>1 DEF ObjTypeOK
    <3>2. [vm[v] EXCEPT !.ref = vm[v].ref + 1] \in Object
      BY <3>1 DEF Object
    <3>3. vm' = [vm EXCEPT ![v] = [vm[v] EXCEPT !.ref = vm[v].ref + 1]]
      BY <1>3, <2>1 DEF Referenced
    <3> QED
      BY <1>1, <2>1, <3>1, <3>2, <3>3 DEF ObjTypeOK, Object
  <2>8. SameTree
    BY <2>1, <2>7 DEF SameTree
  <2>9. \A w \in Vmars : Linked(w)' <=> Linked(w)
    BY <2>8 DEF SameTree, Linked
  <2>10. /\ ~IsNew(v)
         /\ \A w \in Pool : IsNew(w)' <=> IsNew(w)
         /\ \A w \in Pool \ {v} : Owners(w)' = Owners(w)
         /\ Owners(v)' = Owners(v) \cup {c} /\ c \notin Owners(v)
    <3>1. ~IsNew(v)
      BY <2>1 DEF IsNew, ObjInv, MakingOK, MakingAt, Linked
    <3>2. \A w \in Pool : w # None
      BY VmarAssumption
    <3>3. \A w \in Pool : IsNew(w)' <=> IsNew(w)
      BY <1>1, <2>4, <2>5, <3>2, IdleFields DEF IsNew, Moves
    <3>4. \A w \in Pool, d \in Cpus \ {c} : OwnsRef(d, w)' <=> OwnsRef(d, w)
      BY <2>5 DEF OwnsRef, Moves
    <3>5. \A w \in Pool : ~OwnsRef(c, w) /\ (OwnsRef(c, w)' <=> w = v)
      BY <1>1, <2>4, <2>5, <3>2, IdleFields DEF OwnsRef
    <3>6. \A w \in Pool \ {v} : Owners(w)' = Owners(w)
      BY <3>4, <3>5 DEF Owners
    <3>7. Owners(v)' = Owners(v) \cup {c} /\ c \notin Owners(v)
      BY <2>1, <3>4, <3>5 DEF Owners
    <3> QED
      BY <3>1, <3>3, <3>6, <3>7
  <2>11. MakingOK'
    <3> SUFFICES ASSUME NEW d \in Cpus, job'[d].par # None PROVE MakingAt(d)'
      BY DEF MakingOK
    <3>1. d # c /\ job'[d] = job[d] /\ MakingAt(d)
      BY <2>4, <2>5 DEF Moves, ObjInv, MakingOK
    <3>2. job[d].v # v /\ job[d].v \in Vmars /\ job[d].par \in Vmars
      BY <1>1, <2>1, <3>1 DEF MakingAt, ObjTypeOK, Call, Linked
    <3>3. \A e \in Cpus : job'[e].v = job[d].v => e = d
      BY <2>4, <2>5, <3>1, <3>2 DEF MakingAt, Moves
    <3>4. vm'[job[d].par].kind = vm[job[d].par].kind
      BY <2>7, <3>2
    <3> QED
      BY <1>1, <2>7, <3>1, <3>2, <3>3, <3>4 DEF MakingAt
  <2>12. TreeAlive'
    <3>1. \A w \in Pool : Linked(w)' => LinkedAt(w)'
      <4> SUFFICES ASSUME NEW w \in Pool, Linked(w)' PROVE LinkedAt(w)'
        OBVIOUS
      <4>1. Linked(w) /\ LinkedAt(w) /\ w \in Vmars
        BY <2>9 DEF ObjInv, TreeAlive, Vmars
      <4> QED
        BY <1>1, <2>7, <4>1 DEF LinkedAt
    <3>2. \A w \in alive' \ {Root} : Linked(w)' \/ vm'[w].unmapped \/ IsNew(w)'
      BY <1>1, <2>7, <2>9, <2>10 DEF ObjInv, TreeAlive, ObjTypeOK, Vmars
    <3>3. \A d \in Cpus, w \in Pool : OwnsRef(d, w)' => w \in alive'
      BY <1>1, <2>1, <2>4, <2>5 DEF ObjInv, TreeAlive, OwnsRef, Moves
    <3>4. /\ Root \in alive' /\ ~Linked(Root)' /\ vm'[Root].kind = "region" /\ ~vm'[Root].unmapped
          /\ held' \subseteq alive'
      BY <1>1, <2>1, <2>7, <2>9 DEF ObjInv, TreeAlive, Vmars
    <3> QED
      BY <3>1, <3>2, <3>3, <3>4 DEF TreeAlive
  <2>13. RefCountExact'
    <3>1. RefAt(v)'
      <4>1. RefAt(v)
        BY <2>1, RefsExact DEF ObjInv
      <4>2. Cardinality(Owners(v)') = Cardinality(Owners(v)) + 1
        <5>1. IsFiniteSet(Owners(v))
          BY OwnersCounted
        <5> QED
          BY <2>10, <5>1, FS_AddElement
      <4> QED
        BY <1>1, <2>1, <2>7, <2>9, <2>10, <4>1, <4>2, OwnersCounted DEF RefAt, Refs
    <3>2. \A w \in alive' \ {Root} : RefAt(w)'
      <4> SUFFICES ASSUME NEW w \in alive' \ {Root}, w # v PROVE RefAt(w)'
        BY <3>1
      <4>1. w \in Pool \ {v} /\ w \in Vmars \ {v} /\ RefAt(w)
        BY <1>1, RefsExact DEF ObjInv, ObjTypeOK, Vmars
      <4> QED
        BY <1>1, <2>7, <2>9, <2>10, <4>1 DEF RefAt, Refs
    <3> QED
      BY <3>2 DEF RefCountExact, RefAt, Refs, Owners, IsNew
  <2>14. ShapeOK'
    <3>1. Shape(k) /\ k.borrow \subseteq held'
      BY <2>1, <2>4 DEF Shape, Making, Populating, Faulting, Pinning, Unmapping
    <3> QED
      BY <1>1, <2>5, <3>1, ShapeMoves DEF ObjInv, ShapeOK
  <2>15. Work(c)'
    BY <2>4, <2>5, NoWork DEF Faulting
  <2>16. WorkOK'
    BY <2>5, <2>6, <2>8, <2>15, WorkOthers DEF ObjInv, WorkOK
  <2>17. ObjTypeOK'
    BY <1>1, <2>5, <2>6, <2>7 DEF ObjTypeOK, Moves
  <2> QED
    BY <2>6, <2>8, <2>11, <2>12, <2>13, <2>14, <2>16, <2>17 DEF ObjInv
<1> QED
  BY <1>2, <1>3 DEF PageFault

-----------------------------------------------------------------------------
(* object_put.  f is what the step made of the fields before the put; one  *)
(* reference goes: the tree's, a handle, or that of a fault.               *)
Remaining(f, v) ==
  (IF f[v].parent # None THEN 1 ELSE 0) + (IF v \in held' THEN 1 ELSE 0) + Cardinality(Owners(v)')

LEMMA DropRef ==
  ASSUME ObjInv, NEW c \in Cpus, Moves(c), NEW v \in Pool, v \in alive, ~IsNew(v),
         NEW f \in [Vmars -> Object], \A w \in Vmars \ {v} : f[w] = vm[w],
         f[v].kind = vm[v].kind,
         f[v].parent \in {vm[v].parent, None}, f[v].parent = None => f[v].unmapped,
         f[v].parent # None => f[v].unmapped = vm[v].unmapped,
         f[v].parent = None => Children(v) = {},
         f[v].ref = Remaining(f, v) + 1,
         vm' = PutFields(f, v), alive' = PutAlive(f, v),
         held' \subseteq held, held \subseteq held' \cup {v},
         \A d \in Cpus \ {c} : job[d].borrow \subseteq held',
         job'[c].par = None, job'[c].v = None \/ ~IsNew(job'[c].v),
         \A w \in Pool \ {v} : (IsNew(w)' <=> IsNew(w)) /\ Owners(w)' = Owners(w),
         ~IsNew(v)'
  PROVE  /\ MakingOK' /\ TreeAlive' /\ RefCountExact' /\ PutAsserts(f, v)
         /\ vm' \in [Vmars -> Object] /\ alive' \subseteq Vmars
         /\ \A w \in Vmars \ {v} : vm'[w] = vm[w]
         /\ vm'[v].parent = f[v].parent
         /\ f[v].parent # None => vm'[v].kind = vm[v].kind
<1>1. /\ ObjTypeOK /\ MakingOK /\ TreeAlive /\ RefCountExact /\ ShapeOK /\ v \in Vmars
      /\ v # Root /\ v # None
  BY VmarAssumption DEF ObjInv, Vmars
<1>2. Cardinality(Owners(v)') \in Nat /\ IsFiniteSet(Owners(v)')
  <2>1. IsFiniteSet(Owners(v)')
    BY VmarAssumption, FS_Subset DEF Owners
  <2> QED
    BY <2>1, FS_CardinalityType
<1>3. /\ vm' \in [Vmars -> Object]
      /\ \A w \in Vmars \ {v} : vm'[w] = vm[w]
      /\ f[v].ref = 1 => vm'[v] = Freed
      /\ f[v].ref # 1 =>
           /\ vm'[v].ref = f[v].ref - 1 /\ vm'[v].parent = f[v].parent
           /\ vm'[v].unmapped = f[v].unmapped /\ vm'[v].kind = f[v].kind
  BY <1>1, PutEffect
<1>4. /\ f[v].ref = 1 => f[v].parent = None /\ v \notin held' /\ Owners(v)' = {}
      /\ f[v].ref >= 1
  <2>1. Cardinality(Owners(v)') = 0 => Owners(v)' = {}
    BY <1>2, FS_EmptySet
  <2> QED
    BY <1>2, <2>1 DEF Remaining
<1>5. PutAsserts(f, v)
  BY <1>4 DEF PutAsserts
<1>6. alive' = IF f[v].ref = 1 THEN alive \ {v} ELSE alive
  BY DEF PutAlive
<1>7. /\ vm'[v].parent = f[v].parent
      /\ \A w \in Vmars \ {v} : Linked(w)' <=> Linked(w)
  BY <1>1, <1>3, <1>4, FreedFields DEF Linked
<1>8. MakingOK'
  <2> SUFFICES ASSUME NEW d \in Cpus, job'[d].par # None PROVE MakingAt(d)'
    BY DEF MakingOK
  <2>1. d # c /\ job'[d] = job[d] /\ MakingAt(d) /\ IsNew(job[d].v)
    BY <1>1 DEF Moves, MakingOK, IsNew
  <2>2. job[d].v # v /\ job[d].v \in Vmars /\ job[d].v # None /\ job[d].par \in Vmars
    BY <1>1, <2>1, VmarAssumption DEF MakingAt, ObjTypeOK, Call, Vmars
  <2>3. \A e \in Cpus : job'[e].v = job[d].v => e = d
    BY <2>1, <2>2 DEF MakingAt, Moves
  <2>4. vm'[job[d].par].kind = vm[job[d].par].kind
    <3>1. CASE job[d].par = v
      <4>1. v \in held'
        BY <1>1, <2>1, <3>1 DEF ShapeOK, Shape
      <4> QED
        BY <1>3, <1>4, <3>1, <4>1
    <3>2. CASE job[d].par # v
      BY <1>3, <2>2, <3>2
    <3> QED
      BY <3>1, <3>2
  <2> QED
    BY <1>3, <1>6, <2>1, <2>2, <2>3, <2>4 DEF MakingAt
<1>9. TreeAlive'
  <2>1. \A w \in Pool : Linked(w)' => LinkedAt(w)'
    <3> SUFFICES ASSUME NEW w \in Pool, Linked(w)' PROVE LinkedAt(w)'
      OBVIOUS
    <3>0. w \in Vmars
      BY DEF Vmars
    <3>1. Linked(w) /\ LinkedAt(w)
      BY <1>1, <1>7, <3>0 DEF TreeAlive, Linked
    <3>2. vm'[w].parent = vm[w].parent /\ (w = v => f[v].parent # None)
      BY <1>3, <1>7, <3>0 DEF Linked
    <3>3. w \in alive' /\ ~vm'[w].unmapped
      BY <1>3, <1>4, <1>6, <3>0, <3>1, <3>2 DEF LinkedAt
    <3>4. CASE vm[w].parent = v
      <4>1. f[v].parent # None
        BY <3>4 DEF Children
      <4> QED
        BY <1>3, <1>4, <3>1, <3>2, <3>3, <3>4, <4>1 DEF LinkedAt
    <3>5. CASE vm[w].parent # v
      BY <1>3, <3>1, <3>2, <3>3, <3>5 DEF LinkedAt
    <3> QED
      BY <3>4, <3>5
  <2>2. \A w \in alive' \ {Root} : Linked(w)' \/ vm'[w].unmapped \/ IsNew(w)'
    <3> SUFFICES ASSUME NEW w \in alive' \ {Root} PROVE Linked(w)' \/ vm'[w].unmapped \/ IsNew(w)'
      OBVIOUS
    <3>1. w \in Pool /\ w \in Vmars /\ w \in alive
      BY <1>1, <1>6 DEF ObjTypeOK, Vmars
    <3>2. CASE w = v
      BY <1>3, <1>6, <1>7, <3>2 DEF Linked
    <3>3. CASE w # v
      BY <1>1, <1>3, <1>7, <3>1, <3>3 DEF TreeAlive
    <3> QED
      BY <3>2, <3>3
  <2>3. \A d \in Cpus, w \in Pool : OwnsRef(d, w)' => w \in alive'
    <3> SUFFICES ASSUME NEW d \in Cpus, NEW w \in Pool, OwnsRef(d, w)' PROVE w \in alive'
      OBVIOUS
    <3>1. d \in Owners(w)'
      BY DEF Owners
    <3>2. CASE w = v
      BY <1>4, <1>6, <3>1, <3>2
    <3>3. CASE w # v
      <4>1. d \in Owners(w)
        BY <3>1, <3>3
      <4> QED
        BY <1>1, <1>6, <3>3, <4>1 DEF TreeAlive, Owners
    <3> QED
      BY <3>2, <3>3
  <2>4. /\ Root \in alive' /\ ~Linked(Root)' /\ vm'[Root].kind = "region" /\ ~vm'[Root].unmapped
        /\ held' \subseteq alive'
    BY <1>1, <1>3, <1>4, <1>6, <1>7 DEF TreeAlive, Vmars
  <2> QED
    BY <2>1, <2>2, <2>3, <2>4 DEF TreeAlive
<1>10. RefCountExact'
  <2>1. v \in alive' => RefAt(v)'
    BY <1>2, <1>3, <1>6, <1>7 DEF RefAt, Refs, Remaining, Linked
  <2>2. \A w \in alive' \ {Root} : RefAt(w)'
    <3> SUFFICES ASSUME NEW w \in alive' \ {Root}, w # v PROVE RefAt(w)'
      BY <2>1
    <3>1. w \in Pool \ {v} /\ w \in Vmars \ {v} /\ RefAt(w) /\ (w \in held' <=> w \in held)
      BY <1>1, <1>6, RefsExact DEF ObjTypeOK, Vmars
    <3> QED
      BY <1>3, <1>7, <3>1 DEF RefAt, Refs
  <2> QED
    BY <2>2 DEF RefCountExact, RefAt, Refs, Owners, IsNew
<1> QED
  BY <1>1, <1>3, <1>4, <1>5, <1>6, <1>7, <1>8, <1>9, <1>10 DEF ObjTypeOK

LEMMA UnlinkedFacts ==
  ASSUME ObjInv, NEW v \in Pool, v \in alive, ~IsNew(v)
  PROVE  /\ vm[v].parent = None => vm[v].unmapped /\ Children(v) = {}
         /\ vm[v].ref = Refs(v) /\ v \in Vmars /\ v # Root /\ v # None
         /\ ObjTypeOK /\ LockOK /\ vm \in [Vmars -> Object]
<1>1. v \in Vmars /\ v # Root /\ v # None
  BY VmarAssumption DEF Vmars
<1>2. vm[v].parent = None => vm[v].unmapped
  BY <1>1 DEF ObjInv, TreeAlive, Linked
<1>3. vm[v].parent = None => Children(v) = {}
  BY <1>1 DEF ObjInv, TreeAlive, LinkedAt, Linked, Children
<1>4. vm[v].ref = Refs(v)
  BY <1>1, RefsExact DEF ObjInv, RefAt
<1> QED
  BY <1>1, <1>2, <1>3, <1>4 DEF ObjInv, ObjTypeOK

LEMMA FaultPutObj ==
  ASSUME ObjInv, NEW c \in Cpus, FaultPut(c)
  PROVE  ObjInv' /\ SameTree /\ Goto(c, Idle)
<1>1. PICK v : v = job[c].v
  OBVIOUS
<1>2. /\ job[c].pc = "fault_put" /\ UNCHANGED <<held, rw>> /\ Shape(job[c])
      /\ v \in Pool /\ job[c].par = None /\ job[c].borrow = {} /\ v # None
  BY <1>1, VmarAssumption DEF FaultPut, ObjInv, ShapeOK, Shape, Faulting
<1>3. OwnsRef(c, v) /\ c \in Owners(v) /\ v \in alive
  BY <1>1, <1>2 DEF OwnsRef, Owners, ObjInv, TreeAlive
<1>4. ~IsNew(v)
  BY <1>1, <1>2 DEF IsNew, ObjInv, MakingOK, MakingAt
<1>5. /\ vm[v].parent = None => vm[v].unmapped /\ Children(v) = {}
      /\ vm[v].ref = Refs(v) /\ v \in Vmars /\ v # Root
      /\ ObjTypeOK /\ LockOK /\ vm \in [Vmars -> Object]
  BY <1>2, <1>3, <1>4, UnlinkedFacts
<1>6. /\ IsFiniteSet(Owners(v)) /\ Cardinality(Owners(v)) \in Nat
      /\ Cardinality(Owners(v)) # 0 /\ Cardinality(Owners(v) \ {c}) = Cardinality(Owners(v)) - 1
  BY <1>3, OwnersCounted, FS_RemoveElement
<1>7. PutAsserts(vm, v)
  <2>1. vm[v].ref >= 1 /\ (vm[v].ref = 1 => vm[v].parent = None)
    BY <1>5, <1>6 DEF Refs, Linked
  <2> QED
    BY <1>5, <2>1 DEF PutAsserts
<1>8. vm' = PutFields(vm, v) /\ alive' = PutAlive(vm, v) /\ Goto(c, Idle)
  BY <1>1, <1>7 DEF FaultPut
<1>9. Moves(c) /\ job'[c] = Idle
  BY <1>5, <1>8, GotoMoves, IdleFields
<1>10. /\ \A w \in Pool \ {v} : (IsNew(w)' <=> IsNew(w)) /\ Owners(w)' = Owners(w)
       /\ ~IsNew(v)' /\ Owners(v)' = Owners(v) \ {c}
  <2>1. \A w \in Pool : w # None
    BY VmarAssumption
  <2>2. \A w \in Pool : IsNew(w)' <=> IsNew(w)
    BY <1>2, <1>9, <2>1, IdleFields DEF IsNew, Moves
  <2>3. \A w \in Pool, d \in Cpus \ {c} : OwnsRef(d, w)' <=> OwnsRef(d, w)
    BY <1>9 DEF OwnsRef, Moves
  <2>4. \A w \in Pool : ~OwnsRef(c, w)' /\ (OwnsRef(c, w) => w = v)
    BY <1>1, <1>9, <2>1, IdleFields DEF OwnsRef
  <2>5. \A w \in Pool \ {v} : Owners(w)' = Owners(w)
    BY <2>3, <2>4 DEF Owners
  <2>6. Owners(v)' = Owners(v) \ {c}
    BY <1>2, <2>3, <2>4 DEF Owners
  <2> QED
    BY <1>2, <1>4, <2>2, <2>5, <2>6
<1>11. vm[v].ref = Remaining(vm, v) + 1
  BY <1>2, <1>5, <1>6, <1>10 DEF Remaining, Refs, Linked
<1>12. /\ MakingOK' /\ TreeAlive' /\ RefCountExact'
       /\ vm' \in [Vmars -> Object] /\ alive' \subseteq Vmars
       /\ \A w \in Vmars \ {v} : vm'[w] = vm[w]
       /\ vm'[v].parent = vm[v].parent
       /\ vm[v].parent # None => vm'[v].kind = vm[v].kind
  <2>1. \A d \in Cpus \ {c} : job[d].borrow \subseteq held'
    BY <1>2 DEF ObjInv, ShapeOK
  <2>2. job'[c].par = None /\ job'[c].v = None /\ held' \subseteq held /\ held \subseteq held' \cup {v}
    BY <1>2, <1>9, IdleFields
  <2>3. \A w \in Vmars \ {v} : vm[w] = vm[w]
    OBVIOUS
  <2> QED
    BY <1>2, <1>3, <1>4, <1>5, <1>8, <1>9, <1>10, <1>11, <2>1, <2>2, DropRef
<1>13. SameTree
  BY <1>12 DEF SameTree, Linked
<1>14. LockOK' /\ StuckKept /\ rw' \in Nat
  BY <1>2, <1>9, IdleFields, QuietLock DEF Writing, Reading, Making, Pinning, Unmapping
<1>15. ShapeOK'
  <2>1. Shape(Idle) /\ Idle.borrow \subseteq held'
    BY IdleFields DEF Shape, Making, Populating, Faulting, Pinning, Unmapping
  <2> QED
    BY <1>2, <1>9, <2>1, ShapeMoves DEF ObjInv, ShapeOK
<1>16. WorkOK'
  <2>1. Work(c)'
    BY <1>9, IdleFields, NoWork
  <2> QED
    BY <2>1, <1>9, <1>13, <1>14, WorkOthers DEF ObjInv, WorkOK
<1>17. ObjTypeOK'
  BY <1>2, <1>5, <1>9, <1>12, <1>14 DEF ObjTypeOK, Moves
<1> QED
  BY <1>8, <1>12, <1>13, <1>14, <1>15, <1>16, <1>17 DEF ObjInv

LEMMA PutObj ==
  ASSUME ObjInv, NEW c \in Cpus, NEW v \in Pool, Put(c, v)
  PROVE  ObjInv' /\ SameTree /\ UNCHANGED job
<1>1. /\ job[c].pc = "idle" /\ job[c] = Idle /\ v \in held /\ held' = held \ {v}
      /\ \A d \in Cpus : v \notin job[d].borrow
      /\ UNCHANGED rw
  BY DEF Put, CanUse, ObjInv, ShapeOK, Shape
<1>2. v \in alive /\ ~IsNew(v)
  BY <1>1, HeldNotNew
<1>3. /\ vm[v].parent = None => vm[v].unmapped /\ Children(v) = {}
      /\ vm[v].ref = Refs(v) /\ v \in Vmars /\ v # Root
      /\ ObjTypeOK /\ LockOK /\ vm \in [Vmars -> Object]
  BY <1>2, UnlinkedFacts
<1>4. Cardinality(Owners(v)) \in Nat
  BY OwnersCounted
<1>5. PutAsserts(vm, v)
  <2>1. vm[v].ref >= 1 /\ (vm[v].ref = 1 => vm[v].parent = None)
    BY <1>1, <1>3, <1>4 DEF Refs, Linked
  <2> QED
    BY <1>3, <2>1 DEF PutAsserts
<1>6. vm' = PutFields(vm, v) /\ alive' = PutAlive(vm, v) /\ UNCHANGED job
  BY <1>5 DEF Put
<1>7. Moves(c) /\ job'[c] = Idle
  BY <1>1, <1>3, <1>6 DEF Moves, ObjTypeOK
<1>8. \A w \in Pool : (IsNew(w)' <=> IsNew(w)) /\ Owners(w)' = Owners(w)
  BY <1>6 DEF IsNew, Owners, OwnsRef
<1>9. vm[v].ref = Remaining(vm, v) + 1
  BY <1>1, <1>3, <1>4, <1>8 DEF Remaining, Refs, Linked
<1>10. \A d \in Cpus : job[d].borrow \subseteq held'
  BY <1>1 DEF ObjInv, ShapeOK
<1>11. /\ MakingOK' /\ TreeAlive' /\ RefCountExact'
       /\ vm' \in [Vmars -> Object] /\ alive' \subseteq Vmars
       /\ \A w \in Vmars \ {v} : vm'[w] = vm[w]
       /\ vm'[v].parent = vm[v].parent
       /\ vm[v].parent # None => vm'[v].kind = vm[v].kind
  <2>1. job'[c].par = None /\ job'[c].v = None /\ held' \subseteq held /\ held \subseteq held' \cup {v}
    BY <1>1, <1>7, IdleFields
  <2> QED
    BY <1>2, <1>3, <1>6, <1>7, <1>8, <1>9, <1>10, <2>1, DropRef
<1>12. SameTree
  BY <1>11 DEF SameTree, Linked
<1>13. LockOK' /\ StuckKept /\ rw' \in Nat
  BY <1>1, <1>7, IdleFields, QuietLock DEF Writing, Reading, Making, Pinning, Unmapping
<1>14. ShapeOK'
  <2>1. Shape(Idle) /\ Idle.borrow \subseteq held'
    BY IdleFields DEF Shape, Making, Populating, Faulting, Pinning, Unmapping
  <2> QED
    BY <1>7, <1>10, <2>1, ShapeMoves DEF ObjInv, ShapeOK
<1>15. WorkOK'
  <2>1. Work(c)'
    BY <1>7, IdleFields, NoWork
  <2> QED
    BY <2>1, <1>7, <1>12, <1>13, WorkOthers DEF ObjInv, WorkOK
<1>16. ObjTypeOK'
  BY <1>1, <1>3, <1>7, <1>11, <1>13 DEF ObjTypeOK, Moves
<1> QED
  BY <1>6, <1>11, <1>12, <1>13, <1>14, <1>15, <1>16 DEF ObjInv

(* What an erased vmar was below, its parent is below. *)
LEMMA BelowParent ==
  ASSUME NEW v \in Vmars, NEW t \in Vmars, v # t, Below(v, t), NEW p \in Vmars, vm[v].parent = p,
         vm'[v].parent = None, \A w \in Vmars \ {v} : vm'[w].parent = vm[w].parent
  PROVE  Below(p, t)'
<1> SUFFICES ASSUME NEW S \in SUBSET Vmars, p \in S, UpClosed(S)' PROVE t \in S
  BY DEF Below
<1>1. UpClosed(S \cup {v})
  BY DEF UpClosed, Linked
<1> QED
  BY <1>1 DEF Below

LEMMA EraseObj ==
  ASSUME ObjInv, NEW c \in Cpus, Erase(c), NEW v, v = job[c].v
  PROVE  /\ ObjInv' /\ v \in Pool /\ Linked(v) /\ vm'[v].parent = None /\ held' = held
         /\ \A w \in Vmars \ {v} : vm'[w] = vm[w]
         /\ \/ job'[c] = Idle /\ rw' = 0
            \/ job'[c].pc = "unmap" /\ job'[c].top = job[c].top /\ v # job[c].top /\ rw' = rw
         /\ Moves(c)
<1> DEFINE gone == [vm EXCEPT ![v].parent = None, ![v].unmapped = TRUE]
<1>1. /\ job[c].pc = "erase" /\ job[c].pc \in Pinning \cup Unmapping /\ UNCHANGED held
  BY DEF Erase, Unmapping
<1>2. PICK t : t = job[c].top
  OBVIOUS
<1>3. /\ v \in Pool /\ Linked(v) /\ t \in Pool /\ Below(v, t) /\ Children(v) = {}
      /\ NoRef(job[c]) /\ job[c] \in Call /\ job[c].pc \in Writing /\ job[c].par = None
      /\ job[c].borrow = {t} /\ rw = WRITER /\ t \in held
  BY <1>1, <1>2, WorkerFacts DEF Work, Pinning
<1>4. v \in alive /\ ~IsNew(v) /\ vm[v].parent \in Vmars
  BY <1>3 DEF ObjInv, TreeAlive, LinkedAt, IsNew, MakingOK, MakingAt, Linked
<1>5. /\ vm[v].ref = Refs(v) /\ v \in Vmars /\ v # Root
      /\ ObjTypeOK /\ LockOK /\ vm \in [Vmars -> Object]
  BY <1>3, <1>4, UnlinkedFacts
<1>6. /\ gone \in [Vmars -> Object] /\ \A w \in Vmars \ {v} : gone[w] = vm[w]
      /\ gone[v].kind = vm[v].kind /\ gone[v].parent = None /\ gone[v].unmapped
      /\ gone[v].ref = vm[v].ref
  <2>1. vm[v] \in Object
    BY <1>5
  <2>2. [vm[v] EXCEPT !.parent = None, !.unmapped = TRUE] \in Object
    BY <2>1 DEF Object
  <2>3. gone = [vm EXCEPT ![v] = [vm[v] EXCEPT !.parent = None, !.unmapped = TRUE]]
    BY <1>5, <2>1 DEF Object
  <2> QED
    BY <1>5, <2>1, <2>2, <2>3 DEF Object
<1>7. Cardinality(Owners(v)) \in Nat
  BY OwnersCounted
<1>8. gone[v].ref >= 1
  BY <1>3, <1>5, <1>6, <1>7 DEF Refs
<1>9. PutAsserts(gone, v)
  BY <1>6, <1>8 DEF PutAsserts
<1>10. vm' = PutFields(gone, v) /\ alive' = PutAlive(gone, v)
  BY <1>9 DEF Erase
<1>11. PICK k \in Call :
         /\ Goto(c, k) /\ k.par = None /\ k.v # v
         /\ \/ k = Idle /\ v = t /\ rw' = 0
            \/ /\ k.pc = "unmap" /\ k.top = t /\ k.borrow = {t} /\ k.v = vm[v].parent
               /\ v # t /\ rw' = rw /\ k.v \in Pool /\ Linked(k.v)
  <2>1. CASE v = job[c].top /\ rw' = 0 /\ Goto(c, Idle)
    BY <1>2, <1>3, <2>1, IdleFields, VmarAssumption
  <2>2. CASE v # job[c].top /\ UNCHANGED rw /\ Goto(c, [job[c] EXCEPT !.pc = "unmap", !.v = vm[v].parent])
    <3>1. PICK k : k = [job[c] EXCEPT !.pc = "unmap", !.v = vm[v].parent]
      OBVIOUS
    <3>2. vm[v].parent \in Pool /\ Linked(vm[v].parent)
      <4>1. vm[v].parent = Root \/ vm[vm[v].parent].parent # None
        BY <1>3 DEF ObjInv, TreeAlive, LinkedAt
      <4>2. vm[v].parent # Root
        <5> SUFFICES ASSUME vm[v].parent = Root PROVE FALSE
          OBVIOUS
        <5>1. UpClosed({v, Root}) /\ {v, Root} \in SUBSET Vmars
          BY <1>5 DEF UpClosed, ObjInv, TreeAlive, Vmars
        <5>2. t \in {v, Root}
          BY <1>3, <5>1 DEF Below
        <5> QED
          BY <1>2, <1>3, <2>2, <5>2, VmarAssumption
      <4> QED
        BY <1>4, <4>1, <4>2 DEF Linked, Vmars
    <3>3. k \in Call
      BY <1>3, <3>1, <3>2 DEF Call, Writing, Unmapping
    <3>4. k.pc = "unmap" /\ k.top = t /\ k.borrow = {t} /\ k.v = vm[v].parent /\ k.par = None
      BY <1>2, <1>3, <3>1 DEF Call
    <3>5. vm[v].parent # v
      BY <1>3 DEF Children
    <3> QED
      BY <1>2, <2>2, <3>1, <3>2, <3>3, <3>4, <3>5
  <2> QED
    BY <1>9, <2>1, <2>2 DEF Erase
<1>12. Moves(c) /\ job'[c] = k
  BY <1>5, <1>11, GotoMoves
<1>13. /\ NoRef(k) /\ (k.v = None \/ ~IsNew(k.v))
  <2>1. CASE k = Idle
    BY <2>1, IdleFields DEF NoRef
  <2>2. CASE Linked(k.v) /\ k.borrow = {t}
    BY <1>11, <2>2 DEF NoRef, IsNew, ObjInv, MakingOK, MakingAt, Linked
  <2> QED
    BY <1>11, <2>1, <2>2
<1>14. \A w \in Pool : (IsNew(w)' <=> IsNew(w)) /\ Owners(w)' = Owners(w)
  <2>1. \A w \in Pool : w # None
    BY VmarAssumption
  <2>2. \A w \in Pool : IsNew(w)' <=> IsNew(w)
    BY <1>3, <1>11, <1>12 DEF IsNew, Moves
  <2>3. \A w \in Pool, d \in Cpus : OwnsRef(d, w)' <=> OwnsRef(d, w)
    BY <1>3, <1>12, <1>13, <2>1 DEF OwnsRef, Moves, NoRef
  <2> QED
    BY <2>2, <2>3 DEF Owners
<1>15. gone[v].ref = Remaining(gone, v) + 1
  <2>1. PICK h, o \in Nat : h = (IF v \in held THEN 1 ELSE 0) /\ o = Cardinality(Owners(v))
    BY <1>7
  <2>2. vm[v].ref = 1 + h + o
    BY <1>3, <1>5, <2>1 DEF Refs
  <2>3. Cardinality(Owners(v)') = o
    BY <1>3, <1>14, <2>1
  <2>4. Remaining(gone, v) = 0 + h + o
    BY <1>1, <1>6, <2>1, <2>3 DEF Remaining
  <2>5. gone[v].ref = vm[v].ref
    BY <1>6
  <2> HIDE DEF gone
  <2> QED
    BY <2>2, <2>4, <2>5
<1> HIDE DEF gone
<1>16. /\ MakingOK' /\ TreeAlive' /\ RefCountExact'
       /\ vm' \in [Vmars -> Object] /\ alive' \subseteq Vmars
       /\ \A w \in Vmars \ {v} : vm'[w] = vm[w]
       /\ vm'[v].parent = None
  <2>1. \A d \in Cpus \ {c} : job[d].borrow \subseteq held'
    BY <1>1 DEF ObjInv, ShapeOK
  <2>2. /\ job'[c].par = None /\ (job'[c].v = None \/ ~IsNew(k.v)) /\ job'[c].v = k.v
        /\ held' \subseteq held /\ held \subseteq held' \cup {v}
    BY <1>1, <1>11, <1>12, <1>13
  <2>3. ~IsNew(v)'
    BY <1>3, <1>4, <1>14
  <2> QED
    BY <1>3, <1>4, <1>6, <1>10, <1>12, <1>14, <1>15, <2>1, <2>2, <2>3, DropRef
<1>17. LockOK' /\ StuckKept /\ rw' \in Nat
  <2>1. CASE k = Idle /\ rw' = 0
    BY <1>3, <1>5, <1>12, <2>1, LockReleased, IdleFields DEF Writing, Reading, Making, Pinning, Unmapping
  <2>2. CASE k.pc = "unmap" /\ rw' = rw
    BY <1>3, <1>12, <2>2, QuietLock DEF Reading
  <2> QED
    BY <1>11, <2>1, <2>2
<1>18. ShapeOK'
  <2>1. Shape(k) /\ k.borrow \subseteq held'
    <3>1. CASE k = Idle
      BY <3>1, IdleFields DEF Shape, Making, Populating, Faulting, Pinning, Unmapping
    <3>2. CASE k.pc = "unmap"
      BY <1>1, <1>3, <1>11, <3>2, IdleFields, VmarAssumption
      DEF Shape, Making, Populating, Faulting, Pinning, Unmapping
    <3> QED
      BY <1>11, <3>1, <3>2
  <2>2. \A d \in Cpus \ {c} : job[d].borrow \subseteq held'
    BY <1>1 DEF ObjInv, ShapeOK
  <2> QED
    BY <1>12, <2>1, <2>2, ShapeMoves DEF ObjInv
<1>19. Work(c)'
  <2>1. CASE k = Idle
    BY <1>12, <2>1, IdleFields, NoWork
  <2>2. CASE k.pc = "unmap"
    <3>1. v # t /\ k.v = vm[v].parent /\ Linked(k.v) /\ k.top = t /\ k.v # v /\ k.v \in Vmars
      BY <1>4, <1>11, <2>2, IdleFields
    <3>2. Below(k.v, t)'
      BY <1>3, <1>4, <1>5, <1>16, <3>1, BelowParent DEF Vmars
    <3>3. Linked(k.v)'
      BY <1>16, <3>1 DEF Linked
    <3> QED
      BY <1>12, <2>2, <3>1, <3>2, <3>3 DEF Work, Pinning, Stopped
  <2> QED
    BY <1>11, <2>1, <2>2
<1>20. WorkOK'
  BY <1>3, <1>12, <1>19, WorkersGone DEF WorkOK
<1>21. ObjTypeOK'
  BY <1>1, <1>5, <1>12, <1>16, <1>17 DEF ObjTypeOK, Moves
<1> QED
  BY <1>1, <1>2, <1>3, <1>11, <1>12, <1>16, <1>17, <1>18, <1>20, <1>21 DEF ObjInv

-----------------------------------------------------------------------------
LEMMA ObjInit == VmarInit => ObjInv
<1> SUFFICES ASSUME VmarInit PROVE ObjInv
  OBVIOUS
<1>1. \A c \in Cpus : job[c] = Idle
  BY DEF VmarInit
<1>2. PICK root : root = [Blank("region") EXCEPT !.range = VPages, !.ref = 1]
  OBVIOUS
<1>3. PICK b : b = Blank("region")
  OBVIOUS
<1>4. root \in Object /\ root.parent = None /\ root.kind = "region" /\ ~root.unmapped
  <2>1. b \in Object /\ b.parent = None /\ b.kind = "region" /\ ~b.unmapped
    BY <1>3, BlankFields
  <2>2. root = [b EXCEPT !.range = VPages, !.ref = 1]
    BY <1>2, <1>3
  <2>3. root.parent = None /\ root.kind = "region" /\ ~root.unmapped
    BY <2>1, <2>2 DEF Object
  <2>4. \A r \in SUBSET VPages, i \in Int : [b EXCEPT !.range = r, !.ref = i] \in Object
    BY <2>1 DEF Object
  <2>5. VPages \in SUBSET VPages /\ 1 \in Int
    OBVIOUS
  <2>6. root \in Object
    BY <2>2, <2>4, <2>5, Zenon
  <2> QED
    BY <2>3, <2>6
<1>5. /\ vm \in [Vmars -> Object] /\ vm[Root] = root /\ \A v \in Pool : vm[v] = Freed
  BY <1>2, <1>4, FreedFields, VmarAssumption DEF VmarInit, Vmars
<1>6. ObjTypeOK
  BY <1>5, IdleFields DEF ObjTypeOK, VmarInit, Vmars
<1>7. LockOK
  <2>1. Readers = {} /\ NoWriter
    BY <1>1, IdleFields DEF Readers, NoWriter, Reading, Writing, Making, Pinning, Unmapping
  <2>2. rw = 0 /\ Cardinality(Readers) = 0
    BY <2>1, FS_EmptySet DEF VmarInit
  <2>3. rw = READER * 0 /\ 0 >= Cardinality(Readers) /\ 0 \in 0..rw
    BY <2>2 DEF READER
  <2> QED
    BY <2>1, <2>3 DEF LockOK, NoWriter
<1>8. ShapeOK
  BY <1>1, IdleFields DEF ShapeOK, Shape, Making, Populating, Faulting, Pinning, Unmapping
<1>9. MakingOK
  BY <1>1, IdleFields DEF MakingOK
<1>10. TreeAlive
  BY <1>1, <1>4, <1>5, IdleFields, FreedFields, VmarAssumption
  DEF TreeAlive, VmarInit, Linked, OwnsRef
<1>11. WorkOK
  BY <1>1, IdleFields DEF WorkOK, Work, Pinning, Stopped
<1>12. RefCountExact
  BY DEF VmarInit, RefCountExact
<1> QED
  BY <1>6, <1>7, <1>8, <1>9, <1>10, <1>11, <1>12 DEF ObjInv

LEMMA ObjStep == ObjInv /\ [VmarNext]_vmarVars => ObjInv'
<1> SUFFICES ASSUME ObjInv, [VmarNext]_vmarVars PROVE ObjInv'
  OBVIOUS
<1>1. CASE UNCHANGED vmarVars
  BY <1>1, ObjStutter DEF vmarVars
<1>2. ASSUME NEW c \in Cpus, CoreStep(c) PROVE ObjInv'
  <2>1. ASSUME NEW par \in Vmars, NEW n \in 1..Cardinality(VPages),
               vmar_allocate(c, par, n) \/ vmar_map(c, par, n)
        PROVE  ObjInv'
    <3>1. n \in Nat
      BY VmarAssumption, FS_CardinalityType
    <3> QED
      BY <2>1, <3>1, CreateObj DEF vmar_allocate, vmar_map
  <2>2. CASE \/ PlaceFails(c) \/ PlaceRegion(c) \/ PlaceMapping(c) \/ MapTable(c)
             \/ MapTablesFail(c) \/ MapDone(c)
    BY <2>2, MakeObj
  <2>3. ASSUME NEW v \in Pool,
               vmar_populate(c, v) \/ vmar_lock(c, v) \/ vmar_unmap(c, v) \/ Put(c, v)
        PROVE  ObjInv'
    BY <2>3, vmar_populateObj, vmar_lockObj, vmar_unmapObj, PutObj
  <2>4. CASE PopulateMutex(c) \/ PopulateDone(c)
    BY <2>4, PopulateMutexObj, PopulateDoneObj
  <2>5. CASE Populate(c) \/ FaultPopulate(c)
    <3>1. PICK p : PopulatePage(c, p)
      BY <2>5 DEF Populate, FaultPopulate
    <3> QED
      BY <2>5, <3>1, PopulateObj DEF Populate, FaultPopulate
  <2>6. ASSUME NEW p \in VPages, PageFault(c, p) PROVE ObjInv'
    BY <2>6, PageFaultObj
  <2>7. CASE FaultMutex(c) \/ FaultUnlock(c) \/ FaultFlags(c) \/ FaultMutexUnlock(c)
    BY <2>7, FaultMovesObj
  <2>8. CASE FaultPut(c)
    BY <2>8, FaultPutObj
  <2>9. CASE LockMark(c) \/ LockGlobal(c) \/ LockNext(c)
    BY <2>9, LockMarkObj, LockGlobalObj, LockNextObj
  <2>10. CASE UnmapFirst(c) \/ Unmap(c) \/ UnmapFree(c)
    BY <2>10, UnmapFirstObj, UnmapObj, UnmapFreeObj
  <2>11. CASE Erase(c)
    BY <2>11, EraseObj
  <2> QED
    BY <1>2, <2>1, <2>2, <2>3, <2>4, <2>5, <2>6, <2>7, <2>8, <2>9, <2>10, <2>11 DEF CoreStep
<1> QED
  BY <1>1, <1>2 DEF VmarNext

LEMMA ObjAlways == VmarSpec => []ObjInv
BY ObjInit, ObjStep, PTL DEF VmarSpec

(* mem/vmar.c: every vmar that a handle, the tree, a fault past its unlock *)
(* or a call in progress can reach is alive, for any number of cores.      *)
THEOREM VmarNoUseAfterFree == VmarSpec => []NoUseAfterFree
BY ObjAlways, ObjInvSafe, PTL

(* lib/object.h: a count is the number of references, whoever holds them,  *)
(* so that the last put frees and none leaks.                              *)
THEOREM VmarRefCountExact == VmarSpec => []RefCountExact
BY ObjAlways, ObjInvSafe, PTL

-----------------------------------------------------------------------------
(***************************************************************************)
(* The second part is about page tables, memory and assertions.  It rests  *)
(* on what the first shows of the objects (ObjInv).                        *)
(***************************************************************************)

Entry == [state : {"zero", "present", "address"}, frame : Frames \cup {NoFrame},
          global : BOOLEAN]
MemTypeOK ==
  /\ mutex \in [Vmars -> {0, 1}]
  /\ pte \in [VPages -> Entry]
  /\ IsFiniteSet(tables) /\ free \subseteq Frames /\ resv \in Int

(* Who has the mutex of its mapping.  A mapping that is about to leave the *)
(* tree has no such core: the writer excludes those that take the mutex    *)
(* under the shared lock, and it had the mutex itself just before.         *)
Holding == {"populate", "fault_unlock", "fault_flags", "fault", "free"}
MutexOK ==
  /\ \A c \in Cpus : job[c].pc \in Holding => mutex[job[c].v] = 1
  /\ \A c, d \in Cpus : job[c].pc \in Holding /\ job[d].pc \in Holding
                        /\ job[c].v = job[d].v => c = d
  /\ \A c, d \in Cpus : job[c].pc = "erase" /\ job[d].pc \in Holding => job[c].v # job[d].v

(* Ranges nest as the tree does; what is not above or below is apart. *)
InTree(v) == v = Root \/ Linked(v)
Disjoint(v, w) == vm[v].range \cap vm[w].range = {}
Nested(v, w) == Disjoint(v, w) \/ Below(v, w) \/ Below(w, v)
RangesOK ==
  /\ vm[Root].range = VPages
  /\ \A v \in Pool : Linked(v) => vm[v].range \subseteq vm[vm[v].parent].range
  /\ \A v, w \in Vmars : InTree(v) /\ InTree(w) => Nested(v, w)

(* What a call may rely on about the vmars it has *)
Unpinned(v) == \A w \in Pool : Linked(w) /\ vm[w].range \subseteq vm[v].range => ~vm[w].locked
Mutexed == {"populate", "fault_mutex", "fault_unlock", "fault_flags", "fault"}
Use(c) ==
  LET j == job[c]
  IN  /\ j.pc \in Making => ~vm[j.v].locked
      /\ j.pc = "pop_mutex" => vm[j.v].kind = "mapping"
      /\ j.pc \in Mutexed =>
           Linked(j.v) /\ vm[j.v].kind = "mapping" /\ j.todo \subseteq vm[j.v].range
      /\ j.pc \in {"populate", "fault"} /\ j.global => vm[j.v].locked
      /\ j.pc = "lock_global" => vm[j.v].kind = "mapping" /\ vm[j.v].locked
      /\ j.pc = "unmap_first" /\ Linked(j.top) => Unpinned(j.top)
      /\ j.pc \in {"unmap", "free", "erase"} => Linked(j.top) /\ Unpinned(j.top)
      /\ j.pc = "tables" =>
           /\ vm[j.v].kind = "mapping"
           /\ j.todo \subseteq vm[j.par].range /\ Cardinality(j.todo) = j.n
           /\ \A w \in Children(j.par) : vm[w].range \cap j.todo = {}
UseOK == \A c \in Cpus : Use(c)

(* The pages of a mapping that is taken down *)
Down(c) ==
  LET j == job[c]
  IN  /\ j.pc = "free" => \A p \in vm[j.v].range : ~Present(p) /\ ~pte[p].global
      /\ j.pc = "erase" /\ vm[j.v].kind = "mapping" => \A p \in vm[j.v].range : pte[p] = Empty
DownOK == \A c \in Cpus : Down(c)

Used == {p \in VPages : pte[p] # Empty}
FramesOK ==
  /\ \A p \in Used : pte[p].frame \in Frames /\ pte[p].state # "zero"
  /\ FramesConserved

(* An entry that holds an address only is one that virt_free is about to   *)
(* clear.                                                                  *)
EntriesOK ==
  /\ NoEntryWithoutMapping
  /\ \A p \in VPages : pte[p].state = "address" =>
        \E c \in Cpus : job[c].pc = "free" /\ p \in vm[job[c].v].range

Owed == {p \in VPages : pte[p] = Empty /\ MappingAt(p) \ TornDown # {}}
ResvOK == ReservationsExact /\ resv <= Cardinality(free)

(* The pages of a locked mapping are global, or will be before the lock is *)
(* released; a populate that began before the lock ends before             *)
(* virt_make_global can begin.                                             *)
Stuck == rw = WRITER /\ NoWriter
Pinned(v) ==
  \/ \E c \in Cpus : job[c].pc = "lock_global" /\ job[c].v = v
  \/ Stuck
  \/ /\ \A p \in vm[v].range : Present(p) => pte[p].global
     /\ \A c \in Cpus : job[c].pc \in {"populate", "fault"} /\ job[c].v = v => job[c].global
Pin(v) ==
  /\ vm[v].locked => Pinned(v)
  /\ ~vm[v].locked => \A p \in vm[v].range : ~pte[p].global
PinOK == \A v \in Pool : Linked(v) /\ vm[v].kind = "mapping" => Pin(v)

MemInv ==
  /\ MemTypeOK /\ MutexOK /\ RangesOK /\ UseOK /\ DownOK /\ FramesOK /\ EntriesOK
  /\ ResvOK /\ PinOK /\ NoPanic

-----------------------------------------------------------------------------
(* The tree and the ranges *)

(* What ObjInv says of the next state *)
LEMMA AliveNext == ObjInv' => NoUseAfterFree'
BY ObjInvSafe, PTL

(* A linked vmar is alive, under a region that is in the tree itself. *)
LEMMA LinkedFacts ==
  ASSUME ObjInv, NEW v \in Vmars, Linked(v)
  PROVE  /\ v \in Pool /\ v \in alive /\ vm[v].parent \in Vmars /\ vm[vm[v].parent].kind = "region"
         /\ InTree(vm[v].parent) /\ ~vm[v].unmapped /\ v # Root
BY DEF ObjInv, TreeAlive, LinkedAt, Vmars, InTree, Linked

LEMMA BelowSelf ==
  ASSUME NEW v, NEW w, v = w
  PROVE  Below(v, w)
BY DEF Below

(* What is below a vmar has a part of its range. *)
LEMMA BelowRange ==
  ASSUME ObjInv, RangesOK, NEW v \in Vmars, NEW w \in Vmars, Below(v, w)
  PROVE  vm[v].range \subseteq vm[w].range
<1> DEFINE S == {x \in Vmars : vm[v].range \subseteq vm[x].range}
<1>1. UpClosed(S)
  BY LinkedFacts DEF RangesOK, UpClosed
<1>2. v \in S /\ S \in SUBSET Vmars
  OBVIOUS
<1>3. w \in S
  BY <1>1, <1>2 DEF Below
<1> QED
  BY <1>3

(* Nothing is below a mapping. *)
LEMMA MappingLeaf ==
  ASSUME ObjInv, NEW v \in Vmars, vm[v].kind = "mapping", NEW w \in Vmars, Below(w, v)
  PROVE  w = v
<1> SUFFICES ASSUME w # v PROVE FALSE
  OBVIOUS
<1> DEFINE S == Vmars \ {v}
<1>1. UpClosed(S)
  BY LinkedFacts DEF UpClosed
<1>2. w \in S /\ S \in SUBSET Vmars
  OBVIOUS
<1> QED
  BY <1>1, <1>2 DEF Below

(* Two mappings share no page, so a page table entry has one mutex. *)
LEMMA MappingsApart ==
  ASSUME ObjInv, RangesOK, NEW v \in Pool, Linked(v), vm[v].kind = "mapping",
         NEW w \in Pool, Linked(w), vm[w].kind = "mapping", NEW p,
         p \in vm[v].range, p \in vm[w].range
  PROVE  v = w
<1>1. v \in Vmars /\ w \in Vmars /\ InTree(v) /\ InTree(w)
  BY DEF Vmars, InTree
<1>2. Nested(v, w) /\ ~Disjoint(v, w)
  BY <1>1 DEF RangesOK, Disjoint
<1> QED
  BY <1>1, <1>2, MappingLeaf DEF Nested

LEMMA BelowStep ==
  ASSUME NEW v, NEW w, Below(v, w), Linked(w)
  PROVE  Below(v, vm[w].parent)
BY DEF Below, UpClosed

(* Whatever is below a region is below one of its children. *)
LEMMA BelowViaChild ==
  ASSUME ObjInv, NEW v \in Vmars, NEW w \in Vmars, Below(v, w), v # w
  PROVE  \E u \in Children(w) : Below(v, u)
<1> DEFINE S == {x \in Vmars : Below(v, x)} \ {w}
<1>1. v \in S /\ S \in SUBSET Vmars /\ w \notin S
  BY BelowSelf
<1>2. ~UpClosed(S)
  BY <1>1 DEF Below
<1>3. PICK x \in S : Linked(x) /\ vm[x].parent \notin S
  BY <1>2 DEF UpClosed
<1>4. x \in Pool /\ vm[x].parent \in Vmars /\ Below(v, x)
  BY <1>3, LinkedFacts
<1>5. Below(v, vm[x].parent)
  BY <1>3, <1>4, BelowStep
<1>6. vm[x].parent = w
  BY <1>3, <1>4, <1>5
<1> QED
  BY <1>4, <1>6 DEF Children

-----------------------------------------------------------------------------
(* Steps that neither link nor unlink, nor change what is linked *)

SameShape ==
  /\ \A v \in Vmars : vm'[v].parent = vm[v].parent
  /\ \A v \in Vmars : v \in alive /\ v \in alive' =>
                        vm'[v].kind = vm[v].kind /\ vm'[v].range = vm[v].range
SameLocks == \A v \in Vmars : v \in alive /\ v \in alive' => vm'[v].locked = vm[v].locked

(* The tree is the same, and so are the kinds and ranges of what is in it. *)
LEMMA ForestSame ==
  ASSUME ObjInv, ObjInv', SameShape
  PROVE  /\ SameTree /\ vm'[Root].range = vm[Root].range
         /\ \A v \in Vmars : Linked(v)' <=> Linked(v)
         /\ \A v \in Vmars : Linked(v) => /\ v \in alive /\ v \in alive'
                                          /\ vm'[v].kind = vm[v].kind /\ vm'[v].range = vm[v].range
<1>1. \A v \in Vmars : Linked(v)' <=> Linked(v)
  BY DEF SameShape, Linked
<1>2. \A v \in Vmars : Linked(v) => v \in alive /\ v \in alive'
  BY <1>1 DEF ObjInv, TreeAlive, LinkedAt, Vmars
<1>3. Root \in alive /\ Root \in alive' /\ Root \in Vmars
  BY DEF ObjInv, TreeAlive, Vmars
<1> QED
  BY <1>1, <1>2, <1>3 DEF SameShape, SameTree

LEMMA RangesSame ==
  ASSUME ObjInv, ObjInv', SameShape, RangesOK
  PROVE  RangesOK'
<1>1. /\ SameTree /\ vm'[Root].range = vm[Root].range
      /\ \A v \in Vmars : Linked(v)' <=> Linked(v)
      /\ \A v \in Vmars : Linked(v) => vm'[v].range = vm[v].range
  BY ForestSame
<1>2. \A v \in Vmars : InTree(v)' => InTree(v) /\ vm'[v].range = vm[v].range
  BY <1>1 DEF InTree
<1>3. \A v \in Vmars : Linked(v)' =>
        Linked(v) /\ vm'[v].range \subseteq vm'[vm'[v].parent].range
  <2> SUFFICES ASSUME NEW v \in Vmars, Linked(v)'
               PROVE  Linked(v) /\ vm'[v].range \subseteq vm'[vm'[v].parent].range
    OBVIOUS
  <2>1. Linked(v) /\ vm'[v].range = vm[v].range /\ vm'[v].parent = vm[v].parent
    BY <1>1 DEF SameShape
  <2>2. PICK u : u = vm[v].parent
    OBVIOUS
  <2>3. u \in Vmars /\ InTree(u) /\ v \in Pool
    BY <2>1, <2>2, LinkedFacts
  <2>4. vm'[u].range = vm[u].range
    BY <1>1, <2>3 DEF InTree
  <2> QED
    BY <2>1, <2>2, <2>3, <2>4 DEF RangesOK
<1>4. \A v, w \in Vmars : InTree(v)' /\ InTree(w)' => Nested(v, w)'
  <2> SUFFICES ASSUME NEW v \in Vmars, NEW w \in Vmars, InTree(v)', InTree(w)'
               PROVE  Nested(v, w)'
    OBVIOUS
  <2>1. Nested(v, w)
    BY <1>2 DEF RangesOK
  <2>2. (Below(v, w)' <=> Below(v, w)) /\ (Below(w, v)' <=> Below(w, v))
    BY <1>1, BelowSame
  <2>3. Disjoint(v, w)' <=> Disjoint(v, w)
    BY <1>2 DEF Disjoint
  <2> QED
    BY <2>1, <2>2, <2>3 DEF Nested
<1>5. vm'[Root].range = VPages
  BY <1>1 DEF RangesOK
<1>6. Pool \subseteq Vmars
  BY DEF Vmars
<1> QED
  BY <1>3, <1>4, <1>5, <1>6 DEF RangesOK

(* The vmars of a call are in the pool and stay alive with it. *)
LEMMA CallKept ==
  ASSUME ObjInv, ObjInv', NEW d \in Cpus, job'[d] = job[d]
  PROVE  /\ job[d].v # None => job[d].v \in Vmars /\ job[d].v \in alive /\ job[d].v \in alive'
         /\ job[d].top # None => job[d].top \in Vmars /\ job[d].top \in alive /\ job[d].top \in alive'
         /\ job[d].par # None => job[d].par \in Vmars /\ job[d].par \in alive /\ job[d].par \in alive'
<1>1. NoUseAfterFree /\ NoUseAfterFree'
  BY ObjInvSafe, AliveNext
<1>2. alive \subseteq Vmars
  BY DEF ObjInv, ObjTypeOK
<1> QED
  BY <1>1, <1>2 DEF NoUseAfterFree

(* Which of its arguments a call has *)
LEMMA CallArgs ==
  ASSUME ObjInv, NEW d \in Cpus
  PROVE  /\ job[d].pc \in Making \cup Populating \cup Faulting \cup Pinning \cup Unmapping =>
              job[d].v \in Pool /\ job[d].v # None
         /\ job[d].pc \in Pinning \cup Unmapping => job[d].top \in Pool /\ job[d].top # None
         /\ job[d].pc \in Making => job[d].par \in Vmars /\ job[d].par # None
<1>1. Shape(job[d]) /\ job[d] \in Call
  BY DEF ObjInv, ShapeOK, ObjTypeOK
<1> QED
  BY <1>1, VmarAssumption DEF Shape, Call, Pinning, Unmapping

LEMMA UnpinnedSame ==
  ASSUME ObjInv, ObjInv', SameShape, SameLocks, NEW v \in Vmars, v \in alive, v \in alive',
         Unpinned(v)
  PROVE  Unpinned(v)'
<1>1. \A w \in Pool : Linked(w)' =>
        Linked(w) /\ vm'[w].range = vm[w].range /\ vm'[w].locked = vm[w].locked
  BY ForestSame DEF SameLocks, Vmars
<1>2. vm'[v].range = vm[v].range
  BY DEF SameShape
<1> QED
  BY <1>1, <1>2 DEF Unpinned

(* Use of a core that does not move *)
LEMMA UseSame ==
  ASSUME ObjInv, ObjInv', SameShape, SameLocks, NEW d \in Cpus, job'[d] = job[d], Use(d)
  PROVE  Use(d)'
<1>1. PICK j : j = job[d]
  OBVIOUS
<1>2. j = job[d] /\ j = job'[d]
  BY <1>1
<1>3. /\ j.pc \in Making \cup Populating \cup Faulting \cup Pinning \cup Unmapping =>
           /\ j.v \in Vmars /\ vm'[j.v].kind = vm[j.v].kind /\ vm'[j.v].range = vm[j.v].range
           /\ vm'[j.v].locked = vm[j.v].locked
      /\ j.pc \in Pinning \cup Unmapping => j.top \in Vmars /\ j.top \in alive /\ j.top \in alive'
      /\ j.pc \in Making => j.par \in Vmars /\ vm'[j.par].range = vm[j.par].range
  BY <1>1, CallKept, CallArgs DEF SameShape, SameLocks
<1>4. \A v \in Vmars : Linked(v)' <=> Linked(v)
  BY ForestSame
<1>5. j.pc \in Unmapping => (Unpinned(j.top) => Unpinned(j.top)')
  BY <1>3, UnpinnedSame
<1>6. j.pc \in Making => /\ Children(j.par)' = Children(j.par)
                        /\ \A w \in Children(j.par) : vm'[w].range = vm[w].range
  <2>1. Children(j.par)' = Children(j.par)
    BY ForestSame, ChildrenSame
  <2>2. j.pc \in Making => \A w \in Children(j.par) : w \in Vmars /\ Linked(w)
    BY <1>1, CallArgs DEF Children, Linked, Vmars
  <2> QED
    BY <2>1, <2>2, ForestSame
<1> QED
  BY <1>2, <1>3, <1>4, <1>5, <1>6
  DEF Use, Making, Populating, Faulting, Pinning, Unmapping, Mutexed

(* The entries of a page may change where no core takes the page down. *)
LEMMA DownSame ==
  ASSUME ObjInv, ObjInv', SameShape, NEW d \in Cpus, job'[d] = job[d], Down(d),
         job[d].pc \in {"free", "erase"} /\ vm[job[d].v].kind = "mapping" =>
            \A p \in vm[job[d].v].range : pte'[p] = pte[p]
  PROVE  Down(d)'
<1>1. PICK j : j = job[d]
  OBVIOUS
<1>2. j = job[d] /\ j = job'[d]
  BY <1>1
<1>3. j.pc \in {"free", "erase"} =>
        vm'[j.v].kind = vm[j.v].kind /\ vm'[j.v].range = vm[j.v].range
  BY <1>1, CallKept, CallArgs DEF SameShape, Unmapping
<1>4. j.pc = "free" => vm[j.v].kind = "mapping"
  BY <1>1 DEF ObjInv, WorkOK, Work
<1> QED
  BY <1>2, <1>3, <1>4 DEF Down, Present

(* Which core counts a reservation that is not linked yet *)
Promised(jobs) ==
  LET mapping == {c \in Cpus : jobs[c].pc = "tables"}
  IN  IF mapping = {} THEN 0 ELSE jobs[CHOOSE c \in mapping : TRUE].n

LEMMA PromisedOne ==
  ASSUME NEW jobs, NEW c \in Cpus, jobs[c].pc = "tables",
         \A d \in Cpus : jobs[d].pc = "tables" => d = c
  PROVE  Promised(jobs) = jobs[c].n
<1>1. {d \in Cpus : jobs[d].pc = "tables"} = {c}
  OBVIOUS
<1>2. (CHOOSE d \in {c} : TRUE) = c
  OBVIOUS
<1> QED
  BY <1>1, <1>2 DEF Promised

LEMMA PromisedNone ==
  ASSUME NEW jobs, \A d \in Cpus : jobs[d].pc # "tables"
  PROVE  Promised(jobs) = 0
BY DEF Promised

LEMMA PromisedSame ==
  ASSUME NEW c \in Cpus, Moves(c), job[c].pc # "tables", job'[c].pc # "tables"
  PROVE  Promised(job') = Promised(job)
<1>1. {d \in Cpus : job'[d].pc = "tables"} = {d \in Cpus : job[d].pc = "tables"}
  BY DEF Moves
<1>2. CASE {d \in Cpus : job[d].pc = "tables"} = {}
  BY <1>1, <1>2 DEF Promised
<1>3. CASE {d \in Cpus : job[d].pc = "tables"} # {}
  <2>1. PICK e : e = CHOOSE d \in {d \in Cpus : job[d].pc = "tables"} : TRUE
    OBVIOUS
  <2>2. e \in {d \in Cpus : job[d].pc = "tables"}
    BY <1>3, <2>1
  <2>3. job'[e] = job[e]
    BY <2>2 DEF Moves
  <2>4. Promised(job) = job[e].n /\ Promised(job') = job'[e].n
    BY <1>1, <1>3, <2>1 DEF Promised
  <2> QED
    BY <2>3, <2>4
<1> QED
  BY <1>2, <1>3

(* ReservationsExact in terms of Owed and Promised *)
LEMMA ResvForm == ReservationsExact <=> resv = Cardinality(Owed) + Promised(job)
BY DEF ReservationsExact, Owed, Promised

LEMMA ResvFormNext == ReservationsExact' <=> resv' = Cardinality(Owed') + Promised(job')
BY DEF ReservationsExact, Owed, Promised

LEMMA OwedFinite ==
  ASSUME NEW e \in SUBSET VPages
  PROVE  IsFiniteSet(e) /\ Cardinality(e) \in Nat
BY VmarAssumption, FS_Subset, FS_CardinalityType

LEMMA MappingAtSame ==
  ASSUME ObjInv, ObjInv', SameShape
  PROVE  \A p : MappingAt(p)' = MappingAt(p)
BY ForestSame DEF MappingAt, Vmars

LEMMA TornDownSame ==
  ASSUME NEW c \in Cpus, Moves(c), job[c].pc \notin {"free", "erase"},
         job'[c].pc \notin {"free", "erase"}
  PROVE  TornDown' = TornDown
BY DEF TornDown, Moves

(* Only one core makes a mapping at a time. *)
LEMMA OneWriter ==
  ASSUME ObjInv, NEW c \in Cpus, job[c].pc \in Writing
  PROVE  /\ \A d \in Cpus : job[d].pc \in Writing => d = c
         /\ \A d \in Cpus : job[d].pc \notin Reading
         /\ rw = WRITER
<1>1. rw = WRITER /\ \A d \in Cpus : job[d].pc \in Writing => d = c
  BY DEF ObjInv, LockOK, NoWriter
<1>2. \A k \in 0..rw : rw # READER * k
  BY <1>1 DEF READER, WRITER
<1>3. Readers = {}
  BY <1>2 DEF ObjInv, LockOK
<1> QED
  BY <1>1, <1>3 DEF Readers

(* How a core that populates may go on, for a mapping that is locked *)
PopulatesWell(c) ==
  job'[c].pc \in {"populate", "fault"} =>
    \/ vm'[job'[c].v].locked => job'[c].global
    \/ /\ job[c].pc \in {"populate", "fault"} /\ job'[c].v = job[c].v
       /\ job'[c].global = job[c].global

(* Pin of a mapping whose pages and flag do not change *)
LEMMA PinSame ==
  ASSUME ObjInv, ObjInv', NEW c \in Cpus, Moves(c), StuckKept, PopulatesWell(c),
         NEW v \in Pool, vm'[v].range = vm[v].range, vm'[v].locked = vm[v].locked, Pin(v),
         \A p \in vm[v].range : pte'[p] = pte[p],
         job[c].pc = "lock_global" /\ job[c].v = v => Stuck'
  PROVE  Pin(v)'
<1>1. ~vm'[v].locked => \A p \in vm'[v].range : ~pte'[p].global
  BY DEF Pin
<1>2. ASSUME vm'[v].locked PROVE Pinned(v)'
  <2>1. vm[v].locked /\ Pinned(v)
    BY <1>2 DEF Pin
  <2>2. CASE Stuck
    BY <2>2 DEF Stuck, StuckKept, Pinned
  <2>3. ASSUME NEW d \in Cpus, job[d].pc = "lock_global", job[d].v = v
        PROVE  Pinned(v)'
    BY <2>3 DEF Pinned, Moves, Stuck
  <2>4. ASSUME \A p \in vm[v].range : Present(p) => pte[p].global,
               \A d \in Cpus : job[d].pc \in {"populate", "fault"} /\ job[d].v = v => job[d].global
        PROVE  Pinned(v)'
    <3>1. \A p \in vm'[v].range : Present(p)' => pte'[p].global
      BY <2>4 DEF Present
    <3>2. \A d \in Cpus : job'[d].pc \in {"populate", "fault"} /\ job'[d].v = v => job'[d].global
      BY <1>2, <2>4 DEF Moves, PopulatesWell
    <3> QED
      BY <3>1, <3>2 DEF Pinned
  <2> QED
    BY <2>1, <2>2, <2>3, <2>4 DEF Pinned
<1> QED
  BY <1>1, <1>2 DEF Pin

(* virt_free of another core is still under way. *)
LEMMA AddressesSame ==
  ASSUME ObjInv, ObjInv', SameShape, NEW c \in Cpus, Moves(c), job[c].pc # "free",
         NEW p, \E d \in Cpus : job[d].pc = "free" /\ p \in vm[job[d].v].range
  PROVE  \E d \in Cpus : job'[d].pc = "free" /\ p \in vm'[job'[d].v].range
<1>1. PICK d \in Cpus : job[d].pc = "free" /\ p \in vm[job[d].v].range
  OBVIOUS
<1>2. job'[d] = job[d]
  BY <1>1 DEF Moves
<1>3. job[d].v # None
  BY <1>1, CallArgs DEF Unmapping
<1>4. vm'[job[d].v].range = vm[job[d].v].range
  BY <1>2, <1>3, CallKept DEF SameShape
<1> QED
  BY <1>1, <1>2, <1>4

(* A step that leaves memory and the tree alone *)
LEMMA MemQuiet ==
  ASSUME ObjInv, ObjInv', MemInv, NEW c \in Cpus, Moves(c), SameShape, SameLocks, StuckKept,
         UNCHANGED memVars, mutex' \in [Vmars -> {0, 1}], MutexOK',
         job[c].pc \notin {"free", "erase", "tables"},
         job'[c].pc \notin {"free", "erase", "tables", "panic"},
         job[c].pc = "lock_global" => Stuck', Use(c)', PopulatesWell(c)
  PROVE  MemInv'
<1>1. pte' = pte /\ tables' = tables /\ free' = free /\ resv' = resv
  BY DEF memVars
<1>2. MemTypeOK'
  BY <1>1 DEF MemInv, MemTypeOK
<1>3. RangesOK'
  BY RangesSame DEF MemInv
<1>4. UseOK'
  BY UseSame DEF MemInv, UseOK, Moves
<1>5. DownOK'
  <2>1. \A d \in Cpus \ {c} : Down(d)'
    BY <1>1, DownSame DEF MemInv, DownOK, Moves
  <2>2. Down(c)'
    BY DEF Down
  <2> QED
    BY <2>1, <2>2 DEF DownOK
<1>6. FramesOK'
  BY <1>1 DEF MemInv, FramesOK, FramesConserved, Used
<1>7. EntriesOK'
  <2>1. NoEntryWithoutMapping'
    BY <1>1, MappingAtSame DEF MemInv, EntriesOK, NoEntryWithoutMapping
  <2>2. \A p \in VPages : pte'[p].state = "address" =>
          \E d \in Cpus : job'[d].pc = "free" /\ p \in vm'[job'[d].v].range
    BY <1>1, AddressesSame DEF MemInv, EntriesOK
  <2> QED
    BY <2>1, <2>2 DEF EntriesOK
<1>8. ResvOK'
  <2>1. Owed' = Owed
    BY <1>1, MappingAtSame, TornDownSame DEF Owed
  <2>2. Promised(job') = Promised(job)
    BY PromisedSame
  <2>3. ReservationsExact'
    BY <1>1, <2>1, <2>2, ResvForm, ResvFormNext DEF MemInv, ResvOK
  <2> QED
    BY <1>1, <2>3 DEF MemInv, ResvOK
<1>9. PinOK'
  <2> SUFFICES ASSUME NEW v \in Pool, Linked(v)', vm'[v].kind = "mapping"
               PROVE  Pin(v)'
    BY DEF PinOK
  <2>1. /\ v \in Vmars /\ Linked(v) /\ vm[v].kind = "mapping" /\ vm'[v].range = vm[v].range
        /\ vm'[v].locked = vm[v].locked
    BY ForestSame DEF Vmars, SameLocks
  <2>2. Pin(v)
    BY <2>1 DEF MemInv, PinOK
  <2> QED
    BY <1>1, <2>1, <2>2, PinSame
<1>10. NoPanic'
  BY DEF MemInv, NoPanic, Moves
<1> QED
  BY <1>2, <1>3, <1>4, <1>5, <1>6, <1>7, <1>8, <1>9, <1>10 DEF MemInv

-----------------------------------------------------------------------------
(* The mutex of a mapping *)

LEMMA MutexStays ==
  ASSUME MutexOK, NEW c \in Cpus, Moves(c), mutex' = mutex,
         job'[c].pc \in Holding => job[c].pc \in Holding /\ job'[c].v = job[c].v,
         job'[c].pc # "erase"
  PROVE  MutexOK'
BY DEF MutexOK, Moves

LEMMA MutexTaken ==
  ASSUME MemTypeOK, MutexOK, NEW c \in Cpus, Moves(c), NEW v \in Vmars, mutex[v] = 0,
         mutex' = [mutex EXCEPT ![v] = 1], job'[c].pc # "erase", job'[c].v = v,
         \A d \in Cpus \ {c} : job[d].pc # "erase"
  PROVE  MutexOK' /\ mutex' \in [Vmars -> {0, 1}]
<1>1. mutex' \in [Vmars -> {0, 1}] /\ mutex'[v] = 1 /\ \A w \in Vmars \ {v} : mutex'[w] = mutex[w]
  BY DEF MemTypeOK
<1>2. \A w : mutex[w] = 1 => mutex'[w] = 1
  BY DEF MemTypeOK
<1>3. \A d \in Cpus \ {c} : job[d].pc \in Holding => job[d].v # v
  BY DEF MutexOK
<1> QED
  BY <1>1, <1>2, <1>3 DEF MutexOK, Moves

LEMMA MutexReleased ==
  ASSUME MemTypeOK, MutexOK, NEW c \in Cpus, Moves(c), job[c].pc \in Holding,
         NEW v \in Vmars, job[c].v = v, mutex' = [mutex EXCEPT ![v] = 0],
         job'[c].pc \notin Holding, job'[c].pc = "erase" => job'[c].v = v
  PROVE  MutexOK' /\ mutex' \in [Vmars -> {0, 1}]
<1>1. mutex' \in [Vmars -> {0, 1}] /\ \A w : w # v /\ mutex[w] = 1 => mutex'[w] = 1
  BY DEF MemTypeOK
<1>2. \A d \in Cpus \ {c} : job[d].pc \in Holding => job[d].v # v
  BY DEF MutexOK
<1> QED
  BY <1>1, <1>2 DEF MutexOK, Moves, Holding

-----------------------------------------------------------------------------
(* Steps that leave memory alone *)

(* A writer that stopped keeps the rwlock: no step gives it to another. *)
LEMMA StuckIf ==
  ASSUME ObjInv, NEW c \in Cpus, Moves(c),
         \/ job[c].pc \in Writing \cup Reading \/ rw # WRITER
         \/ rw' = rw /\ job'[c].pc \notin Writing
  PROVE  StuckKept
<1> SUFFICES ASSUME rw = WRITER, NoWriter PROVE rw' = WRITER /\ NoWriter'
  BY DEF StuckKept
<1>1. \A k \in 0..rw : rw # READER * k
  BY DEF READER, WRITER
<1>2. Readers = {}
  BY <1>1 DEF ObjInv, LockOK
<1>3. job[c].pc \notin Writing \cup Reading
  BY <1>2 DEF NoWriter, Readers
<1> QED
  BY <1>3 DEF NoWriter, Moves

(* A step that changes no more than the rwlock and the place of a core *)
LEMMA MemMoves ==
  ASSUME ObjInv, ObjInv', MemInv, NEW c \in Cpus, Moves(c), StuckKept,
         UNCHANGED <<vm, alive, mutex, memVars>>,
         job[c].pc \notin {"free", "erase", "tables"},
         job'[c].pc \notin {"free", "erase", "tables", "panic"},
         job'[c].pc \in Holding => job[c].pc \in Holding /\ job'[c].v = job[c].v,
         job[c].pc = "lock_global" => Stuck', Use(c)', PopulatesWell(c)
  PROVE  MemInv'
<1>1. SameShape /\ SameLocks
  BY DEF SameShape, SameLocks
<1>2. MutexOK' /\ mutex' \in [Vmars -> {0, 1}]
  BY MutexStays DEF MemInv, MemTypeOK
<1> QED
  BY <1>1, <1>2, MemQuiet

(* A core that returns, or stops at a lock *)
LEMMA MemReturns ==
  ASSUME ObjInv, ObjInv', MemInv, NEW c \in Cpus, Moves(c), StuckKept,
         UNCHANGED <<vm, alive, mutex, memVars>>,
         job[c].pc \notin {"free", "erase", "tables"}, job'[c].pc \in {"idle", "halted", "lock"},
         job[c].pc = "lock_global" => Stuck'
  PROVE  MemInv'
<1>1. Use(c)' /\ PopulatesWell(c)
  BY DEF Use, PopulatesWell, Making, Mutexed
<1> QED
  BY <1>1, MemMoves DEF Holding

(* A call that begins by taking the rwlock *)
LEMMA IdleEnters ==
  ASSUME ObjInv, ObjInv', MemInv, NEW c \in Cpus, job[c].pc = "idle", NEW new \in Call,
         UNCHANGED <<vm, alive, mutex, memVars>>,
         new.pc \in {"pop_mutex", "lock", "unmap_first"},
         new.pc = "pop_mutex" => vm[new.v].kind = "mapping",
         new.pc = "unmap_first" /\ Linked(new.top) => Unpinned(new.top),
         \/ new.pc \in Writing /\ Exclusive(c, new)
         \/ new.pc \notin Writing /\ Shared(c, new)
  PROVE  MemInv'
<1>1. PICK stop : stop = [new EXCEPT !.pc = "halted"]
  OBVIOUS
<1>2. stop \in Call /\ stop.pc = "halted"
  BY <1>1 DEF Call, Stopped
<1>3. ObjTypeOK /\ rw \in Nat
  BY DEF ObjInv, ObjTypeOK
<1>4. CASE rw # WRITER /\ Goto(c, new)
  <2>1. Moves(c) /\ job'[c] = new
    BY <1>3, <1>4, GotoMoves
  <2>2. StuckKept
    BY <1>4, <2>1, StuckIf
  <2>3. Use(c)'
    BY <2>1 DEF Use, Making, Mutexed, Linked, Unpinned
  <2>4. PopulatesWell(c)
    BY <2>1 DEF PopulatesWell
  <2> QED
    BY <2>1, <2>2, <2>3, <2>4, MemMoves DEF Holding
<1>5. CASE rw' = rw /\ Goto(c, stop)
  <2>1. Moves(c) /\ job'[c] = stop
    BY <1>2, <1>3, <1>5, GotoMoves
  <2>2. StuckKept
    BY <1>2, <1>5, <2>1, StuckIf DEF Writing, Making, Pinning, Unmapping
  <2> QED
    BY <1>2, <2>1, <2>2, MemReturns
<1> QED
  BY <1>1, <1>4, <1>5 DEF Exclusive, Shared, WRITER

(* vmar_populate, vmar_lock and vmar_unmap begin. *)
LEMMA HandleMem ==
  ASSUME ObjInv, ObjInv', MemInv, NEW c \in Cpus, NEW v \in Pool,
         vmar_populate(c, v) \/ vmar_lock(c, v) \/ vmar_unmap(c, v)
  PROVE  MemInv'
<1>1. job[c].pc = "idle" /\ UNCHANGED <<vm, alive, mutex, memVars>>
  BY DEF vmar_populate, vmar_lock, vmar_unmap, CanUse
<1>2. CASE vmar_populate(c, v)
  <2>1. PICK new : new = [Idle EXCEPT !.pc = "pop_mutex", !.v = v, !.borrow = {v}]
    OBVIOUS
  <2>2. new \in Call /\ new.pc = "pop_mutex" /\ new.v = v
    BY <2>1, IdleFields DEF Call, Populating
  <2>3. Shared(c, new) /\ vm[v].kind = "mapping"
    BY <1>2, <2>1 DEF vmar_populate
  <2> QED
    BY <1>1, <2>2, <2>3, IdleEnters DEF Writing, Making, Pinning, Unmapping
<1>3. CASE vmar_lock(c, v)
  <2>1. PICK new : new = [Idle EXCEPT !.pc = "lock", !.v = v, !.top = v, !.borrow = {v}]
    OBVIOUS
  <2>2. new \in Call /\ new.pc = "lock"
    BY <2>1, IdleFields DEF Call, Writing, Pinning
  <2>3. Exclusive(c, new)
    BY <1>3, <2>1 DEF vmar_lock
  <2> QED
    BY <1>1, <2>2, <2>3, IdleEnters DEF Writing, Making, Pinning, Unmapping
<1>4. CASE vmar_unmap(c, v)
  <2>1. PICK new : new = [Idle EXCEPT !.pc = "unmap_first", !.v = v, !.top = v, !.borrow = {v}]
    OBVIOUS
  <2>2. new \in Call /\ new.pc = "unmap_first" /\ new.top = v
    BY <2>1, IdleFields DEF Call, Writing, Unmapping
  <2>3. Exclusive(c, new) /\ (Linked(v) => Unpinned(v))
    BY <1>4, <2>1 DEF vmar_unmap, Unpinned
  <2> QED
    BY <1>1, <2>2, <2>3, IdleEnters DEF Writing, Making, Pinning, Unmapping
<1> QED
  BY <1>2, <1>3, <1>4

(* vmar_allocate and vmar_map begin. *)
LEMMA CreateMem ==
  ASSUME ObjInv, ObjInv', MemInv, NEW c \in Cpus, NEW kind \in {"region", "mapping"},
         NEW par \in Vmars, NEW n \in Nat, Create(c, kind, par, n)
  PROVE  MemInv'
<1>1. PICK v \in Pool \ alive :
        /\ alive' = alive \cup {v}
        /\ vm' = [vm EXCEPT ![v] = Blank(kind)]
        /\ Exclusive(c, [Idle EXCEPT !.pc = "place", !.v = v, !.par = par, !.n = n,
                                     !.borrow = {par} \ {Root}])
  BY DEF Create
<1>2. PICK new : new = [Idle EXCEPT !.pc = "place", !.v = v, !.par = par, !.n = n,
                                    !.borrow = {par} \ {Root}]
  OBVIOUS
<1>3. /\ ObjTypeOK /\ job[c].pc = "idle" /\ UNCHANGED <<mutex, memVars>> /\ (par = Root \/ par \in held)
  BY DEF Create, ObjInv
<1>4. new \in Call
  BY <1>2, <1>3, IdleFields DEF Call, Writing, Making, ObjTypeOK, Vmars
<1>5. new.pc = "place" /\ new.v = v
  BY <1>2, <1>3, IdleFields DEF Call
<1>6. PICK stop : stop = [new EXCEPT !.pc = "halted"]
  OBVIOUS
<1>7. stop \in Call /\ stop.pc = "halted"
  BY <1>4, <1>5, <1>6 DEF Call, Stopped
<1>8. \/ rw = 0 /\ Goto(c, new)
      \/ rw' = rw /\ Goto(c, stop)
  BY <1>1, <1>2, <1>6 DEF Exclusive
<1>9. Moves(c) /\ ((job'[c] = new /\ rw = 0) \/ (job'[c] = stop /\ rw' = rw))
  <2>1. CASE rw = 0 /\ Goto(c, new)
    BY <1>3, <1>4, <2>1, GotoMoves
  <2>2. CASE rw' = rw /\ Goto(c, stop)
    BY <1>3, <1>7, <2>2, GotoMoves
  <2> QED
    BY <1>8, <2>1, <2>2
<1>10. StuckKept
  BY <1>7, <1>9, StuckIf DEF WRITER, Writing, Making, Pinning, Unmapping
<1>11. v \in Pool /\ v \notin alive /\ ~Linked(v) /\ v \in Vmars
  BY <1>1, DeadUnknown DEF Vmars
<1>12. vm'[v] = Blank(kind) /\ \A w \in Vmars \ {v} : vm'[w] = vm[w]
  BY <1>1, <1>3, <1>11 DEF ObjTypeOK
<1>13. SameShape /\ SameLocks
  BY <1>11, <1>12, BlankFields DEF SameShape, SameLocks, Linked
<1>14. Use(c)' /\ PopulatesWell(c)
  BY <1>5, <1>7, <1>9, <1>12, BlankFields DEF Use, Making, Mutexed, PopulatesWell
<1>15. MutexOK' /\ mutex' \in [Vmars -> {0, 1}]
  BY <1>3, <1>5, <1>7, <1>9, MutexStays DEF MemInv, MemTypeOK, Holding
<1> QED
  BY <1>3, <1>5, <1>7, <1>9, <1>10, <1>13, <1>14, <1>15, MemQuiet

(* The error paths free a vmar that nobody knows. *)
LEMMA AbandonFrame ==
  ASSUME ObjInv, NEW c \in Cpus, job[c].pc \in Making, Abandon(c)
  PROVE  Moves(c) /\ job'[c] = Idle /\ SameShape /\ SameLocks /\ StuckKept
<1>1. job[c].par # None /\ ObjTypeOK
  BY CallArgs DEF ObjInv
<1>2. PICK v : v = job[c].v
  OBVIOUS
<1>3. v \in Pool /\ v \in Vmars /\ vm[v].parent = None
  BY <1>1, <1>2, CallArgs DEF ObjInv, MakingOK, MakingAt, Vmars
<1>4. /\ vm'[v] = Freed /\ \A w \in Vmars \ {v} : vm'[w] = vm[w]
      /\ v \notin alive'
  BY <1>1, <1>2, <1>3 DEF Abandon, ObjTypeOK
<1>5. SameShape /\ SameLocks
  BY <1>3, <1>4, FreedFields DEF SameShape, SameLocks
<1>6. Moves(c) /\ job'[c] = Idle
  BY <1>1, GotoMoves, IdleFields DEF Abandon
<1>7. StuckKept
  BY <1>6, StuckIf DEF Writing
<1> QED
  BY <1>5, <1>6, <1>7

LEMMA PlaceFailsMem ==
  ASSUME ObjInv, ObjInv', MemInv, NEW c \in Cpus, job[c].pc = "place", Abandon(c),
         UNCHANGED <<mutex, memVars>>
  PROVE  MemInv'
<1>1. Moves(c) /\ job'[c].pc = "idle" /\ SameShape /\ SameLocks /\ StuckKept
  BY AbandonFrame, IdleFields DEF Making
<1>2. Use(c)' /\ PopulatesWell(c)
  BY <1>1 DEF Use, Making, Mutexed, PopulatesWell
<1>3. MutexOK' /\ mutex' \in [Vmars -> {0, 1}]
  BY <1>1, MutexStays DEF MemInv, MemTypeOK, Holding
<1> QED
  BY <1>1, <1>2, <1>3, MemQuiet

(* object_put frees only what is in no tree. *)
LEMMA PutFrame ==
  ASSUME ObjInv, NEW v \in Pool, vm' = PutFields(vm, v), alive' = PutAlive(vm, v),
         PutAsserts(vm, v)
  PROVE  SameShape /\ SameLocks
<1>1. vm \in [Vmars -> Object] /\ v \in Vmars
  BY DEF ObjInv, ObjTypeOK, Vmars
<1>2. CASE vm[v].ref = 1
  <2>1. vm[v].unmapped /\ v \notin alive' /\ vm'[v] = Freed
    BY <1>1, <1>2, PutEffect DEF PutAsserts, PutAlive
  <2>2. vm[v].parent = None
    BY <2>1 DEF ObjInv, TreeAlive, LinkedAt, Linked
  <2>3. \A w \in Vmars \ {v} : vm'[w] = vm[w]
    BY <1>1, PutEffect
  <2> QED
    BY <2>1, <2>2, <2>3, FreedFields DEF SameShape, SameLocks
<1>3. CASE vm[v].ref # 1
  BY <1>1, <1>3, PutEffect DEF SameShape, SameLocks
<1> QED
  BY <1>2, <1>3

(* The assertions of object_put and vmar_free, for a reference that is not *)
(* the tree's                                                              *)
LEMMA PutHolds ==
  ASSUME ObjInv, NEW v \in Pool, v \in held \/ \E c \in Cpus : OwnsRef(c, v)
  PROVE  PutAsserts(vm, v)
<1>1. v \in alive \ {Root} /\ v # None
  BY VmarAssumption DEF ObjInv, TreeAlive
<1>2. ~IsNew(v)
  BY <1>1 DEF ObjInv, MakingOK, MakingAt, IsNew, OwnsRef
<1>3. vm[v].ref = Refs(v)
  BY <1>1, <1>2, RefsExact DEF ObjInv, RefAt
<1>4. IsFiniteSet(Owners(v)) /\ Cardinality(Owners(v)) \in Nat /\ (Cardinality(Owners(v)) = 0 => Owners(v) = {})
  BY OwnersCounted
<1>5. (\E c \in Cpus : OwnsRef(c, v)) => Cardinality(Owners(v)) >= 1
  BY <1>4 DEF Owners
<1>6. Refs(v) >= 1 /\ (Linked(v) => Refs(v) >= 2)
  BY <1>4, <1>5 DEF Refs
<1>7. Linked(v) \/ vm[v].unmapped
  BY <1>1, <1>2 DEF ObjInv, TreeAlive
<1>8. vm[v].ref \in Int
  BY DEF ObjInv, ObjTypeOK, Object, Vmars
<1> QED
  BY <1>3, <1>6, <1>7, <1>8 DEF PutAsserts

LEMMA PutMem ==
  ASSUME ObjInv, ObjInv', MemInv, NEW c \in Cpus, NEW v \in Pool, Put(c, v)
  PROVE  MemInv'
<1>1. /\ v \in held /\ job[c].pc = "idle" /\ UNCHANGED <<rw, mutex, memVars>>
  BY DEF Put, CanUse
<1>2. PutAsserts(vm, v)
  BY <1>1, PutHolds
<1>3. vm' = PutFields(vm, v) /\ alive' = PutAlive(vm, v) /\ job' = job
  BY <1>2 DEF Put
<1>4. SameShape /\ SameLocks
  BY <1>2, <1>3, PutFrame
<1>5. Moves(c) /\ job'[c].pc = "idle"
  BY <1>1, <1>3 DEF ObjInv, ObjTypeOK, Moves
<1>6. StuckKept
  BY <1>1, <1>5, StuckIf DEF Writing, Making, Pinning, Unmapping
<1>7. Use(c)' /\ PopulatesWell(c)
  BY <1>5 DEF Use, Making, Mutexed, PopulatesWell
<1>8. MutexOK' /\ mutex' \in [Vmars -> {0, 1}]
  BY <1>1, <1>5, MutexStays DEF MemInv, MemTypeOK, Holding
<1> QED
  BY <1>1, <1>4, <1>5, <1>6, <1>7, <1>8, MemQuiet

LEMMA FaultPutMem ==
  ASSUME ObjInv, ObjInv', MemInv, NEW c \in Cpus, FaultPut(c)
  PROVE  MemInv'
<1>1. PICK v : v = job[c].v
  OBVIOUS
<1>2. job[c].pc = "fault_put" /\ UNCHANGED <<rw, mutex, memVars>>
  BY DEF FaultPut
<1>3. v \in Pool /\ OwnsRef(c, v)
  BY <1>1, <1>2 DEF ObjInv, ShapeOK, Shape, Faulting, OwnsRef
<1>4. PutAsserts(vm, v)
  BY <1>3, PutHolds
<1>5. vm' = PutFields(vm, v) /\ alive' = PutAlive(vm, v) /\ Goto(c, Idle)
  BY <1>1, <1>4 DEF FaultPut
<1>6. SameShape /\ SameLocks
  BY <1>3, <1>4, <1>5, PutFrame
<1>7. Moves(c) /\ job'[c].pc = "idle"
  BY <1>5, GotoMoves, IdleFields DEF ObjInv
<1>8. StuckKept
  BY <1>2, <1>7, StuckIf DEF Writing, Making, Pinning, Unmapping
<1>9. Use(c)' /\ PopulatesWell(c)
  BY <1>7 DEF Use, Making, Mutexed, PopulatesWell
<1>10. MutexOK' /\ mutex' \in [Vmars -> {0, 1}]
  BY <1>2, <1>7, MutexStays DEF MemInv, MemTypeOK, Holding
<1> QED
  BY <1>2, <1>6, <1>7, <1>8, <1>9, <1>10, MemQuiet

LEMMA PageFaultMem ==
  ASSUME ObjInv, ObjInv', MemInv, NEW c \in Cpus, NEW p \in VPages, PageFault(c, p)
  PROVE  MemInv'
<1>1. job[c].pc = "idle" /\ UNCHANGED <<alive, mutex, memVars>> /\ ObjTypeOK
  BY DEF PageFault, ObjInv
<1>2. CASE Stop(c) /\ UNCHANGED <<vm, rw>>
  <2>1. Moves(c) /\ job'[c].pc = "halted"
    BY <1>1, <1>2, BecomeMoves DEF Stop, Pcs, Stopped
  <2>2. StuckKept
    BY <1>2, <2>1, StuckIf DEF Writing, Making, Pinning, Unmapping
  <2> QED
    BY <1>1, <1>2, <2>1, <2>2, MemReturns
<1>3. ASSUME NEW v \in MappingAt(p), rw # WRITER, vm' = Referenced(v),
             Goto(c, [Idle EXCEPT !.pc = "fault_mutex", !.v = v, !.todo = {p}])
      PROVE  MemInv'
  <2>1. v \in Pool /\ v \in Vmars /\ Linked(v) /\ vm[v].kind = "mapping" /\ p \in vm[v].range
    BY DEF MappingAt, Vmars
  <2>2. PICK new : new = [Idle EXCEPT !.pc = "fault_mutex", !.v = v, !.todo = {p}]
    OBVIOUS
  <2>3. new \in Call
    BY <2>1, <2>2, IdleFields DEF Call, Faulting
  <2>4. new.pc = "fault_mutex" /\ new.v = v /\ new.todo = {p}
    BY <2>2, IdleFields DEF Call
  <2>5. Moves(c) /\ job'[c] = new
    BY <1>1, <1>3, <2>2, <2>3, GotoMoves
  <2>6. StuckKept
    BY <1>3, <2>5, StuckIf
  <2>7. \A w \in Vmars : /\ vm'[w].parent = vm[w].parent /\ vm'[w].kind = vm[w].kind
                         /\ vm'[w].range = vm[w].range /\ vm'[w].locked = vm[w].locked
    BY <1>1, <1>3, <2>1 DEF Referenced, ObjTypeOK, Object
  <2>8. SameShape /\ SameLocks
    BY <2>7 DEF SameShape, SameLocks
  <2>9. Use(c)'
    BY <2>1, <2>4, <2>5, <2>7 DEF Use, Making, Mutexed, Linked
  <2>10. PopulatesWell(c)
    BY <2>4, <2>5 DEF PopulatesWell
  <2>11. MutexOK' /\ mutex' \in [Vmars -> {0, 1}]
    BY <1>1, <2>4, <2>5, MutexStays DEF MemInv, MemTypeOK, Holding
  <2> QED
    BY <1>1, <2>4, <2>5, <2>6, <2>8, <2>9, <2>10, <2>11, MemQuiet
<1> QED
  BY <1>2, <1>3 DEF PageFault

(* A core stops at a lock; if it is the writer, for ever. *)
LEMMA StopMem ==
  ASSUME ObjInv, ObjInv', MemInv, NEW c \in Cpus, Stop(c), UNCHANGED <<vm, alive, rw, mutex, memVars>>,
         job[c].pc \notin {"free", "erase", "tables"}
  PROVE  MemInv'
<1>1. Moves(c) /\ job'[c].pc = "halted"
  BY BecomeMoves DEF Stop, Pcs, Stopped, ObjInv
<1>2. StuckKept
  BY <1>1, StuckIf DEF Writing, Making, Pinning, Unmapping
<1>3. job[c].pc = "lock_global" => Stuck'
  BY <1>1, WriterStops DEF Stuck, Writing, Pinning, Stopped
<1> QED
  BY <1>1, <1>2, <1>3, MemReturns

(* vmar_populate takes the mutex, or finds the mapping unmapped. *)
LEMMA PopulateMutexMem ==
  ASSUME ObjInv, ObjInv', MemInv, NEW c \in Cpus, PopulateMutex(c)
  PROVE  MemInv'
<1>1. PICK v : v = job[c].v
  OBVIOUS
<1>2. /\ job[c].pc = "pop_mutex" /\ UNCHANGED <<vm, alive, held, memVars>> /\ ObjTypeOK
      /\ job[c] \in Call
  BY DEF PopulateMutex, ObjInv, ObjTypeOK
<1>3. v \in Pool /\ v \in Vmars /\ v \in held /\ vm[v].kind = "mapping"
  BY <1>1, <1>2 DEF ObjInv, ShapeOK, Shape, Populating, Vmars, MemInv, UseOK, Use
<1>4. CASE Stop(c) /\ UNCHANGED <<mutex, rw>>
  BY <1>2, <1>4, StopMem
<1>5. CASE Goto(c, Idle) /\ UNCHANGED mutex
  <2>1. Moves(c) /\ job'[c].pc = "idle"
    BY <1>2, <1>5, GotoMoves, IdleFields
  <2>2. StuckKept
    BY <1>2, <2>1, StuckIf DEF Reading
  <2> QED
    BY <1>2, <1>5, <2>1, <2>2, MemReturns
<1>6. CASE /\ mutex[v] = 0 /\ ~vm[v].unmapped /\ mutex' = [mutex EXCEPT ![v] = 1]
           /\ Goto(c, [job[c] EXCEPT !.pc = "populate", !.todo = vm[v].range,
                                     !.global = vm[v].locked])
           /\ UNCHANGED rw
  <2>1. PICK new : new = [job[c] EXCEPT !.pc = "populate", !.todo = vm[v].range,
                                        !.global = vm[v].locked]
    OBVIOUS
  <2>2. vm[v].range \in SUBSET VPages /\ vm[v].locked \in BOOLEAN /\ "populate" \in Pcs
    BY <1>2, <1>3 DEF ObjTypeOK, Object, Pcs, Populating
  <2>3. new \in Call
    BY <1>2, <2>1, <2>2 DEF Call, Pcs
  <2>4. new.pc = "populate" /\ new.v = v /\ new.todo = vm[v].range /\ new.global = vm[v].locked
    BY <1>1, <1>2, <2>1 DEF Call
  <2>5. Moves(c) /\ job'[c] = new
    BY <1>2, <1>6, <2>1, <2>3, GotoMoves
  <2>6. StuckKept
    BY <1>2, <2>5, StuckIf DEF Reading
  <2>7. Linked(v)
    BY <1>3, <1>6, HeldNotNew DEF Linked
  <2>8. Use(c)'
    BY <1>2, <1>3, <2>4, <2>5, <2>7 DEF Use, Making, Mutexed, Linked
  <2>9. PopulatesWell(c)
    BY <1>2, <2>4, <2>5 DEF PopulatesWell
  <2>10. \A d \in Cpus : job[d].pc # "erase"
    BY <1>2, OneWriter DEF Reading, Writing, Unmapping
  <2>11. MutexOK' /\ mutex' \in [Vmars -> {0, 1}]
    BY <1>3, <1>6, <2>4, <2>5, <2>10, MutexTaken DEF MemInv
  <2>12. SameShape /\ SameLocks
    BY <1>2 DEF SameShape, SameLocks
  <2> QED
    BY <1>2, <2>4, <2>5, <2>6, <2>8, <2>9, <2>11, <2>12, MemQuiet
<1> QED
  BY <1>1, <1>4, <1>5, <1>6 DEF PopulateMutex

(* The mutex is released after a populate. *)
LEMMA MutexUnlockMem ==
  ASSUME ObjInv, ObjInv', MemInv, NEW c \in Cpus, PopulateDone(c) \/ FaultMutexUnlock(c)
  PROVE  MemInv'
<1>1. PICK v : v = job[c].v
  OBVIOUS
<1>2. /\ job[c].pc \in {"populate", "fault"} /\ UNCHANGED <<vm, alive, memVars>> /\ ObjTypeOK
      /\ mutex' = [mutex EXCEPT ![v] = 0]
  BY <1>1 DEF PopulateDone, FaultMutexUnlock, ObjInv
<1>3. v \in Vmars
  BY <1>1, <1>2, CallArgs DEF Vmars, Populating, Faulting
<1>4. Moves(c) /\ job'[c].pc \in {"idle", "fault_put"} /\ StuckKept
  <2>1. CASE PopulateDone(c)
    <3>1. Moves(c) /\ job'[c].pc = "idle"
      BY <1>2, <2>1, GotoMoves, IdleFields DEF PopulateDone
    <3> QED
      BY <2>1, <3>1, StuckIf DEF PopulateDone, Reading
  <2>2. CASE FaultMutexUnlock(c)
    <3>1. Moves(c) /\ job'[c].pc = "fault_put"
      BY <1>2, <2>2, BecomeMoves DEF FaultMutexUnlock, Pcs, Faulting
    <3> QED
      BY <2>2, <3>1, StuckIf DEF FaultMutexUnlock, Writing, Making, Pinning, Unmapping
  <2> QED
    BY <2>1, <2>2
<1>5. MutexOK' /\ mutex' \in [Vmars -> {0, 1}]
  BY <1>1, <1>2, <1>3, <1>4, MutexReleased DEF MemInv, Holding
<1>6. Use(c)' /\ PopulatesWell(c)
  BY <1>4 DEF Use, Making, Mutexed, PopulatesWell
<1>7. SameShape /\ SameLocks
  BY <1>2 DEF SameShape, SameLocks
<1> QED
  BY <1>2, <1>4, <1>5, <1>6, <1>7, MemQuiet

LEMMA FaultMovesMem ==
  ASSUME ObjInv, ObjInv', MemInv, NEW c \in Cpus, FaultMutex(c) \/ FaultUnlock(c) \/ FaultFlags(c)
  PROVE  MemInv'
<1>1. PICK v : v = job[c].v
  OBVIOUS
<1>2. /\ job[c].pc \in {"fault_mutex", "fault_unlock", "fault_flags"} /\ ObjTypeOK
      /\ UNCHANGED <<vm, alive, memVars>> /\ job[c] \in Call
  BY DEF FaultMutex, FaultUnlock, FaultFlags, ObjInv, ObjTypeOK
<1>3. v \in Pool /\ v \in Vmars /\ Linked(v) /\ vm[v].kind = "mapping" /\ job[c].todo \subseteq vm[v].range
  BY <1>1, <1>2, CallArgs DEF Vmars, Faulting, MemInv, UseOK, Use, Mutexed
<1>4. SameShape /\ SameLocks
  BY <1>2 DEF SameShape, SameLocks
<1>5. CASE FaultMutex(c)
  <2>1. CASE Stop(c) /\ UNCHANGED mutex
    BY <1>2, <1>5, <2>1, StopMem DEF FaultMutex
  <2>2. CASE mutex[v] = 0 /\ mutex' = [mutex EXCEPT ![v] = 1] /\ Become(c, "fault_unlock")
    <3>1. Moves(c) /\ job'[c].pc = "fault_unlock" /\ job'[c].v = v /\ job'[c].todo = job[c].todo
      BY <1>1, <1>2, <2>2, BecomeMoves DEF Pcs, Faulting, SameFields
    <3>2. StuckKept
      BY <1>5, <3>1, StuckIf DEF FaultMutex, Reading
    <3>3. Use(c)' /\ PopulatesWell(c)
      BY <1>2, <1>3, <3>1 DEF Use, Making, Mutexed, Linked, PopulatesWell
    <3>4. \A d \in Cpus : job[d].pc # "erase"
      BY <1>5, OneWriter DEF FaultMutex, Reading, Writing, Unmapping
    <3>5. MutexOK' /\ mutex' \in [Vmars -> {0, 1}]
      BY <1>3, <2>2, <3>1, <3>4, MutexTaken DEF MemInv
    <3> QED
      BY <1>2, <1>4, <3>1, <3>2, <3>3, <3>5, MemQuiet
  <2> QED
    BY <1>1, <1>5, <2>1, <2>2 DEF FaultMutex
<1>6. CASE FaultUnlock(c)
  <2>1. Moves(c) /\ job'[c].pc = "fault_flags" /\ job'[c].v = v /\ job'[c].todo = job[c].todo
    BY <1>1, <1>2, <1>6, BecomeMoves DEF FaultUnlock, Pcs, Faulting, SameFields
  <2>2. StuckKept
    BY <1>6, <2>1, StuckIf DEF FaultUnlock, Reading
  <2>3. Use(c)' /\ PopulatesWell(c)
    BY <1>2, <1>3, <2>1 DEF Use, Making, Mutexed, Linked, PopulatesWell
  <2> QED
    BY <1>1, <1>2, <1>6, <2>1, <2>2, <2>3, MemMoves DEF FaultUnlock, Holding
<1>7. CASE FaultFlags(c)
  <2>1. PICK new : new = [job[c] EXCEPT !.pc = "fault", !.global = vm[v].locked]
    OBVIOUS
  <2>2. vm[v].locked \in BOOLEAN /\ "fault" \in Pcs
    BY <1>2, <1>3 DEF ObjTypeOK, Object, Pcs, Faulting
  <2>3. new \in Call
    BY <1>2, <2>1, <2>2 DEF Call, Pcs
  <2>4. new.pc = "fault" /\ new.v = v /\ new.todo = job[c].todo /\ new.global = vm[v].locked
    BY <1>1, <1>2, <2>1 DEF Call
  <2>5. Moves(c) /\ job'[c] = new
    BY <1>1, <1>2, <1>7, <2>1, <2>3, GotoMoves DEF FaultFlags
  <2>6. StuckKept
    BY <1>7, <2>4, <2>5, StuckIf DEF FaultFlags, Writing, Making, Pinning, Unmapping
  <2>7. Use(c)' /\ PopulatesWell(c)
    BY <1>2, <1>3, <2>4, <2>5 DEF Use, Making, Mutexed, Linked, PopulatesWell
  <2> QED
    BY <1>1, <1>2, <1>7, <2>4, <2>5, <2>6, <2>7, MemMoves DEF FaultFlags, Holding
<1> QED
  BY <1>5, <1>6, <1>7

LEMMA LockNextMem ==
  ASSUME ObjInv, ObjInv', MemInv, NEW c \in Cpus, LockNext(c)
  PROVE  MemInv'
<1>1. /\ job[c].pc = "lock_next" /\ UNCHANGED <<vm, alive, mutex, memVars>> /\ ObjTypeOK
      /\ job[c] \in Call
  BY DEF LockNext, ObjInv, ObjTypeOK
<1>2. ASSUME NEW w \in Pool, Goto(c, [job[c] EXCEPT !.pc = "lock", !.v = w]) PROVE MemInv'
  <2>1. PICK new : new = [job[c] EXCEPT !.pc = "lock", !.v = w]
    OBVIOUS
  <2>2. new \in Call /\ new.pc = "lock"
    BY <1>1, <2>1 DEF Call, Writing, Pinning
  <2>3. Moves(c) /\ job'[c].pc = "lock"
    BY <1>1, <1>2, <2>1, <2>2, GotoMoves
  <2>4. StuckKept
    BY <1>1, <2>3, StuckIf DEF Writing, Pinning
  <2> QED
    BY <1>1, <2>3, <2>4, MemReturns
<1>3. CASE Goto(c, Idle)
  <2>1. Moves(c) /\ job'[c].pc = "idle"
    BY <1>1, <1>3, GotoMoves, IdleFields
  <2>2. StuckKept
    BY <1>1, <2>1, StuckIf DEF Writing, Pinning
  <2> QED
    BY <1>1, <2>1, <2>2, MemReturns
<1> QED
  BY <1>2, <1>3 DEF LockNext

LEMMA UnmapFirstMem ==
  ASSUME ObjInv, ObjInv', MemInv, NEW c \in Cpus, UnmapFirst(c)
  PROVE  MemInv'
<1>1. PICK top : top = job[c].top
  OBVIOUS
<1>2. /\ job[c].pc = "unmap_first" /\ UNCHANGED <<vm, alive, mutex, memVars>> /\ ObjTypeOK
  BY DEF UnmapFirst, ObjInv
<1>3. top \in held /\ (Linked(top) => Unpinned(top))
  BY <1>1, <1>2, WorkerFacts DEF Unmapping, MemInv, UseOK, Use
<1>4. CASE Goto(c, Idle)
  <2>1. Moves(c) /\ job'[c].pc = "idle"
    BY <1>2, <1>4, GotoMoves, IdleFields
  <2>2. StuckKept
    BY <1>2, <2>1, StuckIf DEF Writing, Unmapping
  <2> QED
    BY <1>2, <2>1, <2>2, MemReturns
<1>5. CASE ~vm[top].unmapped /\ Become(c, "unmap")
  <2>1. Moves(c) /\ job'[c].pc = "unmap" /\ job'[c].top = top
    BY <1>1, <1>2, <1>5, BecomeMoves DEF Pcs, Writing, Unmapping, SameFields
  <2>2. Linked(top)
    BY <1>3, <1>5, HeldNotNew
  <2>3. StuckKept
    BY <1>2, <2>1, StuckIf DEF Writing, Unmapping
  <2>4. Use(c)' /\ PopulatesWell(c)
    BY <1>2, <1>3, <2>1, <2>2 DEF Use, Making, Mutexed, Linked, Unpinned, PopulatesWell
  <2> QED
    BY <1>2, <2>1, <2>3, <2>4, MemMoves DEF Holding
<1> QED
  BY <1>1, <1>4, <1>5 DEF UnmapFirst

-----------------------------------------------------------------------------
(* Page table entries *)

LEMMA EmptyFields ==
  /\ Empty \in Entry /\ Empty.state = "zero" /\ Empty.frame = NoFrame /\ ~Empty.global
BY DEF Empty, Entry

LEMMA MadeGlobal ==
  ASSUME NEW e \in Entry, NEW g, g = [e EXCEPT !.global = TRUE]
  PROVE  g \in Entry /\ g.state = e.state /\ g.frame = e.frame /\ g.global
BY DEF Entry

LEMMA MadeAddress ==
  ASSUME NEW e \in Entry, NEW a, a = [e EXCEPT !.state = "address"]
  PROVE  a \in Entry /\ a.state = "address" /\ a.frame = e.frame /\ a.global = e.global
BY DEF Entry

(* The same pages keep the same frames. *)
SameFrames ==
  \A p \in VPages : /\ (pte'[p] = Empty) <=> (pte[p] = Empty)
                    /\ pte'[p].frame = pte[p].frame
                    /\ pte[p] # Empty => pte'[p].state # "zero"

(* Frames are conserved when entries change their flags only. *)
LEMMA FramesSame ==
  ASSUME FramesOK, SameFrames, free' = free, tables' = tables
  PROVE  FramesOK'
<1>1. Used' = Used
  BY DEF Used, SameFrames
<1>2. \A p \in Used : pte'[p].frame = pte[p].frame /\ pte'[p].state # "zero"
  BY DEF Used, SameFrames
<1>3. FramesConserved'
  BY <1>1, <1>2 DEF FramesOK, FramesConserved, Used
<1> QED
  BY <1>1, <1>2, <1>3 DEF FramesOK

(* A core outside the rwlock, past vmar_find_mapping or not in a call *)
LEMMA UseBystander ==
  ASSUME NEW d \in Cpus, job'[d] = job[d], Use(d), job[d].pc \notin Writing \cup Reading,
         job[d].pc \in Mutexed =>
            /\ Linked(job[d].v) => vm'[job[d].v].parent # None
            /\ vm'[job[d].v].kind = vm[job[d].v].kind /\ vm'[job[d].v].range = vm[job[d].v].range
            /\ vm[job[d].v].locked => vm'[job[d].v].locked
  PROVE  Use(d)'
<1>1. PICK j : j = job[d]
  OBVIOUS
<1>2. j = job[d] /\ j = job'[d]
  BY <1>1
<1>3. j.pc \notin Making /\ j.pc \notin {"pop_mutex", "lock_global", "unmap_first", "unmap", "free", "erase", "tables"}
  BY <1>1 DEF Writing, Reading, Making, Pinning, Unmapping
<1> QED
  BY <1>2, <1>3 DEF Use, Linked, Mutexed

-----------------------------------------------------------------------------
(* vmar_lock *)

(* The flag is set: from here until virt_make_global the mapping is pinned *)
(* by the core that set it.                                                *)
LEMMA LockMarkMem ==
  ASSUME ObjInv, ObjInv', MemInv, NEW c \in Cpus, LockMark(c)
  PROVE  MemInv'
<1>1. PICK v : v = job[c].v
  OBVIOUS
<1>2. /\ job[c].pc = "lock" /\ UNCHANGED <<alive, rw, mutex, memVars>> /\ ObjTypeOK /\ job[c] \in Call
      /\ vm' = [vm EXCEPT ![v].locked = TRUE] /\ v \in Pool /\ v \in Vmars
      /\ pte' = pte /\ tables' = tables /\ free' = free /\ resv' = resv
  BY <1>1, CallArgs DEF LockMark, ObjInv, ObjTypeOK, Pinning, Vmars, memVars
<1>3. /\ \A w \in Vmars : /\ vm'[w].parent = vm[w].parent /\ vm'[w].kind = vm[w].kind
                          /\ vm'[w].range = vm[w].range /\ (w # v => vm'[w].locked = vm[w].locked)
                          /\ vm[w].locked => vm'[w].locked
      /\ vm'[v].locked = TRUE
  BY <1>2 DEF ObjTypeOK, Object
<1>4. PICK pc : pc = IF vm[v].kind = "mapping" THEN "lock_global" ELSE "lock_next"
  OBVIOUS
<1>5. PICK new : new = [job[c] EXCEPT !.pc = pc, !.done = @ \cup {v}]
  OBVIOUS
<1>6. pc \in {"lock_global", "lock_next"} /\ pc \in Pinning
  BY <1>4 DEF Pinning
<1>7. new \in Call
  BY <1>2, <1>5, <1>6 DEF Call, Writing
<1>8. new.pc = pc /\ new.v = v
  BY <1>1, <1>2, <1>5 DEF Call
<1>9. Moves(c) /\ job'[c] = new
  BY <1>1, <1>2, <1>4, <1>5, <1>7, GotoMoves DEF LockMark
<1>10. StuckKept
  BY <1>2, <1>9, StuckIf DEF Writing, Pinning
<1>11. SameShape
  BY <1>3 DEF SameShape
<1>12. /\ \A d \in Cpus \ {c} : job'[d] = job[d] /\ job[d].pc \notin Writing \cup Reading
  BY <1>2, <1>9, OneWriter DEF Writing, Pinning, Moves
<1>13. UseOK'
  <2>1. ASSUME NEW d \in Cpus \ {c} PROVE Use(d)'
    <3>1. job[d].pc \in Mutexed => job[d].v \in Vmars
      BY CallArgs DEF Mutexed, Populating, Faulting, Vmars
    <3> QED
      BY <1>3, <1>12, <3>1, UseBystander DEF MemInv, UseOK, Linked
  <2>2. Use(c)'
    BY <1>3, <1>2, <1>4, <1>6, <1>8, <1>9 DEF Use, Making, Mutexed, Pinning
  <2> QED
    BY <2>1, <2>2 DEF UseOK
<1>14. DownOK'
  <2>1. \A d \in Cpus \ {c} : Down(d)'
    BY <1>2, <1>11, <1>12, DownSame DEF MemInv, DownOK
  <2>2. Down(c)'
    BY <1>6, <1>8, <1>9 DEF Down
  <2> QED
    BY <2>1, <2>2 DEF DownOK
<1>15. EntriesOK'
  <2>1. NoEntryWithoutMapping'
    BY <1>2, <1>11, MappingAtSame DEF MemInv, EntriesOK, NoEntryWithoutMapping
  <2>2. \A p \in VPages : pte'[p].state = "address" =>
          \E d \in Cpus : job'[d].pc = "free" /\ p \in vm'[job'[d].v].range
    BY <1>2, <1>9, <1>11, AddressesSame DEF MemInv, EntriesOK
  <2> QED
    BY <2>1, <2>2 DEF EntriesOK
<1>16. ResvOK'
  <2>1. Owed' = Owed
    BY <1>2, <1>6, <1>8, <1>9, <1>11, MappingAtSame, TornDownSame DEF Owed
  <2>2. Promised(job') = Promised(job)
    BY <1>2, <1>6, <1>8, <1>9, PromisedSame
  <2>3. ReservationsExact'
    BY <1>2, <2>1, <2>2, ResvForm, ResvFormNext DEF MemInv, ResvOK
  <2> QED
    BY <1>2, <2>3 DEF MemInv, ResvOK
<1>17. PinOK'
  <2> SUFFICES ASSUME NEW w \in Pool, Linked(w)', vm'[w].kind = "mapping"
               PROVE  Pin(w)'
    BY DEF PinOK
  <2>1. w \in Vmars /\ Linked(w) /\ vm[w].kind = "mapping"
    BY <1>3 DEF Vmars, Linked
  <2>2. CASE w = v
    <3>1. job'[c].pc = "lock_global" /\ job'[c].v = w
      BY <1>4, <1>8, <1>9, <2>1, <2>2
    <3> QED
      BY <1>3, <2>2, <3>1 DEF Pin, Pinned
  <2>3. CASE w # v
    <3>1. PopulatesWell(c)
      BY <1>6, <1>8, <1>9 DEF PopulatesWell
    <3>2. Pin(w)
      BY <2>1 DEF MemInv, PinOK
    <3> QED
      BY <1>2, <1>3, <1>9, <1>10, <2>1, <2>3, <3>1, <3>2, PinSame
  <2> QED
    BY <2>2, <2>3
<1>18. MemTypeOK' /\ RangesOK' /\ NoPanic'
  BY <1>2, <1>6, <1>8, <1>9, <1>11, RangesSame DEF MemInv, MemTypeOK, NoPanic, Moves
<1>19. MutexOK'
  BY <1>2, <1>6, <1>8, <1>9, MutexStays DEF MemInv, Holding
<1>20. FramesOK'
  BY <1>2 DEF MemInv, FramesOK, FramesConserved, Used
<1> QED
  BY <1>13, <1>14, <1>15, <1>16, <1>17, <1>18, <1>19, <1>20 DEF MemInv

(* virt_make_global, with the mutex: nobody populates the mapping. *)
LEMMA LockGlobalMem ==
  ASSUME ObjInv, ObjInv', MemInv, NEW c \in Cpus, LockGlobal(c)
  PROVE  MemInv'
<1>1. PICK v : v = job[c].v
  OBVIOUS
<1>2. /\ job[c].pc = "lock_global" /\ UNCHANGED <<vm, alive, rw, mutex>> /\ ObjTypeOK
      /\ v \in Pool /\ v \in Vmars /\ tables' = tables /\ free' = free /\ resv' = resv
  BY <1>1, CallArgs DEF LockGlobal, ObjInv, Pinning, Vmars
<1>3. CASE Stop(c) /\ UNCHANGED pte
  BY <1>2, <1>3, StopMem DEF memVars
<1>4. CASE /\ mutex[v] = 0
           /\ pte' = [p \in VPages |-> IF p \in vm[v].range /\ Present(p)
                                       THEN [pte[p] EXCEPT !.global = TRUE] ELSE pte[p]]
           /\ Become(c, "lock_next")
  <2>1. Moves(c) /\ job'[c].pc = "lock_next" /\ job'[c].v = v
    BY <1>1, <1>2, <1>4, BecomeMoves DEF Pcs, Writing, Pinning, SameFields
  <2>2. StuckKept /\ PopulatesWell(c)
    BY <1>2, <2>1, StuckIf DEF Writing, Pinning, PopulatesWell
  <2>3. SameShape /\ SameLocks
    BY <1>2 DEF SameShape, SameLocks
  <2>4. \A p \in VPages : pte[p] \in Entry
    BY DEF MemInv, MemTypeOK
  <2>5. \A p \in VPages : /\ pte'[p] \in Entry /\ pte'[p].state = pte[p].state
                          /\ pte'[p].frame = pte[p].frame
                          /\ pte'[p] # pte[p] => p \in vm[v].range /\ Present(p)
                          /\ p \in vm[v].range /\ Present(p) => pte'[p].global
    BY <1>4, <2>4, MadeGlobal
  <2>6. SameFrames
    BY <2>5, EmptyFields DEF SameFrames, Present, MemInv, FramesOK, Used
  <2>7. pte' \in [VPages -> Entry]
    BY <1>4, <2>5
  <2>8. MemTypeOK'
    BY <1>2, <2>7 DEF MemInv, MemTypeOK
  <2>9. MutexOK'
    BY <1>2, <2>1, MutexStays DEF MemInv, Holding
  <2>10. RangesOK' /\ NoPanic'
    BY <2>1, <2>3, RangesSame DEF MemInv, NoPanic, Moves
  <2>11. UseOK'
    <3>1. Use(c)'
      BY <2>1 DEF Use, Making, Mutexed
    <3> QED
      BY <2>1, <2>3, <3>1, UseSame DEF MemInv, UseOK, Moves
  <2>12. \A d \in Cpus \ {c} : job'[d] = job[d] /\ job[d].pc \notin {"free", "erase"}
    BY <1>2, <2>1, OneWriter DEF Writing, Pinning, Unmapping, Moves
  <2>13. DownOK'
    BY <2>1, <2>12 DEF DownOK, Down
  <2>14. FramesOK'
    BY <1>2, <2>6, FramesSame DEF MemInv
  <2>15. EntriesOK'
    <3>1. NoEntryWithoutMapping'
      BY <2>3, <2>6, MappingAtSame DEF MemInv, EntriesOK, NoEntryWithoutMapping, SameFrames
    <3>2. \A p \in VPages : pte'[p].state = "address" =>
            \E d \in Cpus : job'[d].pc = "free" /\ p \in vm'[job'[d].v].range
      BY <1>2, <2>1, <2>3, <2>5, AddressesSame DEF MemInv, EntriesOK
    <3> QED
      BY <3>1, <3>2 DEF EntriesOK
  <2>16. ResvOK'
    <3>1. Owed' = Owed
      BY <1>2, <2>1, <2>3, <2>6, MappingAtSame, TornDownSame DEF Owed, SameFrames
    <3>2. Promised(job') = Promised(job)
      BY <1>2, <2>1, PromisedSame
    <3>3. ReservationsExact'
      BY <1>2, <3>1, <3>2, ResvForm, ResvFormNext DEF MemInv, ResvOK
    <3> QED
      BY <1>2, <3>3 DEF MemInv, ResvOK
  <2>17. Linked(v) /\ vm[v].kind = "mapping" /\ vm[v].locked
    BY <1>1, <1>2 DEF MemInv, UseOK, Use, ObjInv, WorkOK, Work, Pinning
  <2>18. PinOK'
    <3> SUFFICES ASSUME NEW w \in Pool, Linked(w)', vm'[w].kind = "mapping"
                 PROVE  Pin(w)'
      BY DEF PinOK
    <3>1. Linked(w) /\ vm[w].kind = "mapping" /\ vm'[w] = vm[w] /\ vm[w].range \subseteq VPages
      BY <1>2 DEF Linked, ObjTypeOK, Object, Vmars
    <3>2. CASE w = v
      <4>1. \A d \in Cpus : job'[d].pc \in {"populate", "fault"} => job'[d].v # v
        BY <1>4, <2>1, <2>12 DEF MemInv, MutexOK, Holding
      <4>2. \A p \in vm'[w].range : Present(p)' => pte'[p].global
        BY <2>5, <3>1, <3>2 DEF Present
      <4> QED
        BY <2>17, <3>1, <3>2, <4>1, <4>2 DEF Pin, Pinned
    <3>3. CASE w # v
      <4>1. Pin(w)
        BY <3>1 DEF MemInv, PinOK
      <4>2. \A p \in vm[w].range : p \notin vm[v].range
        BY <1>2, <2>17, <3>1, <3>3, MappingsApart DEF MemInv
      <4>3. \A p \in vm[w].range : pte'[p] = pte[p]
        BY <2>5, <3>1, <4>2
      <4> QED
        BY <1>1, <2>1, <2>2, <3>1, <3>3, <4>1, <4>3, PinSame
    <3> QED
      BY <3>2, <3>3
  <2> QED
    BY <2>8, <2>9, <2>10, <2>11, <2>13, <2>14, <2>15, <2>16, <2>18 DEF MemInv
<1> QED
  BY <1>1, <1>3, <1>4 DEF LockGlobal

-----------------------------------------------------------------------------
(* virt_populate *)

LEMMA PromisedNat ==
  ASSUME ObjInv
  PROVE  Promised(job) \in Nat
<1>1. CASE {d \in Cpus : job[d].pc = "tables"} = {}
  BY <1>1 DEF Promised
<1>2. CASE {d \in Cpus : job[d].pc = "tables"} # {}
  <2>1. PICK e : e = CHOOSE d \in {d \in Cpus : job[d].pc = "tables"} : TRUE
    OBVIOUS
  <2>2. e \in Cpus
    BY <1>2, <2>1
  <2>3. Promised(job) = job[e].n
    BY <1>2, <2>1 DEF Promised
  <2> QED
    BY <2>2, <2>3 DEF ObjInv, ObjTypeOK, Call
<1> QED
  BY <1>1, <1>2

LEMMA FreeFinite ==
  ASSUME MemTypeOK
  PROVE  /\ IsFiniteSet(free) /\ Cardinality(free) \in Nat /\ IsFiniteSet(tables)
         /\ Cardinality(tables) \in Nat
<1>1. IsFiniteSet(free) /\ IsFiniteSet(tables)
  BY VmarAssumption, FS_Subset DEF MemTypeOK
<1> QED
  BY <1>1, FS_CardinalityType

(* The holder of a mapping's mutex is the only one that changes its pages. *)
LEMMA HolderAlone ==
  ASSUME ObjInv, MemInv, NEW c \in Cpus, job[c].pc \in {"populate", "fault"},
         NEW d \in Cpus, job[d].pc \in {"free", "erase"}
  PROVE  job[d].v # job[c].v
BY DEF MemInv, MutexOK, Holding

(* A page that is not present, under the mutex of its mapping, was never   *)
(* populated, and one reserved page is left for it.                        *)
LEMMA PageBacked ==
  ASSUME ObjInv, MemInv, NEW c \in Cpus, job[c].pc \in {"populate", "fault"},
         NEW p \in job[c].todo, ~Present(p)
  PROVE  pte[p] = Empty /\ p \in Owed /\ resv >= 1 /\ free # {}
<1>1. PICK v : v = job[c].v
  OBVIOUS
<1>2. /\ v \in Pool /\ Linked(v) /\ vm[v].kind = "mapping" /\ p \in vm[v].range /\ p \in VPages
  <2>1. v \in Pool /\ Linked(v) /\ vm[v].kind = "mapping" /\ p \in vm[v].range
    BY <1>1, CallArgs DEF Populating, Faulting, MemInv, UseOK, Use, Mutexed
  <2> QED
    BY <2>1 DEF ObjInv, ObjTypeOK, Object, Vmars
<1>3. pte[p].state # "address"
  <2> SUFFICES ASSUME pte[p].state = "address" PROVE FALSE
    OBVIOUS
  <2>1. PICK d \in Cpus : job[d].pc = "free" /\ p \in vm[job[d].v].range
    BY <1>2 DEF MemInv, EntriesOK
  <2>2. PICK w : w = job[d].v
    OBVIOUS
  <2>3. w \in Pool /\ Linked(w) /\ vm[w].kind = "mapping" /\ p \in vm[w].range
    BY <2>1, <2>2, CallArgs DEF Unmapping, ObjInv, WorkOK, Work
  <2>4. w = v
    BY <1>2, <2>3, MappingsApart DEF MemInv
  <2> QED
    BY <1>1, <2>1, <2>2, <2>4, HolderAlone
<1>4. pte[p] = Empty
  BY <1>2, <1>3 DEF Present, MemInv, MemTypeOK, FramesOK, Used, Entry
<1>5. v \notin TornDown
  BY <1>1, HolderAlone DEF TornDown
<1>6. p \in Owed
  BY <1>2, <1>4, <1>5 DEF Owed, MappingAt
<1>7. IsFiniteSet(Owed) /\ Cardinality(Owed) \in Nat /\ Cardinality(Owed) # 0
  <2>1. IsFiniteSet(Owed) /\ Cardinality(Owed) \in Nat
    BY OwedFinite DEF Owed
  <2> QED
    BY <1>6, <2>1, FS_EmptySet
<1>8. resv >= 1
  BY <1>7, PromisedNat, ResvForm DEF MemInv, ResvOK
<1>9. Cardinality(free) # 0
  BY <1>8, FreeFinite DEF MemInv, ResvOK, MemTypeOK
<1> QED
  BY <1>4, <1>6, <1>8, <1>9, FS_EmptySet

(* A page is present already, or takes one frame and one reservation. *)
LEMMA PopulatePageMem ==
  ASSUME ObjInv, ObjInv', MemInv, NEW c \in Cpus, job[c].pc \in {"populate", "fault"},
         NEW p \in job[c].todo, PopulatePage(c, p), UNCHANGED <<vm, alive, held, rw, mutex>>
  PROVE  MemInv'
<1>1. PICK v : v = job[c].v
  OBVIOUS
<1>2. /\ v \in Pool /\ v \in Vmars /\ Linked(v) /\ vm[v].kind = "mapping" /\ job[c].todo \subseteq vm[v].range
      /\ job[c].global => vm[v].locked
  BY <1>1, CallArgs DEF Populating, Faulting, MemInv, UseOK, Use, Mutexed, Vmars
<1>3. p \in vm[v].range /\ p \in VPages /\ ObjTypeOK /\ job[c] \in Call
  BY <1>2 DEF ObjInv, ObjTypeOK, Object
<1>4. PICK new : new = [job[c] EXCEPT !.todo = @ \ {p}]
  OBVIOUS
<1>5. new \in Call
  BY <1>3, <1>4 DEF Call
<1>6. /\ new.pc = job[c].pc /\ new.v = v /\ new.todo = job[c].todo \ {p} /\ new.global = job[c].global
  BY <1>1, <1>3, <1>4 DEF Call
<1>7. Goto(c, new)
  BY <1>4, PageBacked DEF PopulatePage
<1>8. Moves(c) /\ job'[c] = new
  BY <1>3, <1>5, <1>7, GotoMoves
<1>9. StuckKept
  BY <1>6, <1>8, StuckIf DEF Writing, Making, Pinning, Unmapping
<1>10. Use(c)'
  BY <1>2, <1>6, <1>8 DEF Use, Making, Mutexed, Linked
<1>11. PopulatesWell(c)
  BY <1>1, <1>6, <1>8 DEF PopulatesWell
<1>12. CASE Present(p) /\ UNCHANGED memVars
  BY <1>1, <1>6, <1>8, <1>9, <1>10, <1>11, <1>12, MemMoves DEF Holding
<1>13. ASSUME ~Present(p), NEW f \in free, free' = free \ {f},
              pte' = [pte EXCEPT ![p] = [state |-> "present", frame |-> f,
                                         global |-> job[c].global]],
              resv' = resv - 1, tables' = tables
       PROVE  MemInv'
  <2>1. PICK e : e = [state |-> "present", frame |-> f, global |-> job[c].global]
    OBVIOUS
  <2>2. e \in Entry /\ e.state = "present" /\ e.frame = f /\ e.global = job[c].global /\ f \in Frames
    BY <1>3, <1>13, <2>1 DEF Entry, Call, MemInv, MemTypeOK
  <2>3. e # Empty
    BY <2>2, EmptyFields
  <2>4. /\ pte' \in [VPages -> Entry] /\ pte'[p] = e /\ \A q \in VPages \ {p} : pte'[q] = pte[q]
    BY <1>3, <1>13, <2>1, <2>2 DEF MemInv, MemTypeOK
  <2>5. pte[p] = Empty /\ p \in Owed
    BY <1>13, PageBacked
  <2>6. MemTypeOK'
    BY <1>13, <2>4 DEF MemInv, MemTypeOK
  <2>7. SameShape /\ SameLocks
    BY DEF SameShape, SameLocks
  <2>8. MutexOK'
    BY <1>1, <1>6, <1>8, MutexStays DEF MemInv, Holding
  <2>9. RangesOK' /\ NoPanic'
    BY <1>6, <1>8, <2>7, RangesSame DEF MemInv, NoPanic, Moves
  <2>10. UseOK'
    BY <1>8, <1>10, <2>7, UseSame DEF MemInv, UseOK, Moves
  <2>11. DownOK'
    <3>1. ASSUME NEW d \in Cpus \ {c} PROVE Down(d)'
      <4>1. ASSUME job[d].pc \in {"free", "erase"}, vm[job[d].v].kind = "mapping"
            PROVE  \A q \in vm[job[d].v].range : pte'[q] = pte[q]
        <5>1. PICK w : w = job[d].v
          OBVIOUS
        <5>2. w \in Pool /\ w \in Vmars /\ Linked(w) /\ vm[w].kind = "mapping" /\ vm[w].range \subseteq VPages
          BY <1>3, <4>1, <5>1, CallArgs DEF Unmapping, ObjInv, WorkOK, Work, ObjTypeOK, Object, Vmars
        <5>3. w # v
          BY <1>1, <4>1, <5>1, HolderAlone
        <5>4. p \notin vm[w].range
          BY <1>2, <1>3, <5>2, <5>3, MappingsApart DEF MemInv
        <5> QED
          BY <2>4, <5>1, <5>2, <5>4
      <4> QED
        BY <1>8, <2>7, <4>1, DownSame DEF MemInv, DownOK, Moves
    <3>2. Down(c)'
      BY <1>6, <1>8 DEF Down
    <3> QED
      BY <3>1, <3>2 DEF DownOK
  <2>12. FramesOK'
    <3>1. Used' = Used \cup {p} /\ p \notin Used /\ Used \subseteq VPages
      BY <1>3, <2>3, <2>4, <2>5 DEF Used
    <3>2. IsFiniteSet(Used) /\ Cardinality(Used) \in Nat
      BY <3>1, OwedFinite
    <3>3. Cardinality(Used') = Cardinality(Used) + 1
      BY <3>1, <3>2, FS_AddElement
    <3>4. IsFiniteSet(free) /\ Cardinality(free) \in Nat /\ Cardinality(tables) \in Nat
      BY FreeFinite DEF MemInv
    <3>5. Cardinality(free') = Cardinality(free) - 1
      BY <1>13, <3>4, FS_RemoveElement
    <3>6. \A q \in Used : q # p /\ pte'[q] = pte[q] /\ pte[q].frame \notin free
      BY <2>4, <3>1 DEF MemInv, FramesOK, FramesConserved, Used
    <3>7. \A q \in Used' : pte'[q].frame \in Frames /\ pte'[q].state # "zero" /\ pte'[q].frame \notin free'
      BY <1>13, <2>2, <2>4, <3>1, <3>6 DEF MemInv, FramesOK
    <3>8. \A q, r \in Used' : q # r => pte'[q].frame # pte'[r].frame
      <4>1. \A q \in Used : pte'[q].frame # f
        BY <1>13, <3>6
      <4>2. \A q, r \in Used : q # r => pte'[q].frame # pte'[r].frame
        BY <3>6 DEF MemInv, FramesOK, FramesConserved, Used
      <4> QED
        BY <2>2, <2>4, <3>1, <4>1, <4>2
    <3>9. Cardinality(free) + Cardinality(Used) + Cardinality(tables) = Cardinality(Frames)
      BY DEF MemInv, FramesOK, FramesConserved, Used
    <3>10. Cardinality(free') + Cardinality(Used') + Cardinality(tables') = Cardinality(Frames)
      BY <1>13, <3>2, <3>3, <3>4, <3>5, <3>9
    <3>11. FramesConserved'
      BY <3>7, <3>8, <3>10 DEF FramesConserved, Used
    <3> QED
      BY <3>7, <3>11 DEF FramesOK
  <2>13. EntriesOK'
    <3>1. v \in MappingAt(p)
      BY <1>2, <1>3 DEF MappingAt
    <3>2. NoEntryWithoutMapping'
      BY <2>4, <2>7, <3>1, MappingAtSame DEF MemInv, EntriesOK, NoEntryWithoutMapping
    <3>3. \A q \in VPages : pte'[q].state = "address" =>
            \E d \in Cpus : job'[d].pc = "free" /\ q \in vm'[job'[d].v].range
      BY <1>8, <2>2, <2>4, <2>7, AddressesSame DEF MemInv, EntriesOK
    <3> QED
      BY <3>2, <3>3 DEF EntriesOK
  <2>14. ResvOK'
    <3>1. Owed' = Owed \ {p}
      <4>1. TornDown' = TornDown
        BY <1>6, <1>8, TornDownSame
      <4> QED
        BY <1>3, <2>3, <2>4, <2>7, <4>1, MappingAtSame DEF Owed
    <3>2. IsFiniteSet(Owed) /\ Cardinality(Owed) \in Nat
      BY OwedFinite DEF Owed
    <3>3. Cardinality(Owed') = Cardinality(Owed) - 1
      BY <2>5, <3>1, <3>2, FS_RemoveElement
    <3>4. Promised(job') = Promised(job) /\ Promised(job) \in Nat
      BY <1>6, <1>8, PromisedSame, PromisedNat
    <3>5. ReservationsExact'
      BY <1>13, <3>2, <3>3, <3>4, ResvForm, ResvFormNext DEF MemInv, ResvOK
    <3>6. IsFiniteSet(free) /\ Cardinality(free) \in Nat
      BY FreeFinite DEF MemInv
    <3>7. Cardinality(free') = Cardinality(free) - 1
      BY <1>13, <3>6, FS_RemoveElement
    <3> QED
      BY <1>13, <3>5, <3>6, <3>7 DEF MemInv, ResvOK, MemTypeOK
  <2>15. PinOK'
    <3> SUFFICES ASSUME NEW w \in Pool, Linked(w)', vm'[w].kind = "mapping"
                 PROVE  Pin(w)'
      BY DEF PinOK
    <3>1. Linked(w) /\ vm[w].kind = "mapping" /\ vm[w].range \subseteq VPages
      BY <1>3 DEF Linked, ObjTypeOK, Object, Vmars
    <3>2. Pin(w)
      BY <3>1 DEF MemInv, PinOK
    <3>3. CASE w # v
      <4>1. p \notin vm[w].range
        BY <1>2, <1>3, <3>1, <3>3, MappingsApart DEF MemInv
      <4>2. \A q \in vm[w].range : pte'[q] = pte[q]
        BY <2>4, <3>1, <4>1
      <4> QED
        BY <1>1, <1>8, <1>9, <1>11, <3>2, <4>2, PinSame
    <3>4. CASE w = v /\ ~vm[v].locked
      <4>1. \A q \in vm[v].range : ~pte'[q].global
        BY <1>2, <2>2, <2>4, <3>1, <3>2, <3>4 DEF Pin
      <4> QED
        BY <3>4, <4>1 DEF Pin
    <3>5. CASE w = v /\ vm[v].locked
      <4>1. CASE Stuck
        BY <1>9, <3>5, <4>1 DEF Pin, Pinned, Stuck, StuckKept
      <4>2. ASSUME NEW d \in Cpus, job[d].pc = "lock_global", job[d].v = v PROVE Pin(v)'
        <5>1. job'[d] = job[d]
          BY <1>8, <4>2 DEF Moves
        <5> QED
          BY <3>5, <4>2, <5>1 DEF Pin, Pinned
      <4>3. ASSUME \A q \in vm[v].range : Present(q) => pte[q].global,
                   \A d \in Cpus : job[d].pc \in {"populate", "fault"} /\ job[d].v = v => job[d].global
            PROVE  Pin(v)'
        <5>1. job[c].global
          BY <1>1, <4>3
        <5>2. \A q \in vm'[v].range : Present(q)' => pte'[q].global
          BY <2>2, <2>4, <3>1, <3>5, <4>3, <5>1 DEF Present
        <5>3. \A d \in Cpus : job'[d].pc \in {"populate", "fault"} /\ job'[d].v = v => job'[d].global
          BY <1>6, <1>8, <4>3, <5>1 DEF Moves
        <5> QED
          BY <3>5, <5>2, <5>3 DEF Pin, Pinned
      <4> QED
        BY <3>2, <3>5, <4>1, <4>2, <4>3 DEF Pin, Pinned
    <3> QED
      BY <3>3, <3>4, <3>5
  <2> QED
    BY <2>6, <2>8, <2>9, <2>10, <2>11, <2>12, <2>13, <2>14, <2>15 DEF MemInv
<1> QED
  BY <1>12, <1>13, PageBacked DEF PopulatePage

-----------------------------------------------------------------------------
(* vmar_unmap *)

(* Distinct values are as many as their arguments. *)
LEMMA ImageCount ==
  ASSUME NEW S, IsFiniteSet(S), NEW f, \A x, y \in S : f[x] = f[y] => x = y
  PROVE  IsFiniteSet({f[x] : x \in S}) /\ Cardinality({f[x] : x \in S}) = Cardinality(S)
<1> DEFINE T == {f[x] : x \in S}
           g == [x \in S |-> f[x]]
<1>1. g \in [S -> T] /\ (\A x, y \in S : g[x] = g[y] => x = y) /\ \A t \in T : \E x \in S : g[x] = t
  OBVIOUS
<1>2. g \in Bijection(S, T)
  BY <1>1 DEF Bijection, Injection, Surjection, IsInjective
<1>3. ExistsBijection(S, T)
  BY <1>2 DEF ExistsBijection
<1> QED
  BY <1>3, FS_Bijection

LEMMA CountLess ==
  ASSUME NEW S, NEW T, IsFiniteSet(S), T \subseteq S
  PROVE  Cardinality(S \ T) = Cardinality(S) - Cardinality(T)
<1>1. S \cap T = T
  OBVIOUS
<1> QED
  BY <1>1, FS_Difference

LEMMA CountMore ==
  ASSUME NEW S, NEW T, IsFiniteSet(S), IsFiniteSet(T), T \cap S = {}
  PROVE  Cardinality(S \cup T) = Cardinality(S) + Cardinality(T)
<1>1. S \cap T = {}
  OBVIOUS
<1>2. Cardinality(S \cup T) = Cardinality(S) + Cardinality(T) - Cardinality(S \cap T)
  BY FS_Union
<1>3. Cardinality(S \cap T) = 0
  BY <1>1, FS_EmptySet
<1>4. Cardinality(S) \in Nat /\ Cardinality(T) \in Nat
  BY FS_CardinalityType
<1> QED
  BY <1>2, <1>3, <1>4

(* What vmar_unmap works on is linked and not pinned. *)
LEMMA UnmapperFacts ==
  ASSUME ObjInv, MemInv, NEW c \in Cpus, job[c].pc \in {"unmap", "free", "erase"},
         NEW v, v = job[c].v
  PROVE  /\ v \in Pool /\ v \in Vmars /\ Linked(v) /\ ~vm[v].unmapped /\ ~vm[v].locked
         /\ vm[v].range \subseteq VPages /\ job[c] \in Call /\ job[c].top \in Pool
         /\ Linked(job[c].top) /\ Unpinned(job[c].top)
         /\ \A d \in Cpus \ {c} : job[d].pc \notin Writing \cup Reading
<1>1. /\ v \in Pool /\ v \in Vmars /\ Linked(v) /\ Below(v, job[c].top) /\ job[c].top \in Pool
      /\ job[c] \in Call /\ job[c].pc \in Writing /\ job[c].top \in Vmars
  BY WorkerFacts DEF Work, Unmapping, Vmars
<1>2. Linked(job[c].top) /\ Unpinned(job[c].top)
  BY DEF MemInv, UseOK, Use
<1>3. vm[v].range \subseteq vm[job[c].top].range
  BY <1>1, BelowRange DEF MemInv
<1>4. ~vm[v].locked
  BY <1>1, <1>2, <1>3 DEF Unpinned
<1>5. ~vm[v].unmapped /\ vm[v].range \subseteq VPages
  BY <1>1, LinkedFacts DEF ObjInv, ObjTypeOK, Object
<1> QED
  BY <1>1, <1>2, <1>4, <1>5, OneWriter

(* A region without children is ready to be unlinked: no mapping changes. *)
LEMMA UnmapRegionMem ==
  ASSUME ObjInv, ObjInv', MemInv, NEW c \in Cpus, job[c].pc = "unmap",
         UNCHANGED <<vm, alive, rw, mutex, memVars>>, vm[job[c].v].kind = "region", Become(c, "erase")
  PROVE  MemInv'
<1>1. PICK v : v = job[c].v
  OBVIOUS
<1>2. /\ v \in Pool /\ Linked(v) /\ Linked(job[c].top) /\ Unpinned(job[c].top) /\ vm[v].kind = "region"
      /\ \A d \in Cpus \ {c} : job[d].pc \notin Writing \cup Reading
  BY <1>1, UnmapperFacts
<1>3. Moves(c) /\ job'[c].pc = "erase" /\ job'[c].v = v /\ job'[c].top = job[c].top
  BY <1>1, BecomeMoves DEF ObjInv, Pcs, Writing, Unmapping, SameFields
<1>4. SameShape /\ SameLocks /\ StuckKept /\ PopulatesWell(c)
  BY <1>3, StuckIf DEF SameShape, SameLocks, Writing, Unmapping, PopulatesWell
<1>5. pte' = pte /\ tables' = tables /\ free' = free /\ resv' = resv
  BY DEF memVars
<1>6. MemTypeOK' /\ RangesOK' /\ NoPanic' /\ FramesOK'
  BY <1>3, <1>4, <1>5, RangesSame
  DEF MemInv, MemTypeOK, NoPanic, Moves, FramesOK, FramesConserved, Used
<1>7. \A d \in Cpus : job[d].pc \in Holding => vm[job[d].v].kind = "mapping"
  BY DEF MemInv, UseOK, Use, Mutexed, Holding, ObjInv, WorkOK, Work
<1>8. MutexOK'
  <2>1. \A d \in Cpus \ {c} : job'[d] = job[d] /\ job[d].pc # "erase"
    BY <1>2, <1>3 DEF Moves, Writing, Unmapping
  <2>2. \A d \in Cpus : job'[d].pc \in Holding => job'[d] = job[d] /\ job[d].pc \in Holding /\ job[d].v # v
    BY <1>2, <1>3, <1>7, <2>1 DEF Holding
  <2> QED
    BY <1>3, <2>1, <2>2 DEF MemInv, MutexOK
<1>9. UseOK'
  <2>1. Use(c)'
    BY <1>2, <1>3 DEF Use, Making, Mutexed, Linked, Unpinned
  <2> QED
    BY <1>3, <1>4, <2>1, UseSame DEF MemInv, UseOK, Moves
<1>10. DownOK'
  <2>1. Down(c)'
    BY <1>2, <1>3 DEF Down
  <2> QED
    BY <1>3, <1>4, <1>5, <2>1, DownSame DEF MemInv, DownOK, Moves
<1>11. EntriesOK'
  <2>1. NoEntryWithoutMapping'
    BY <1>4, <1>5, MappingAtSame DEF MemInv, EntriesOK, NoEntryWithoutMapping
  <2>2. \A p \in VPages : pte'[p].state = "address" =>
          \E d \in Cpus : job'[d].pc = "free" /\ p \in vm'[job'[d].v].range
    BY <1>3, <1>4, <1>5, AddressesSame DEF MemInv, EntriesOK
  <2> QED
    BY <2>1, <2>2 DEF EntriesOK
<1>12. ResvOK'
  <2>1. TornDown' = TornDown \cup {v}
    BY <1>3 DEF TornDown, Moves
  <2>2. \A p : MappingAt(p)' = MappingAt(p) /\ v \notin MappingAt(p)
    BY <1>2, <1>4, MappingAtSame DEF MappingAt
  <2>3. Owed' = Owed
    BY <1>5, <2>1, <2>2 DEF Owed
  <2>4. Promised(job') = Promised(job)
    BY <1>3, PromisedSame
  <2>5. ReservationsExact'
    BY <1>5, <2>3, <2>4, ResvForm, ResvFormNext DEF MemInv, ResvOK
  <2> QED
    BY <1>5, <2>5 DEF MemInv, ResvOK
<1>13. PinOK'
  <2> SUFFICES ASSUME NEW w \in Pool, Linked(w)', vm'[w].kind = "mapping" PROVE Pin(w)'
    BY DEF PinOK
  <2>1. Linked(w) /\ vm[w].kind = "mapping" /\ Pin(w)
    BY DEF Linked, MemInv, PinOK
  <2> QED
    BY <1>3, <1>4, <1>5, <2>1, PinSame
<1> QED
  BY <1>6, <1>8, <1>9, <1>10, <1>11, <1>12, <1>13 DEF MemInv

(* The first pass of virt_free: entries are cut off, and the reservation   *)
(* of the pages that were never populated goes back.                       *)
LEMMA UnmapPassMem ==
  ASSUME ObjInv, ObjInv', MemInv, NEW c \in Cpus, job[c].pc = "unmap", NEW v, v = job[c].v,
         UNCHANGED <<vm, alive, rw, tables, free>>, vm[v].kind = "mapping", mutex[v] = 0,
         mutex' = [mutex EXCEPT ![v] = 1],
         pte' = [p \in VPages |-> IF p \in vm[v].range /\ pte[p] # Empty
                                  THEN [pte[p] EXCEPT !.state = "address"] ELSE pte[p]],
         resv' = resv - Cardinality(Unpopulated(vm[v].range)), Become(c, "free")
  PROVE  MemInv'
<1>1. /\ v \in Pool /\ v \in Vmars /\ Linked(v) /\ ~vm[v].locked /\ vm[v].range \subseteq VPages
      /\ Linked(job[c].top) /\ Unpinned(job[c].top)
      /\ \A d \in Cpus \ {c} : job[d].pc \notin Writing \cup Reading
  BY UnmapperFacts
<1>2. Moves(c) /\ job'[c].pc = "free" /\ job'[c].v = v /\ job'[c].top = job[c].top
  BY BecomeMoves DEF ObjInv, Pcs, Writing, Unmapping, SameFields
<1>3. SameShape /\ SameLocks /\ StuckKept /\ PopulatesWell(c)
  BY <1>2, StuckIf DEF SameShape, SameLocks, Writing, Unmapping, PopulatesWell
<1>4. \A d \in Cpus \ {c} : job'[d] = job[d] /\ job[d].pc \notin {"free", "erase"}
  BY <1>1, <1>2 DEF Moves, Writing, Unmapping
<1>5. \A p \in VPages : pte[p] \in Entry
  BY DEF MemInv, MemTypeOK
<1>6. \A p \in VPages :
        /\ pte'[p] \in Entry /\ pte'[p].frame = pte[p].frame /\ pte'[p].global = pte[p].global
        /\ p \in vm[v].range /\ pte[p] # Empty => pte'[p].state = "address"
        /\ p \notin vm[v].range \/ pte[p] = Empty => pte'[p] = pte[p]
  BY <1>5, MadeAddress
<1>7. SameFrames
  BY <1>6, EmptyFields DEF SameFrames, MemInv, FramesOK, Used
<1>8. \A p \in vm[v].range : ~pte[p].global
  BY <1>1 DEF MemInv, PinOK, Pin
<1>9. MutexOK' /\ mutex' \in [Vmars -> {0, 1}]
  BY <1>1, <1>2, <1>4, MutexTaken DEF MemInv
<1>10. resv \in Int /\ resv' \in Int /\ resv' <= resv
  <2>1. Cardinality(Unpopulated(vm[v].range)) \in Nat
    BY <1>1, OwedFinite DEF Unpopulated
  <2> QED
    BY <2>1 DEF MemInv, MemTypeOK
<1>11. MemTypeOK'
  <2>1. pte' \in [VPages -> Entry]
    BY <1>6
  <2> QED
    BY <1>9, <1>10, <2>1 DEF MemInv, MemTypeOK
<1>12. RangesOK' /\ NoPanic'
  BY <1>2, <1>3, RangesSame DEF MemInv, NoPanic, Moves
<1>13. UseOK'
  <2>1. Use(c)'
    BY <1>1, <1>2 DEF Use, Making, Mutexed, Linked, Unpinned
  <2> QED
    BY <1>2, <1>3, <2>1, UseSame DEF MemInv, UseOK, Moves
<1>14. DownOK'
  <2>1. \A p \in vm'[v].range : ~Present(p)' /\ ~pte'[p].global
    BY <1>1, <1>6, <1>8, EmptyFields DEF Present
  <2>2. Down(c)'
    BY <1>2, <2>1 DEF Down
  <2>3. \A d \in Cpus \ {c} : Down(d)'
    BY <1>4 DEF Down
  <2> QED
    BY <2>2, <2>3 DEF DownOK
<1>15. FramesOK'
  BY <1>7, FramesSame DEF MemInv
<1>16. EntriesOK'
  <2>1. NoEntryWithoutMapping'
    BY <1>3, <1>7, MappingAtSame DEF MemInv, EntriesOK, NoEntryWithoutMapping, SameFrames
  <2>2. ASSUME NEW p \in VPages, pte'[p].state = "address"
        PROVE  \E d \in Cpus : job'[d].pc = "free" /\ p \in vm'[job'[d].v].range
    <3>1. CASE p \in vm[v].range
      BY <1>2, <3>1
    <3>2. CASE p \notin vm[v].range
      <4>1. pte[p].state = "address"
        BY <1>6, <2>2, <3>2
      <4> QED
        BY <1>2, <1>3, <4>1, AddressesSame DEF MemInv, EntriesOK
    <3> QED
      BY <3>1, <3>2
  <2> QED
    BY <2>1, <2>2 DEF EntriesOK
<1>17. ResvOK'
  <2>1. TornDown = {} /\ TornDown' = {v}
    BY <1>2, <1>4 DEF TornDown
  <2>2. \A p : MappingAt(p)' = MappingAt(p)
    BY <1>3, MappingAtSame
  <2>3. \A p \in vm[v].range : MappingAt(p) = {v}
    BY <1>1, MappingsApart DEF MappingAt, MemInv
  <2>4. \A p : p \notin vm[v].range => v \notin MappingAt(p)
    BY DEF MappingAt
  <2>5. \A p \in VPages : pte'[p] = Empty <=> pte[p] = Empty
    BY <1>7 DEF SameFrames
  <2>6. Unpopulated(vm[v].range) \subseteq Owed
    BY <1>1, <2>1, <2>3 DEF Unpopulated, Owed
  <2>7. Owed' = Owed \ Unpopulated(vm[v].range)
    <3>1. \A p \in VPages : p \in vm[v].range => p \notin Owed' /\ p \notin Owed \ Unpopulated(vm[v].range)
      BY <2>1, <2>2, <2>3 DEF Owed, Unpopulated
    <3>2. \A p \in VPages : p \notin vm[v].range =>
                (p \in Owed' <=> p \in Owed \ Unpopulated(vm[v].range))
      BY <2>1, <2>2, <2>4, <2>5 DEF Owed, Unpopulated
    <3>3. Owed' \subseteq VPages /\ Owed \subseteq VPages
      BY DEF Owed
    <3> QED
      BY <3>1, <3>2, <3>3
  <2>8. IsFiniteSet(Owed) /\ Cardinality(Owed) \in Nat
    BY OwedFinite DEF Owed
  <2>10. Cardinality(Owed') = Cardinality(Owed) - Cardinality(Unpopulated(vm[v].range))
    <3>1. IsFiniteSet(Owed) /\ Unpopulated(vm[v].range) \subseteq Owed
      BY <2>6, <2>8
    <3> QED
      BY <2>7, <3>1, CountLess
  <2>11. Promised(job') = Promised(job) /\ Promised(job) \in Nat
    BY <1>2, PromisedSame, PromisedNat
  <2>12. Cardinality(Unpopulated(vm[v].range)) \in Nat
    BY <1>1, OwedFinite DEF Unpopulated
  <2>13. ReservationsExact'
    BY <2>8, <2>10, <2>11, <2>12, ResvForm, ResvFormNext DEF MemInv, ResvOK
  <2> QED
    BY <1>10, <2>13, FreeFinite DEF MemInv, ResvOK
<1>18. PinOK'
  <2> SUFFICES ASSUME NEW w \in Pool, Linked(w)', vm'[w].kind = "mapping" PROVE Pin(w)'
    BY DEF PinOK
  <2>1. Linked(w) /\ vm[w].kind = "mapping" /\ Pin(w) /\ vm[w].range \subseteq VPages
    BY DEF Linked, MemInv, PinOK, ObjInv, ObjTypeOK, Object, Vmars
  <2>2. CASE w = v
    BY <1>1, <1>6, <1>8, <2>2 DEF Pin
  <2>3. CASE w # v
    <3>1. \A p \in vm[w].range : p \notin vm[v].range
      BY <1>1, <2>1, <2>3, MappingsApart DEF MemInv
    <3>2. \A p \in vm[w].range : pte'[p] = pte[p]
      BY <1>6, <2>1, <3>1
    <3> QED
      BY <1>2, <1>3, <2>1, <3>2, PinSame
  <2> QED
    BY <2>2, <2>3
<1> QED
  BY <1>9, <1>11, <1>12, <1>13, <1>14, <1>15, <1>16, <1>17, <1>18 DEF MemInv

(* vmar_unmap_internal: its assertions hold, as nothing under it is pinned. *)
LEMMA UnmapMem ==
  ASSUME ObjInv, ObjInv', MemInv, NEW c \in Cpus, Unmap(c)
  PROVE  MemInv'
<1>1. PICK v : v = job[c].v
  OBVIOUS
<1>2. job[c].pc = "unmap" /\ UNCHANGED <<vm, alive, held, rw, tables, free>> /\ ObjTypeOK
  BY DEF Unmap, ObjInv
<1>3. /\ v \in Pool /\ v \in Vmars /\ Linked(v) /\ ~vm[v].unmapped /\ ~vm[v].locked
      /\ vm[v].range \subseteq VPages /\ job[c] \in Call
      /\ Linked(job[c].top) /\ Unpinned(job[c].top)
  BY <1>1, <1>2, UnmapperFacts
<1>4. ASSUME NEW w \in Children(v), Goto(c, [job[c] EXCEPT !.v = w]), UNCHANGED <<mutex, pte, resv>>
      PROVE  MemInv'
  <2>1. PICK new : new = [job[c] EXCEPT !.v = w]
    OBVIOUS
  <2>2. new \in Call
    BY <1>3, <2>1 DEF Call, Children
  <2>3. new.pc = "unmap" /\ new.top = job[c].top
    BY <1>2, <1>3, <2>1 DEF Call
  <2>4. Moves(c) /\ job'[c] = new
    BY <1>2, <1>4, <2>1, <2>2, GotoMoves
  <2>5. StuckKept
    BY <1>2, <2>4, StuckIf DEF Writing, Unmapping
  <2>6. Use(c)' /\ PopulatesWell(c)
    BY <1>2, <1>3, <2>3, <2>4 DEF Use, Making, Mutexed, Linked, Unpinned, PopulatesWell
  <2> QED
    BY <1>2, <1>4, <2>3, <2>4, <2>5, <2>6, MemMoves DEF Holding, memVars
<1>5. CASE vm[v].kind = "region" /\ Become(c, "erase") /\ UNCHANGED <<mutex, pte, resv>>
  BY <1>1, <1>2, <1>5, UnmapRegionMem DEF memVars
<1>6. CASE Stop(c) /\ UNCHANGED <<mutex, pte, resv>>
  BY <1>2, <1>6, StopMem DEF memVars
<1>7. CASE /\ vm[v].kind = "mapping" /\ mutex[v] = 0 /\ mutex' = [mutex EXCEPT ![v] = 1]
           /\ pte' = [p \in VPages |-> IF p \in vm[v].range /\ pte[p] # Empty
                                       THEN [pte[p] EXCEPT !.state = "address"] ELSE pte[p]]
           /\ resv' = resv - Cardinality(Unpopulated(vm[v].range))
           /\ Become(c, "free")
  BY <1>1, <1>2, <1>7, UnmapPassMem
<1>8. vm[v].kind = "mapping" => ~(\E p \in vm[v].range : pte[p].global)
  BY <1>3 DEF MemInv, PinOK, Pin
<1> QED
  BY <1>1, <1>3, <1>4, <1>5, <1>6, <1>7, <1>8 DEF Unmap

(* The second pass: the frames go back to the allocator, each of them once. *)
LEMMA UnmapFreeMem ==
  ASSUME ObjInv, ObjInv', MemInv, NEW c \in Cpus, UnmapFree(c)
  PROVE  MemInv'
<1>1. PICK v : v = job[c].v
  OBVIOUS
<1>2. PICK range : range = vm[v].range
  OBVIOUS
<1>3. /\ job[c].pc = "free" /\ UNCHANGED <<vm, alive, held, rw, tables, resv>> /\ ObjTypeOK
      /\ free' = free \cup ({pte[p].frame : p \in range} \ {NoFrame})
      /\ pte' = [p \in VPages |-> IF p \in range THEN Empty ELSE pte[p]]
      /\ mutex' = [mutex EXCEPT ![v] = 0] /\ Become(c, "erase")
  BY <1>1, <1>2 DEF UnmapFree, ObjInv
<1>4. /\ v \in Pool /\ v \in Vmars /\ Linked(v) /\ ~vm[v].locked /\ range \subseteq VPages
      /\ Linked(job[c].top) /\ Unpinned(job[c].top) /\ vm[v].kind = "mapping"
      /\ \A d \in Cpus \ {c} : job[d].pc \notin Writing \cup Reading
  BY <1>1, <1>2, <1>3, UnmapperFacts DEF ObjInv, WorkOK, Work
<1>5. Moves(c) /\ job'[c].pc = "erase" /\ job'[c].v = v /\ job'[c].top = job[c].top
  BY <1>1, <1>3, BecomeMoves DEF Pcs, Writing, Unmapping, SameFields
<1>6. SameShape /\ SameLocks /\ StuckKept /\ PopulatesWell(c)
  BY <1>3, <1>5, StuckIf DEF SameShape, SameLocks, Writing, Unmapping, PopulatesWell
<1>7. \A d \in Cpus \ {c} : job'[d] = job[d] /\ job[d].pc \notin {"free", "erase"}
  BY <1>4, <1>5 DEF Moves, Writing, Unmapping
<1>8. /\ pte' \in [VPages -> Entry] /\ \A p \in VPages : p \in range => pte'[p] = Empty
      /\ \A p \in VPages : p \notin range => pte'[p] = pte[p]
  BY <1>3, EmptyFields DEF MemInv, MemTypeOK
<1>9. MutexOK' /\ mutex' \in [Vmars -> {0, 1}]
  BY <1>1, <1>3, <1>4, <1>5, MutexReleased DEF MemInv, Holding
<1>10. PICK R : R = {p \in range : pte[p] # Empty}
  OBVIOUS
<1>11. R \subseteq Used /\ Used' = Used \ R /\ Used \subseteq VPages /\ R \subseteq range
  BY <1>4, <1>8, <1>10 DEF Used
<1>12. PICK G : G = {pte[p].frame : p \in R}
  OBVIOUS
<1>13. free' = free \cup G /\ G \subseteq Frames /\ G \cap free = {}
  <2>1. \A p \in R : pte[p].frame \in Frames /\ pte[p].frame \notin free
    BY <1>11 DEF MemInv, FramesOK, FramesConserved, Used
  <2>2. \A p \in range : p \notin R => pte[p].frame = NoFrame
    BY <1>10, EmptyFields
  <2>3. NoFrame \notin Frames
    BY VmarAssumption
  <2>4. {pte[p].frame : p \in range} \ {NoFrame} = G
    BY <1>11, <1>12, <2>1, <2>2, <2>3
  <2> QED
    BY <1>3, <1>12, <2>1, <2>4
<1>14. IsFiniteSet(R) /\ IsFiniteSet(G) /\ Cardinality(G) = Cardinality(R) /\ Cardinality(R) \in Nat
  <2>1. PICK f : f = [p \in VPages |-> pte[p].frame]
    OBVIOUS
  <2>2. \A p, q \in R : f[p] = f[q] => p = q
    BY <1>11, <2>1 DEF MemInv, FramesOK, FramesConserved, Used
  <2>3. G = {f[p] : p \in R}
    BY <1>11, <1>12, <2>1
  <2>4. IsFiniteSet(R) /\ Cardinality(R) \in Nat
    BY <1>11, OwedFinite
  <2> QED
    BY <2>2, <2>3, <2>4, ImageCount
<1>15. IsFiniteSet(free) /\ Cardinality(free) \in Nat /\ Cardinality(tables) \in Nat
  BY FreeFinite DEF MemInv
<1>16. Cardinality(free') = Cardinality(free) + Cardinality(R)
  BY <1>13, <1>14, <1>15, CountMore
<1>17. MemTypeOK'
  BY <1>3, <1>8, <1>9, <1>13 DEF MemInv, MemTypeOK
<1>18. RangesOK' /\ NoPanic'
  BY <1>5, <1>6, RangesSame DEF MemInv, NoPanic, Moves
<1>19. UseOK'
  <2>1. Use(c)'
    BY <1>3, <1>4, <1>5 DEF Use, Making, Mutexed, Linked, Unpinned
  <2> QED
    BY <1>5, <1>6, <2>1, UseSame DEF MemInv, UseOK, Moves
<1>20. DownOK'
  <2>1. Down(c)'
    BY <1>2, <1>3, <1>4, <1>5, <1>8 DEF Down
  <2> QED
    BY <1>7, <2>1 DEF DownOK, Down
<1>21. FramesOK'
  <2>1. IsFiniteSet(Used) /\ Cardinality(Used) \in Nat
    BY <1>11, OwedFinite
  <2>2. Cardinality(Used') = Cardinality(Used) - Cardinality(R)
    BY <1>11, <2>1, CountLess
  <2>3. \A p \in Used' : p \in Used /\ p \notin R /\ pte'[p] = pte[p]
    BY <1>8, <1>11, EmptyFields DEF Used
  <2>4. \A p \in Used' : pte'[p].frame \notin free'
    <3> SUFFICES ASSUME NEW p \in Used' PROVE pte'[p].frame \notin free'
      OBVIOUS
    <3>1. p \in Used /\ p \notin R /\ pte'[p] = pte[p] /\ pte[p].frame \notin free
      BY <2>3 DEF MemInv, FramesOK, FramesConserved, Used
    <3>2. \A q \in R : pte[q].frame # pte[p].frame
      BY <1>11, <3>1 DEF MemInv, FramesOK, FramesConserved, Used
    <3> QED
      BY <1>12, <1>13, <3>1, <3>2
  <2>5. \A p, q \in Used' : p # q => pte'[p].frame # pte'[q].frame
    BY <2>3 DEF MemInv, FramesOK, FramesConserved, Used
  <2>6. Cardinality(free) + Cardinality(Used) + Cardinality(tables) = Cardinality(Frames)
    BY DEF MemInv, FramesOK, FramesConserved, Used
  <2>7. Cardinality(free') + Cardinality(Used') + Cardinality(tables') = Cardinality(Frames)
    BY <1>3, <1>14, <1>15, <1>16, <2>1, <2>2, <2>6
  <2>8. FramesConserved'
    BY <2>4, <2>5, <2>7 DEF FramesConserved, Used
  <2> QED
    BY <2>3, <2>8 DEF MemInv, FramesOK
<1>22. EntriesOK'
  <2>1. NoEntryWithoutMapping'
    BY <1>6, <1>8, MappingAtSame DEF MemInv, EntriesOK, NoEntryWithoutMapping
  <2>2. ASSUME NEW p \in VPages, pte'[p].state = "address" PROVE FALSE
    <3>1. p \notin range /\ pte[p].state = "address"
      BY <1>8, <2>2, EmptyFields
    <3>2. PICK d \in Cpus : job[d].pc = "free" /\ p \in vm[job[d].v].range
      BY <3>1 DEF MemInv, EntriesOK
    <3>3. d = c
      BY <1>7, <3>2
    <3> QED
      BY <1>1, <1>2, <3>1, <3>2, <3>3
  <2> QED
    BY <2>1, <2>2 DEF EntriesOK
<1>23. ResvOK'
  <2>1. TornDown = {v} /\ TornDown' = {v}
    BY <1>1, <1>3, <1>5, <1>7 DEF TornDown
  <2>2. \A p : MappingAt(p)' = MappingAt(p)
    BY <1>6, MappingAtSame
  <2>3. \A p \in range : MappingAt(p) = {v}
    BY <1>2, <1>4, MappingsApart DEF MappingAt, MemInv
  <2>4. Owed' = Owed
    BY <1>4, <1>8, <2>1, <2>2, <2>3 DEF Owed
  <2>5. Promised(job') = Promised(job)
    BY <1>3, <1>5, PromisedSame
  <2>6. ReservationsExact'
    BY <1>3, <2>4, <2>5, ResvForm, ResvFormNext DEF MemInv, ResvOK
  <2> QED
    BY <1>3, <1>14, <1>15, <1>16, <2>6 DEF MemInv, ResvOK, MemTypeOK
<1>24. PinOK'
  <2> SUFFICES ASSUME NEW w \in Pool, Linked(w)', vm'[w].kind = "mapping" PROVE Pin(w)'
    BY DEF PinOK
  <2>1. Linked(w) /\ vm[w].kind = "mapping" /\ Pin(w) /\ vm[w].range \subseteq VPages
    BY <1>3 DEF Linked, MemInv, PinOK, ObjTypeOK, Object, Vmars
  <2>2. CASE w = v
    BY <1>2, <1>3, <1>4, <1>8, <2>2, EmptyFields DEF Pin
  <2>3. CASE w # v
    <3>1. \A p \in vm[w].range : p \notin range
      BY <1>2, <1>4, <2>1, <2>3, MappingsApart DEF MemInv
    <3>2. \A p \in vm[w].range : pte'[p] = pte[p]
      BY <1>8, <2>1, <3>1
    <3> QED
      BY <1>3, <1>5, <1>6, <2>1, <3>2, PinSame
  <2> QED
    BY <2>2, <2>3
<1> QED
  BY <1>9, <1>17, <1>18, <1>19, <1>20, <1>21, <1>22, <1>23, <1>24 DEF MemInv

(* Linking or unlinking a leaf leaves the order of the others alone. *)
LEMMA BelowLeaf ==
  ASSUME ObjInv, NEW v \in Pool, Children(v) = {},
         \A w \in Vmars \ {v} : vm'[w] = vm[w],
         NEW x \in Vmars, NEW y \in Vmars, x # v, Below(x, y)
  PROVE  Below(x, y)'
<1> SUFFICES ASSUME NEW S \in SUBSET Vmars, x \in S, UpClosed(S)' PROVE y \in S
  BY DEF Below
<1>1. \A z \in S \ {v} : Linked(z) => vm[z].parent \in S \ {v}
  <2> SUFFICES ASSUME NEW z \in S \ {v}, Linked(z) PROVE vm[z].parent \in S \ {v}
    OBVIOUS
  <2>1. vm'[z] = vm[z] /\ z \in Pool
    BY LinkedFacts
  <2>2. vm[z].parent \in S
    BY <2>1 DEF UpClosed, Linked
  <2> QED
    BY <2>1, <2>2 DEF Children
<1>2. UpClosed(S \ {v}) /\ S \ {v} \in SUBSET Vmars /\ x \in S \ {v}
  BY <1>1 DEF UpClosed
<1>3. y \in S \ {v}
  BY <1>2 DEF Below
<1> QED
  BY <1>3

(* Unlinking a leaf keeps the ranges nested. *)
LEMMA EraseRanges ==
  ASSUME ObjInv, RangesOK, NEW v \in Pool, Children(v) = {}, vm'[v].parent = None,
         \A w \in Vmars \ {v} : vm'[w] = vm[w]
  PROVE  RangesOK'
<1>1. v # Root /\ Root \in Vmars /\ v \in Vmars
  BY VmarAssumption DEF Vmars
<1>2. vm'[Root].range = VPages
  BY <1>1 DEF RangesOK
<1>3. \A w \in Vmars : Linked(w)' => w # v /\ Linked(w) /\ vm'[w] = vm[w]
  BY DEF Linked
<1>4. \A w \in Pool : Linked(w)' => vm'[w].range \subseteq vm'[vm'[w].parent].range
  <2> SUFFICES ASSUME NEW w \in Pool, Linked(w)' PROVE vm'[w].range \subseteq vm'[vm'[w].parent].range
    OBVIOUS
  <2>1. w \in Vmars /\ w # v /\ Linked(w) /\ vm'[w] = vm[w]
    BY <1>3 DEF Vmars
  <2>2. vm[w].parent \in Vmars /\ vm[w].parent # v
    BY <2>1, LinkedFacts DEF Children
  <2> QED
    BY <2>1, <2>2 DEF RangesOK
<1>5. \A x, y \in Vmars : InTree(x)' /\ InTree(y)' => Nested(x, y)'
  <2> SUFFICES ASSUME NEW x \in Vmars, NEW y \in Vmars, InTree(x)', InTree(y)'
               PROVE  Nested(x, y)'
    OBVIOUS
  <2>1. x # v /\ y # v /\ InTree(x) /\ InTree(y)
    BY <1>1, <1>3 DEF InTree
  <2>2. Nested(x, y)
    BY <2>1 DEF RangesOK
  <2>3. (Below(x, y) => Below(x, y)') /\ (Below(y, x) => Below(y, x)')
    BY <2>1, BelowLeaf
  <2>4. Disjoint(x, y) => Disjoint(x, y)'
    BY <2>1 DEF Disjoint
  <2> QED
    BY <2>2, <2>3, <2>4 DEF Nested
<1> QED
  BY <1>2, <1>4, <1>5 DEF RangesOK

(* A mapping leaves the tree with empty entries and no reservation. *)
LEMMA EraseMem ==
  ASSUME ObjInv, ObjInv', MemInv, NEW c \in Cpus, Erase(c)
  PROVE  MemInv'
<1>1. PICK v : v = job[c].v
  OBVIOUS
<1>2. /\ v \in Pool /\ Linked(v) /\ vm'[v].parent = None
      /\ \A w \in Vmars \ {v} : vm'[w] = vm[w]
      /\ \/ job'[c] = Idle /\ rw' = 0
         \/ job'[c].pc = "unmap" /\ job'[c].top = job[c].top /\ v # job[c].top /\ rw' = rw
      /\ Moves(c)
  BY <1>1, EraseObj
<1>3. /\ job[c].pc = "erase" /\ mutex' = mutex
      /\ pte' = pte /\ tables' = tables /\ free' = free /\ resv' = resv
  BY DEF Erase, memVars
<1>4. /\ v \in Vmars /\ Linked(job[c].top) /\ Unpinned(job[c].top) /\ job[c].top \in Pool
      /\ \A d \in Cpus \ {c} : job[d].pc \notin Writing \cup Reading
      /\ Children(v) = {}
  BY <1>1, <1>3, UnmapperFacts DEF ObjInv, WorkOK, Work
<1>5. job'[c].pc \in {"idle", "unmap"} /\ StuckKept
  BY <1>2, <1>3, IdleFields, StuckIf DEF Writing, Unmapping
<1>6. PopulatesWell(c)
  BY <1>5 DEF PopulatesWell
<1>7. \A d \in Cpus \ {c} : job'[d] = job[d] /\ job[d].pc \notin {"free", "erase", "tables", "lock_global"}
  BY <1>2, <1>4 DEF Moves, Writing, Unmapping, Making, Pinning
<1>8. MemTypeOK' /\ FramesOK' /\ NoPanic'
  BY <1>2, <1>3, <1>5 DEF MemInv, MemTypeOK, FramesOK, FramesConserved, Used, NoPanic, Moves
<1>9. MutexOK'
  BY <1>2, <1>3, <1>5, MutexStays DEF MemInv, Holding
<1>10. RangesOK'
  BY <1>2, <1>4, EraseRanges DEF MemInv
<1>11. UseOK'
  <2>1. ASSUME NEW d \in Cpus \ {c} PROVE Use(d)'
    <3>1. job[d].pc \in Mutexed => job[d].pc \in Holding
      BY <1>4 DEF Mutexed, Holding, Reading
    <3>2. job[d].pc \in Mutexed => job[d].v \in Vmars /\ job[d].v # v
      BY <1>1, <1>3, <3>1, CallArgs DEF MemInv, MutexOK, Mutexed, Populating, Faulting, Vmars
    <3> QED
      BY <1>2, <1>4, <1>7, <3>2, UseBystander DEF MemInv, UseOK, Linked
  <2>2. Use(c)'
    <3>1. CASE job'[c].pc = "idle"
      BY <3>1 DEF Use, Making, Mutexed
    <3>2. CASE job'[c].pc = "unmap"
      <4>1. PICK t : t = job[c].top
        OBVIOUS
      <4>2. t \in Pool /\ t \in Vmars /\ t # v /\ job'[c].top = t /\ vm'[t] = vm[t]
        BY <1>2, <1>4, <3>2, <4>1, IdleFields DEF Vmars
      <4>3. Linked(t)' /\ Unpinned(t)'
        BY <1>2, <1>4, <4>1, <4>2 DEF Linked, Unpinned, Vmars
      <4> QED
        BY <3>2, <4>2, <4>3 DEF Use, Making, Mutexed
    <3> QED
      BY <1>5, <3>1, <3>2
  <2> QED
    BY <2>1, <2>2 DEF UseOK
<1>12. DownOK'
  BY <1>5, <1>7 DEF DownOK, Down
<1>13. \A p : MappingAt(p)' = MappingAt(p) \ {v}
  BY <1>2 DEF MappingAt, Linked, Vmars
<1>14. EntriesOK'
  <2>1. ASSUME NEW p \in VPages, pte[p] # Empty PROVE MappingAt(p)' # {}
    <3>1. MappingAt(p) # {}
      BY <2>1 DEF MemInv, EntriesOK, NoEntryWithoutMapping
    <3>2. v \notin MappingAt(p)
      BY <1>1, <1>3, <2>1 DEF MappingAt, MemInv, DownOK, Down
    <3> QED
      BY <1>13, <3>1, <3>2
  <2>2. \A p \in VPages : pte[p].state # "address"
    BY <1>3, <1>7 DEF MemInv, EntriesOK
  <2> QED
    BY <1>3, <2>1, <2>2 DEF EntriesOK, NoEntryWithoutMapping
<1>15. ResvOK'
  <2>1. TornDown = {v} /\ TornDown' = {}
    BY <1>1, <1>3, <1>5, <1>7 DEF TornDown
  <2>2. Owed' = Owed
    BY <1>3, <1>13, <2>1 DEF Owed
  <2>3. Promised(job') = Promised(job)
    BY <1>2, <1>3, <1>5, PromisedSame
  <2>4. ReservationsExact'
    BY <1>3, <2>2, <2>3, ResvForm, ResvFormNext DEF MemInv, ResvOK
  <2> QED
    BY <1>3, <2>4 DEF MemInv, ResvOK
<1>16. PinOK'
  <2> SUFFICES ASSUME NEW w \in Pool, Linked(w)', vm'[w].kind = "mapping" PROVE Pin(w)'
    BY DEF PinOK
  <2>1. w # v /\ w \in Vmars /\ vm'[w] = vm[w] /\ Linked(w)
    BY <1>2 DEF Linked, Vmars
  <2>2. Pin(w)
    BY <2>1 DEF MemInv, PinOK
  <2> QED
    BY <1>2, <1>3, <1>5, <1>6, <2>1, <2>2, PinSame
<1> QED
  BY <1>8, <1>9, <1>10, <1>11, <1>12, <1>14, <1>15, <1>16 DEF MemInv

-----------------------------------------------------------------------------
(* vmar_link_internal *)

(* A new child has its own part of its parent's range. *)
LEMMA LinkRanges ==
  ASSUME ObjInv, RangesOK, NEW v \in Pool, ~Linked(v), Children(v) = {},
         NEW par \in Vmars, InTree(par), par # v, NEW r,
         vm'[v].parent = par, vm'[v].range = r, \A w \in Vmars \ {v} : vm'[w] = vm[w],
         r \subseteq vm[par].range, \A w \in Children(par) : vm[w].range \cap r = {}
  PROVE  RangesOK'
<1>1. v # Root /\ Root \in Vmars /\ v \in Vmars /\ par # None /\ Linked(v)' /\ vm'[par] = vm[par]
  BY VmarAssumption DEF Vmars, Linked
<1>2. vm'[Root].range = VPages
  BY <1>1 DEF RangesOK
<1>3. \A w \in Vmars \ {v} : vm'[w] = vm[w] /\ (Linked(w)' <=> Linked(w)) /\ (InTree(w)' <=> InTree(w))
  BY DEF Linked, InTree
<1>4. \A w \in Pool : Linked(w)' => vm'[w].range \subseteq vm'[vm'[w].parent].range
  <2> SUFFICES ASSUME NEW w \in Pool, Linked(w)', w # v
               PROVE  vm'[w].range \subseteq vm'[vm'[w].parent].range
    BY <1>1
  <2>1. w \in Vmars /\ Linked(w) /\ vm'[w] = vm[w]
    BY <1>3 DEF Vmars
  <2>2. vm[w].parent \in Vmars /\ vm[w].parent # v
    BY <2>1, LinkedFacts DEF Children
  <2> QED
    BY <2>1, <2>2 DEF RangesOK
<1>5. \A y \in Vmars : Below(par, y) => Below(v, y)'
  <2> SUFFICES ASSUME NEW y \in Vmars, Below(par, y),
                      NEW S \in SUBSET Vmars, v \in S, UpClosed(S)'
               PROVE  y \in S
    BY DEF Below
  <2>1. par \in S
    BY <1>1 DEF UpClosed
  <2>2. Below(par, y)'
    BY BelowLeaf
  <2> QED
    BY <2>1, <2>2 DEF Below
<1>6. ASSUME NEW y \in Vmars, InTree(y), y # v PROVE Disjoint(v, y)' \/ Below(v, y)'
  <2> SUFFICES ASSUME vm[y].range \cap r # {} PROVE Below(par, y)
    BY <1>3, <1>5, <1>6 DEF Disjoint
  <2>1. Below(par, y) \/ Below(y, par)
    BY <1>6 DEF RangesOK, Nested, Disjoint
  <2>2. ASSUME Below(y, par), y # par PROVE FALSE
    <3>1. PICK u \in Children(par) : Below(y, u)
      BY <2>2, BelowViaChild
    <3>2. vm[y].range \subseteq vm[u].range
      BY <3>1, BelowRange DEF Children, Vmars
    <3> QED
      BY <3>1, <3>2
  <2> QED
    BY <2>1, <2>2, BelowSelf
<1>7. \A x, y \in Vmars : InTree(x)' /\ InTree(y)' => Nested(x, y)'
  <2> SUFFICES ASSUME NEW x \in Vmars, NEW y \in Vmars, InTree(x)', InTree(y)'
               PROVE  Nested(x, y)'
    OBVIOUS
  <2>1. CASE x = v /\ y = v
    <3>1. Below(v, v)'
      BY DEF Below
    <3> QED
      BY <2>1, <3>1 DEF Nested
  <2>2. CASE x = v /\ y # v
    <3>1. Disjoint(v, y)' \/ Below(v, y)'
      BY <1>3, <1>6, <2>2
    <3> QED
      BY <2>2, <3>1 DEF Nested
  <2>3. CASE x # v /\ y = v
    <3>1. Disjoint(v, x)' \/ Below(v, x)'
      BY <1>3, <1>6, <2>3
    <3> QED
      BY <2>3, <3>1 DEF Nested, Disjoint
  <2>4. CASE x # v /\ y # v
    <3>1. InTree(x) /\ InTree(y) /\ vm'[x] = vm[x] /\ vm'[y] = vm[y]
      BY <1>3, <2>4
    <3>2. Nested(x, y)
      BY <3>1 DEF RangesOK
    <3>3. (Below(x, y) => Below(x, y)') /\ (Below(y, x) => Below(y, x)')
      BY <2>4, BelowLeaf
    <3> QED
      BY <3>1, <3>2, <3>3 DEF Nested, Disjoint
  <2> QED
    BY <2>1, <2>2, <2>3, <2>4
<1> QED
  BY <1>2, <1>4, <1>7 DEF RangesOK

(* No linked mapping covers what a new vmar gets. *)
LEMMA PlaceFree ==
  ASSUME ObjInv, RangesOK, NEW par \in Vmars, InTree(par), vm[par].kind = "region", NEW r,
         r \subseteq vm[par].range, \A w \in Children(par) : vm[w].range \cap r = {},
         NEW p \in r
  PROVE  MappingAt(p) = {}
<1> SUFFICES ASSUME NEW w \in Pool, Linked(w), vm[w].kind = "mapping", p \in vm[w].range
             PROVE  FALSE
  BY DEF MappingAt
<1>1. w \in Vmars /\ InTree(w) /\ w # par
  BY DEF Vmars, InTree
<1>2. Below(w, par)
  <2>1. Nested(w, par) /\ ~Disjoint(w, par)
    BY <1>1 DEF RangesOK, Disjoint
  <2> QED
    BY <1>1, <2>1, MappingLeaf DEF Nested
<1>3. PICK u \in Children(par) : Below(w, u)
  BY <1>1, <1>2, BelowViaChild
<1>4. vm[w].range \subseteq vm[u].range
  BY <1>1, <1>3, BelowRange DEF Children, Vmars
<1> QED
  BY <1>3, <1>4

(* vmar_link_internal: a mapping brings in as many owed pages as were      *)
(* reserved.                                                               *)
LEMMA LinkMem ==
  ASSUME ObjInv, ObjInv', MemInv, NEW c \in Cpus, job[c].pc \in Making, NEW r \in SUBSET VPages,
         job[c].pc = "place" => vm[job[c].v].kind = "region",
         job[c].par = Root \/ Linked(job[c].par), Link(c, r), UNCHANGED <<alive, mutex, memVars>>,
         r \subseteq vm[job[c].par].range, Cardinality(r) = job[c].n,
         \A w \in Children(job[c].par) : vm[w].range \cap r = {}
  PROVE  MemInv'
<1>1. PICK v : v = job[c].v
  OBVIOUS
<1>2. PICK par : par = job[c].par
  OBVIOUS
<1>3. /\ vm' = [vm EXCEPT ![v].parent = par, ![v].range = r] /\ rw' = 0 /\ Goto(c, Idle)
      /\ pte' = pte /\ tables' = tables /\ free' = free /\ resv' = resv /\ mutex' = mutex
  BY <1>1, <1>2 DEF Link, memVars
<1>4. /\ ObjTypeOK /\ v \in Pool /\ v \in Vmars /\ vm[v].parent = None /\ par \in Vmars /\ par # v
      /\ vm[par].kind = "region" /\ job[c].pc \in Writing /\ par # None
      /\ \A d \in Cpus \ {c} : job[d].v # v
      /\ \A w \in Pool : Linked(w) => vm[w].parent # v
  BY <1>1, <1>2, MakerFacts DEF MakingAt
<1>5. ~Linked(v) /\ Children(v) = {} /\ InTree(par)
  BY <1>2, <1>4, VmarAssumption DEF Linked, Children, InTree, Vmars
<1>6. Moves(c) /\ job'[c].pc = "idle"
  BY <1>3, <1>4, GotoMoves, IdleFields
<1>7. /\ \A w \in Vmars \ {v} : vm'[w] = vm[w]
      /\ vm'[v].parent = par /\ vm'[v].range = r /\ vm'[v].kind = vm[v].kind
      /\ vm'[v].locked = vm[v].locked
  BY <1>3, <1>4 DEF ObjTypeOK, Object
<1>8. /\ \A d \in Cpus \ {c} : job'[d] = job[d] /\ job[d].pc \notin Writing \cup Reading
      /\ StuckKept /\ PopulatesWell(c)
  BY <1>4, <1>6, OneWriter, StuckIf DEF Moves, PopulatesWell
<1>9. \A d \in Cpus \ {c} : job[d].pc \notin {"free", "erase", "tables", "lock_global"}
  BY <1>8 DEF Writing, Unmapping, Making, Pinning
<1>10. MemTypeOK' /\ FramesOK' /\ NoPanic'
  BY <1>3, <1>6 DEF MemInv, MemTypeOK, FramesOK, FramesConserved, Used, NoPanic, Moves
<1>11. MutexOK'
  BY <1>3, <1>6, MutexStays DEF MemInv, Holding
<1>12. RangesOK'
  BY <1>2, <1>4, <1>5, <1>7, LinkRanges DEF MemInv
<1>13. UseOK'
  <2>1. ASSUME NEW d \in Cpus \ {c} PROVE Use(d)'
    <3>1. job[d].pc \in Mutexed => job[d].v \in Vmars \ {v}
      BY <1>4, CallArgs DEF Mutexed, Populating, Faulting, Vmars
    <3> QED
      BY <1>7, <1>8, <3>1, UseBystander DEF MemInv, UseOK, Linked
  <2>2. Use(c)'
    BY <1>6 DEF Use, Making, Mutexed
  <2> QED
    BY <2>1, <2>2 DEF UseOK
<1>14. DownOK'
  BY <1>6, <1>8, <1>9 DEF DownOK, Down
<1>15. TornDown = {} /\ TornDown' = {}
  BY <1>6, <1>8, <1>9 DEF TornDown, Making
<1>16. \A p : MappingAt(p)' = MappingAt(p) \cup {w \in {v} : vm[v].kind = "mapping" /\ p \in r}
  BY <1>4, <1>5, <1>7 DEF MappingAt, Linked, Vmars
<1>17. \A p \in r : MappingAt(p) = {} /\ pte[p] = Empty
  <2>1. \A p \in r : MappingAt(p) = {}
    BY <1>2, <1>4, <1>5, PlaceFree DEF MemInv
  <2> QED
    BY <2>1 DEF MemInv, EntriesOK, NoEntryWithoutMapping
<1>18. EntriesOK'
  <2>1. NoEntryWithoutMapping'
    BY <1>3, <1>16 DEF MemInv, EntriesOK, NoEntryWithoutMapping
  <2>2. \A p \in VPages : pte[p].state # "address"
    BY <1>9 DEF MemInv, EntriesOK, Making
  <2> QED
    BY <1>3, <2>1, <2>2 DEF EntriesOK
<1>19. ResvOK'
  <2>1. CASE job[c].pc = "place"
    <3>1. Owed' = Owed
      BY <1>1, <1>3, <1>15, <1>16, <2>1 DEF Owed
    <3>2. Promised(job') = Promised(job)
      BY <1>6, <2>1, PromisedSame
    <3>3. ReservationsExact'
      BY <1>3, <3>1, <3>2, ResvForm, ResvFormNext DEF MemInv, ResvOK
    <3> QED
      BY <1>3, <3>3 DEF MemInv, ResvOK
  <2>2. CASE job[c].pc = "tables"
    <3>1. vm[v].kind = "mapping"
      BY <1>1, <2>2 DEF MemInv, UseOK, Use
    <3>2. Owed' = Owed \cup r
      BY <1>3, <1>15, <1>16, <1>17, <3>1 DEF Owed
    <3>3. r \cap Owed = {} /\ Owed \in SUBSET VPages
      BY <1>17 DEF Owed
    <3>4. /\ IsFiniteSet(Owed) /\ Cardinality(Owed) \in Nat
          /\ IsFiniteSet(r) /\ Cardinality(r) \in Nat
      BY <3>3, OwedFinite
    <3>5. Cardinality(Owed') = Cardinality(Owed) + Cardinality(r)
      BY <3>2, <3>3, <3>4, CountMore
    <3>6. Promised(job) = job[c].n
      BY <1>9, <2>2, PromisedOne
    <3>7. Promised(job') = 0
      BY <1>6, <1>8, <1>9, PromisedNone
    <3>8. ReservationsExact'
      BY <1>3, <3>4, <3>5, <3>6, <3>7, ResvForm, ResvFormNext DEF MemInv, ResvOK
    <3> QED
      BY <1>3, <3>8 DEF MemInv, ResvOK
  <2> QED
    BY <2>1, <2>2 DEF Making
<1>20. PinOK'
  <2> SUFFICES ASSUME NEW w \in Pool, Linked(w)', vm'[w].kind = "mapping" PROVE Pin(w)'
    BY DEF PinOK
  <2>1. CASE w = v
    <3>1. ~vm[v].locked
      BY <1>1 DEF MemInv, UseOK, Use
    <3> QED
      BY <1>3, <1>7, <1>17, <2>1, <3>1, EmptyFields DEF Pin
  <2>2. CASE w # v
    <3>1. w \in Vmars /\ vm'[w] = vm[w] /\ Linked(w)
      BY <1>7, <2>2 DEF Linked, Vmars
    <3>2. Pin(w)
      BY <3>1 DEF MemInv, PinOK
    <3> QED
      BY <1>3, <1>6, <1>8, <3>1, <3>2, PinSame DEF Making
  <2> QED
    BY <2>1, <2>2
<1> QED
  BY <1>10, <1>11, <1>12, <1>13, <1>14, <1>18, <1>19, <1>20 DEF MemInv

(* A step of vmar_map that reserves, allocates a page table or gives up:   *)
(* it changes the ledger and no entry.                                     *)
LEMMA MakerMem ==
  ASSUME ObjInv, ObjInv', MemInv, NEW c \in Cpus, Moves(c), job[c].pc \in Making,
         job'[c].pc \in {"tables", "idle"}, SameShape, SameLocks, StuckKept,
         pte' = pte, mutex' = mutex, MemTypeOK', FramesOK', Use(c)', resv' <= Cardinality(free'),
         resv' = Cardinality(Owed) + Promised(job')
  PROVE  MemInv'
<1>1. RangesOK' /\ NoPanic' /\ PopulatesWell(c)
  BY RangesSame DEF MemInv, NoPanic, Moves, PopulatesWell
<1>2. MutexOK'
  BY MutexStays DEF MemInv, Holding
<1>3. UseOK'
  BY UseSame DEF MemInv, UseOK, Moves
<1>4. DownOK'
  <2>1. \A d \in Cpus \ {c} : Down(d)'
    BY DownSame DEF MemInv, DownOK, Moves
  <2>2. Down(c)'
    BY DEF Down
  <2> QED
    BY <2>1, <2>2 DEF DownOK
<1>5. EntriesOK'
  <2>1. NoEntryWithoutMapping'
    BY MappingAtSame DEF MemInv, EntriesOK, NoEntryWithoutMapping
  <2>2. \A p \in VPages : pte'[p].state = "address" =>
          \E d \in Cpus : job'[d].pc = "free" /\ p \in vm'[job'[d].v].range
    BY AddressesSame DEF MemInv, EntriesOK, Making
  <2> QED
    BY <2>1, <2>2 DEF EntriesOK
<1>6. ResvOK'
  <2>1. Owed' = Owed
    BY MappingAtSame, TornDownSame DEF Owed, Making
  <2>2. ReservationsExact'
    BY <2>1, ResvFormNext
  <2> QED
    BY <2>2 DEF ResvOK
<1>7. PinOK'
  <2> SUFFICES ASSUME NEW v \in Pool, Linked(v)', vm'[v].kind = "mapping"
               PROVE  Pin(v)'
    BY DEF PinOK
  <2>1. /\ v \in Vmars /\ Linked(v) /\ vm[v].kind = "mapping" /\ vm'[v].range = vm[v].range
        /\ vm'[v].locked = vm[v].locked
    BY ForestSame DEF Vmars, SameLocks
  <2>2. Pin(v)
    BY <2>1 DEF MemInv, PinOK
  <2> QED
    BY <1>1, <2>1, <2>2, PinSame DEF Making
<1> QED
  BY <1>1, <1>2, <1>3, <1>4, <1>5, <1>6, <1>7 DEF MemInv

(* One core at most has a reservation that is not linked. *)
LEMMA MakerAlone ==
  ASSUME ObjInv, MemInv, NEW c \in Cpus, job[c].pc \in Making
  PROVE  /\ \A d \in Cpus \ {c} : job[d].pc # "tables"
         /\ Promised(job) = IF job[c].pc = "tables" THEN job[c].n ELSE 0
         /\ resv = Cardinality(Owed) + Promised(job) /\ Cardinality(Owed) \in Nat
         /\ job[c].n \in Nat
<1>1. \A d \in Cpus \ {c} : job[d].pc # "tables"
  BY OneWriter DEF Writing, Making
<1>2. Promised(job) = IF job[c].pc = "tables" THEN job[c].n ELSE 0
  BY <1>1, PromisedOne, PromisedNone
<1>3. resv = Cardinality(Owed) + Promised(job)
  BY ResvForm DEF MemInv, ResvOK
<1>4. Cardinality(Owed) \in Nat
  BY OwedFinite DEF Owed
<1> QED
  BY <1>1, <1>2, <1>3, <1>4, MakerFacts DEF Call

(* virt_reserve_page_tables takes the reservation. *)
LEMMA PlaceMappingMem ==
  ASSUME ObjInv, ObjInv', MemInv, NEW c \in Cpus, PlaceMapping(c)
  PROVE  MemInv'
<1>1. /\ job[c].pc = "place" /\ job[c].pc \in Making /\ vm[job[c].v].kind = "mapping"
      /\ pte' = pte /\ tables' = tables /\ free' = free /\ mutex' = mutex
  BY DEF PlaceMapping, Making
<1>2. PICK r \in Places(job[c].par, job[c].n) :
        \/ /\ Available >= job[c].n /\ resv' = resv + job[c].n
           /\ Goto(c, [job[c] EXCEPT !.pc = "tables", !.todo = r]) /\ UNCHANGED <<vm, alive, rw>>
        \/ Abandon(c) /\ UNCHANGED resv
  BY DEF PlaceMapping
<1>3. CASE Abandon(c) /\ UNCHANGED resv
  BY <1>1, <1>3, PlaceFailsMem DEF memVars
<1>4. CASE /\ Available >= job[c].n /\ resv' = resv + job[c].n
           /\ Goto(c, [job[c] EXCEPT !.pc = "tables", !.todo = r]) /\ UNCHANGED <<vm, alive, rw>>
  <2>1. PICK k : k = [job[c] EXCEPT !.pc = "tables", !.todo = r]
    OBVIOUS
  <2>2. /\ job[c] \in Call /\ ObjTypeOK /\ r \in SUBSET VPages
        /\ r \subseteq vm[job[c].par].range /\ Cardinality(r) = job[c].n
        /\ \A w \in Children(job[c].par) : vm[w].range \cap r = {}
    BY <1>1, PlaceGood, MakerFacts
  <2>3. k \in Call
    BY <2>1, <2>2 DEF Call, Writing, Making
  <2>4. k.pc = "tables" /\ k.v = job[c].v /\ k.par = job[c].par /\ k.n = job[c].n /\ k.todo = r
    BY <2>1, <2>2 DEF Call
  <2>5. Moves(c) /\ job'[c] = k
    BY <1>4, <2>1, <2>2, <2>3, GotoMoves
  <2>6. SameShape /\ SameLocks /\ StuckKept
    BY <1>1, <1>4, <2>5, StuckIf DEF SameShape, SameLocks, Writing
  <2>7. ~vm[job[c].v].locked
    BY <1>1 DEF MemInv, UseOK, Use
  <2>8. Use(c)'
    BY <1>1, <1>4, <2>2, <2>4, <2>5, <2>7 DEF Use, Mutexed, Children
  <2>9. /\ resv = Cardinality(Owed) /\ job[c].n \in Nat /\ Cardinality(Owed) \in Nat
        /\ \A d \in Cpus \ {c} : job[d].pc # "tables"
    BY <1>1, MakerAlone
  <2>10. Promised(job') = job[c].n
    BY <2>4, <2>5, <2>9, PromisedOne DEF Moves
  <2>11. resv' = Cardinality(Owed) + Promised(job') /\ resv' \in Int
    BY <1>4, <2>9, <2>10
  <2>12. resv' <= Cardinality(free')
    BY <1>1, <1>4, <2>9, FreeFinite DEF Available, MemInv
  <2>13. MemTypeOK' /\ FramesOK'
    BY <1>1, <2>11 DEF MemInv, MemTypeOK, FramesOK, FramesConserved, Used
  <2> QED
    BY <1>1, <2>4, <2>5, <2>6, <2>8, <2>11, <2>12, <2>13, MakerMem
<1> QED
  BY <1>2, <1>3, <1>4

(* A page table takes a frame that nobody reserved. *)
LEMMA MapTableMem ==
  ASSUME ObjInv, ObjInv', MemInv, NEW c \in Cpus, MapTable(c)
  PROVE  MemInv'
<1>1. /\ job[c].pc = "tables" /\ job[c].pc \in Making /\ Available >= 1 /\ resv' = resv
      /\ UNCHANGED <<vm, alive, rw, job>> /\ pte' = pte /\ mutex' = mutex
  BY DEF MapTable, Making
<1>2. PICK t \in MissingTables(c) : tables' = tables \cup {t}
  BY DEF MapTable
<1>3. PICK f \in free : free' = free \ {f}
  BY DEF MapTable
<1>4. Moves(c) /\ job'[c].pc = "tables"
  BY <1>1 DEF ObjInv, ObjTypeOK, Moves
<1>5. SameShape /\ SameLocks /\ StuckKept
  BY <1>1, <1>4, StuckIf DEF SameShape, SameLocks, Writing
<1>6. Use(c)'
  BY <1>1 DEF MemInv, UseOK, Use, Linked, Children, Unpinned
<1>7. /\ IsFiniteSet(free) /\ Cardinality(free) \in Nat /\ IsFiniteSet(tables)
      /\ Cardinality(tables) \in Nat /\ resv \in Int
  BY FreeFinite DEF MemInv, MemTypeOK
<1>8. Cardinality(free') = Cardinality(free) - 1
  BY <1>3, <1>7, FS_RemoveElement
<1>9. IsFiniteSet(tables') /\ Cardinality(tables') = Cardinality(tables) + 1
  BY <1>2, <1>7, FS_AddElement DEF MissingTables
<1>10. resv' <= Cardinality(free')
  BY <1>1, <1>7, <1>8 DEF Available
<1>11. MemTypeOK'
  BY <1>1, <1>3, <1>9 DEF MemInv, MemTypeOK
<1>12. FramesOK'
  <2>1. Used' = Used /\ Cardinality(Used) \in Nat
    BY <1>1, OwedFinite DEF Used
  <2>2. Cardinality(free) + Cardinality(Used) + Cardinality(tables) = Cardinality(Frames)
    BY DEF MemInv, FramesOK, FramesConserved, Used
  <2>3. Cardinality(free') + Cardinality(Used') + Cardinality(tables') = Cardinality(Frames)
    BY <1>7, <1>8, <1>9, <2>1, <2>2
  <2>4. FramesConserved'
    BY <1>1, <1>3, <2>3 DEF MemInv, FramesOK, FramesConserved, Used
  <2> QED
    BY <1>1, <2>1, <2>4 DEF MemInv, FramesOK
<1>13. resv' = Cardinality(Owed) + Promised(job')
  BY <1>1, MakerAlone
<1> QED
  BY <1>1, <1>4, <1>5, <1>6, <1>10, <1>11, <1>12, <1>13, MakerMem

(* The reservation goes back. *)
LEMMA MapTablesFailMem ==
  ASSUME ObjInv, ObjInv', MemInv, NEW c \in Cpus, MapTablesFail(c)
  PROVE  MemInv'
<1>1. /\ job[c].pc = "tables" /\ job[c].pc \in Making /\ Abandon(c) /\ resv' = resv - job[c].n
      /\ pte' = pte /\ tables' = tables /\ free' = free /\ mutex' = mutex
  BY DEF MapTablesFail, Making
<1>2. Moves(c) /\ job'[c].pc = "idle" /\ SameShape /\ SameLocks /\ StuckKept
  BY <1>1, AbandonFrame, IdleFields
<1>3. Use(c)'
  BY <1>2 DEF Use, Making, Mutexed
<1>4. /\ resv = Cardinality(Owed) + job[c].n /\ job[c].n \in Nat /\ Cardinality(Owed) \in Nat
      /\ \A d \in Cpus \ {c} : job[d].pc # "tables"
  BY <1>1, MakerAlone
<1>5. Promised(job') = 0
  BY <1>2, <1>4, PromisedNone DEF Moves
<1>6. resv' = Cardinality(Owed) + Promised(job') /\ resv' \in Int
  BY <1>1, <1>4, <1>5
<1>7. resv' <= Cardinality(free')
  BY <1>1, <1>4, FreeFinite DEF MemInv, ResvOK
<1>8. MemTypeOK' /\ FramesOK'
  BY <1>1, <1>6 DEF MemInv, MemTypeOK, FramesOK, FramesConserved, Used
<1> QED
  BY <1>1, <1>2, <1>3, <1>6, <1>7, <1>8, MakerMem

LEMMA MakeMem ==
  ASSUME ObjInv, ObjInv', MemInv, NEW c \in Cpus,
         \/ PlaceFails(c) \/ PlaceRegion(c) \/ PlaceMapping(c) \/ MapTable(c)
         \/ MapTablesFail(c) \/ MapDone(c)
  PROVE  MemInv'
<1>1. CASE PlaceFails(c)
  BY <1>1, PlaceFailsMem DEF PlaceFails
<1>2. CASE PlaceRegion(c)
  <2>1. /\ job[c].pc = "place" /\ job[c].pc \in Making /\ vm[job[c].v].kind = "region"
        /\ UNCHANGED <<alive, mutex, memVars>>
    BY <1>2 DEF PlaceRegion, Making
  <2>2. PICK r \in Places(job[c].par, job[c].n) : Link(c, r)
    BY <1>2 DEF PlaceRegion
  <2>3. /\ r \in SUBSET VPages /\ (job[c].par = Root \/ Linked(job[c].par))
        /\ r \subseteq vm[job[c].par].range /\ Cardinality(r) = job[c].n
        /\ \A w \in Children(job[c].par) : vm[w].range \cap r = {}
    BY <2>1, PlaceGood
  <2> QED
    BY <2>1, <2>2, <2>3, LinkMem
<1>3. CASE MapDone(c)
  <2>1. /\ job[c].pc = "tables" /\ job[c].pc \in Making /\ Link(c, job[c].todo)
        /\ UNCHANGED <<alive, mutex, memVars>>
    BY <1>3 DEF MapDone, Making
  <2>2. job[c].todo \in SUBSET VPages
    BY <2>1, MakerFacts DEF Call
  <2>3. job[c].par = Root \/ Linked(job[c].par)
    BY <2>1 DEF ObjInv, WorkOK, Work
  <2>4. /\ job[c].todo \subseteq vm[job[c].par].range /\ Cardinality(job[c].todo) = job[c].n
        /\ \A w \in Children(job[c].par) : vm[w].range \cap job[c].todo = {}
    BY <2>1 DEF MemInv, UseOK, Use
  <2> QED
    BY <2>1, <2>2, <2>3, <2>4, LinkMem
<1> QED
  BY <1>1, <1>2, <1>3, PlaceMappingMem, MapTableMem, MapTablesFailMem

-----------------------------------------------------------------------------
(* The theorems *)

LEMMA MemInit == VmarInit => MemInv
<1> SUFFICES ASSUME VmarInit PROVE MemInv
  OBVIOUS
<1>1. /\ \A c \in Cpus : job[c].pc = "idle"
      /\ \A p \in VPages : pte[p] = Empty
      /\ mutex = [v \in Vmars |-> 0] /\ pte = [p \in VPages |-> Empty] /\ resv = 0
      /\ free \subseteq Frames /\ tables \subseteq OtherTables
      /\ Cardinality(free) + Cardinality(tables) = Cardinality(Frames)
  BY IdleFields DEF VmarInit
<1>2. ObjInv
  BY ObjInit
<1>3. vm[Root].range = VPages /\ \A v \in Pool : ~Linked(v)
  <2>1. \A v \in Pool : vm[v] = Freed
    BY VmarAssumption DEF VmarInit, Vmars
  <2>2. vm[Root] = [Blank("region") EXCEPT !.range = VPages, !.ref = 1]
    BY DEF VmarInit, Vmars
  <2> QED
    BY <2>1, <2>2, FreedFields DEF Linked, Blank
<1>4. \A v \in Vmars : InTree(v) => v = Root
  BY <1>3 DEF InTree, Vmars
<1>5. IsFiniteSet(tables)
  BY <1>1, VmarAssumption, FS_Subset
<1>6. MemTypeOK
  BY <1>1, <1>5, EmptyFields DEF MemTypeOK
<1>7. RangesOK
  <2>1. Nested(Root, Root)
    BY BelowSelf DEF Nested
  <2> QED
    BY <1>3, <1>4, <2>1 DEF RangesOK
<1>8. MutexOK /\ UseOK /\ DownOK /\ NoPanic
  BY <1>1 DEF MutexOK, UseOK, Use, DownOK, Down, NoPanic, Holding, Making, Mutexed
<1>9. FramesOK
  <2>1. Used = {} /\ Cardinality(Used) = 0
    BY <1>1, FS_EmptySet DEF Used
  <2>2. Cardinality(free) \in Nat /\ Cardinality(tables) \in Nat
    BY <1>6, FreeFinite
  <2>3. Cardinality(free) + Cardinality(Used) + Cardinality(tables) = Cardinality(Frames)
    BY <1>1, <2>1, <2>2
  <2> QED
    BY <2>1, <2>3 DEF FramesOK, FramesConserved, Used
<1>10. EntriesOK
  BY <1>1, EmptyFields DEF EntriesOK, NoEntryWithoutMapping
<1>11. ResvOK
  <2>1. Owed = {} /\ Cardinality(Owed) = 0
    <3>1. Owed = {}
      BY <1>3 DEF Owed, MappingAt
    <3> QED
      BY <3>1, FS_EmptySet
  <2>2. Promised(job) = 0
    BY <1>1, PromisedNone
  <2>3. ReservationsExact
    BY <1>1, <2>1, <2>2, ResvForm
  <2> QED
    BY <1>1, <1>6, <2>3, FreeFinite DEF ResvOK
<1>12. PinOK
  BY <1>3 DEF PinOK
<1> QED
  BY <1>6, <1>7, <1>8, <1>9, <1>10, <1>11, <1>12 DEF MemInv

LEMMA MemStutter ==
  ASSUME MemInv, UNCHANGED vmarVars
  PROVE  MemInv'
<1>1. MemTypeOK' /\ MutexOK' /\ RangesOK'
  BY DEF MemInv, MemTypeOK, MutexOK, RangesOK, InTree, Disjoint, Nested, Linked, Below, UpClosed,
         vmarVars, memVars
<1>2. UseOK' /\ DownOK' /\ NoPanic'
  BY DEF MemInv, UseOK, DownOK, NoPanic, Unpinned, Use, Down, InTree, Disjoint, Nested, TornDown,
         MappingAt, Linked, Children, Present, Below, UpClosed, NoWriter, vmarVars, memVars
<1>3. FramesOK' /\ EntriesOK'
  BY DEF MemInv, FramesOK, EntriesOK, FramesConserved, NoEntryWithoutMapping, Used, Stuck, TornDown,
         MappingAt, Linked, Children, Present, Below, UpClosed, vmarVars, memVars
<1>4. PinOK'
  BY DEF MemInv, PinOK, Pinned, Pin, Stuck, Linked, Children, Present, NoWriter, vmarVars, memVars
<1>5. ResvOK'
  <2>1. job' = job /\ vm' = vm /\ pte' = pte /\ resv' = resv /\ free' = free
    BY DEF vmarVars, memVars
  <2>2. TornDown' = TornDown /\ \A p \in VPages : MappingAt(p)' = MappingAt(p)
    BY <2>1 DEF TornDown, MappingAt, Linked, UpClosed, Below, Children
  <2> QED
    BY <2>1, <2>2 DEF MemInv, ResvOK, ReservationsExact
<1> QED
  BY <1>1, <1>2, <1>3, <1>4, <1>5 DEF MemInv

(* Every step keeps MemInv; one case for each action. *)
LEMMA MemStep == ObjInv /\ MemInv /\ [VmarNext]_vmarVars => MemInv'
<1> SUFFICES ASSUME ObjInv, MemInv, [VmarNext]_vmarVars PROVE MemInv'
  OBVIOUS
<1>1. CASE UNCHANGED vmarVars
  BY <1>1, MemStutter
<1>2. ObjInv'
  BY ObjStep
<1>3. ASSUME NEW c \in Cpus, CoreStep(c) PROVE MemInv'
  <2>1. ASSUME NEW par \in Vmars, NEW n \in 1..Cardinality(VPages),
               vmar_allocate(c, par, n) \/ vmar_map(c, par, n)
        PROVE  MemInv'
    <3>1. n \in Nat
      BY VmarAssumption, FS_CardinalityType
    <3> QED
      BY <1>2, <2>1, <3>1, CreateMem DEF vmar_allocate, vmar_map
  <2>2. CASE \/ PlaceFails(c) \/ PlaceRegion(c) \/ PlaceMapping(c) \/ MapTable(c)
             \/ MapTablesFail(c) \/ MapDone(c)
    BY <1>2, <2>2, MakeMem
  <2>3. ASSUME NEW v \in Pool,
               vmar_populate(c, v) \/ vmar_lock(c, v) \/ vmar_unmap(c, v) \/ Put(c, v)
        PROVE  MemInv'
    BY <1>2, <2>3, HandleMem, PutMem
  <2>4. CASE PopulateMutex(c) \/ PopulateDone(c) \/ FaultMutexUnlock(c)
    BY <1>2, <2>4, PopulateMutexMem, MutexUnlockMem
  <2>5. CASE Populate(c) \/ FaultPopulate(c)
    <3>1. PICK p \in job[c].todo : PopulatePage(c, p)
      BY <2>5 DEF Populate, FaultPopulate
    <3> QED
      BY <1>2, <2>5, <3>1, PopulatePageMem DEF Populate, FaultPopulate
  <2>6. ASSUME NEW p \in VPages, PageFault(c, p) PROVE MemInv'
    BY <1>2, <2>6, PageFaultMem
  <2>7. CASE FaultMutex(c) \/ FaultUnlock(c) \/ FaultFlags(c)
    BY <1>2, <2>7, FaultMovesMem
  <2>8. CASE FaultPut(c)
    BY <1>2, <2>8, FaultPutMem
  <2>9. CASE LockMark(c) \/ LockGlobal(c) \/ LockNext(c)
    BY <1>2, <2>9, LockMarkMem, LockGlobalMem, LockNextMem
  <2>10. CASE UnmapFirst(c) \/ Unmap(c) \/ UnmapFree(c) \/ Erase(c)
    BY <1>2, <2>10, UnmapFirstMem, UnmapMem, UnmapFreeMem, EraseMem
  <2> QED
    BY <1>3, <2>1, <2>2, <2>3, <2>4, <2>5, <2>6, <2>7, <2>8, <2>9, <2>10 DEF CoreStep
<1> QED
  BY <1>1, <1>3 DEF VmarNext

LEMMA MemAlways == VmarSpec => [](ObjInv /\ MemInv)
BY ObjInit, ObjStep, MemInit, MemStep, PTL DEF VmarSpec

(* mem/virt.c and mem/vmar.c: no assertion fails apart from those of the   *)
(* locks' slow paths: a populate gets its reserved page, a page that is    *)
(* freed is never global, and object_put frees only what was unmapped.     *)
THEOREM VmarNoPanic == VmarSpec => []NoPanic
<1>1. MemInv => NoPanic
  BY DEF MemInv
<1> QED
  BY <1>1, MemAlways, PTL

(* mem/phys.c: m_reserved_pages is the number of pages that linked         *)
(* mappings have yet to populate, and what vmar_map has just reserved.     *)
THEOREM VmarReservationsExact == VmarSpec => []ReservationsExact
<1>1. MemInv => ReservationsExact
  BY DEF MemInv, ResvOK
<1> QED
  BY <1>1, MemAlways, PTL

(* mem/virt.c: every frame is free, in one page table entry or a table,    *)
(* whatever virt_populate, a fault and virt_free do next to each other.    *)
THEOREM VmarFramesConserved == VmarSpec => []FramesConserved
<1>1. MemInv => FramesConserved
  BY DEF MemInv, FramesOK
<1> QED
  BY <1>1, MemAlways, PTL

(* mem/vmar.c: a page that no linked mapping covers has no entry, also     *)
(* after a fault that ended while vmar_unmap was under way.                *)
THEOREM VmarNoEntryWithoutMapping == VmarSpec => []NoEntryWithoutMapping
<1>1. MemInv => NoEntryWithoutMapping
  BY DEF MemInv, EntriesOK
<1> QED
  BY <1>1, MemAlways, PTL

(* mem/vmar.c, vmar_lock: once the rwlock is released the populated pages  *)
(* of a locked mapping are global, those of overlapping faults too.        *)
THEOREM VmarLockedIsGlobal == VmarSpec => []LockedIsGlobal
<1>1. ObjInv /\ MemInv => LockedIsGlobal
  <2> SUFFICES ASSUME ObjInv, MemInv, rw # WRITER, NEW v \in Pool, Linked(v),
                      vm[v].kind = "mapping", vm[v].locked
               PROVE  \A p \in vm[v].range : Present(p) => pte[p].global
    BY DEF LockedIsGlobal
  <2>1. Pinned(v)
    BY DEF MemInv, PinOK, Pin
  <2>2. \A c \in Cpus : job[c].pc # "lock_global"
    BY OneWriter DEF Writing, Pinning
  <2> QED
    BY <2>1, <2>2 DEF Pinned, Stuck
<1> QED
  BY <1>1, MemAlways, PTL
=============================================================================
