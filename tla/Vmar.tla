-------------------------------- MODULE Vmar --------------------------------
(***************************************************************************)
(* mem/vmar.c and mem/virt.c: the life of virtual memory regions and       *)
(* mappings.  Reference counted objects in a tree under one rwlock, a      *)
(* mutex per mapping for its page table entries, and page faults that keep *)
(* the mutex and a reference after they dropped the rwlock.                *)
(*                                                                         *)
(* Where a vmar is placed is abstracted to the set of virtual pages it     *)
(* covers.  Physical memory is the page ledger that Accounting implements: *)
(* a set of free frames, resv of which are promised to mappings.  Data     *)
(* under the exclusive lock is read by no one else, so a critical section  *)
(* is cut where it touches what others see: reference counts, mapping      *)
(* mutexes, page table entries, the ledger and vmar->locked.               *)
(*                                                                         *)
(* The slow path of every lock is an assertion: a core that meets a taken  *)
(* lock halts, with everything it holds.                                   *)
(***************************************************************************)
EXTENDS Integers, FiniteSets

CONSTANTS
  Cpus,      \* the cores
  Pool,      \* vmar objects mem_alloc can hand out
  Root,      \* g_user_region, linked for ever
  None,      \* no vmar
  VPages,    \* the virtual pages of the root region, numbered
  TableOf,   \* the page table that holds the entry of a virtual page
  OtherTables, \* page tables outside the root region, which may exist already
  Frames     \* physical pages

NoFrame == "none"

ASSUME VmarAssumption ==
  /\ IsFiniteSet(Cpus) /\ IsFiniteSet(Frames) /\ IsFiniteSet(VPages) /\ VPages \subseteq Nat
  /\ IsFiniteSet(OtherTables)
  /\ Root \notin Pool /\ None \notin Pool \cup {Root} /\ NoFrame \notin Frames

Vmars == Pool \cup {Root}
WRITER == 4     \* RWLOCK_WRITER_BIT
READER == 8     \* RWLOCK_ONE_READER

VARIABLES
  vm,       \* the fields of each vmar
  alive,    \* the objects mem_alloc has handed out
  held,     \* vmars to which some thread holds a handle (one reference)
  rw,       \* m_vmar_lock
  mutex,    \* per vmar, mapping.page_table_lock
  pte,      \* per virtual page, its leaf entry
  tables,   \* page tables that exist
  free,     \* frames in the physical allocator
  resv,     \* m_reserved_pages
  job       \* per core, the call it is in

memVars == <<pte, tables, free, resv>>
vmarVars == <<vm, alive, held, rw, mutex, memVars, job>>

Empty == [state |-> "zero", frame |-> NoFrame, global |-> FALSE]
Blank(kind) == [kind |-> kind, parent |-> None, range |-> {}, ref |-> 2,
                unmapped |-> FALSE, locked |-> FALSE]
Freed == [Blank("region") EXCEPT !.ref = 0]     \* mem_free zeroes the object
Idle == [pc |-> "idle", v |-> None, top |-> None, par |-> None,
         todo |-> {}, done |-> {}, n |-> 0, global |-> FALSE, borrow |-> {}]

VmarInit ==
  /\ vm = [v \in Vmars |->
             IF v = Root THEN [Blank("region") EXCEPT !.range = VPages, !.ref = 1]
             ELSE Freed]
  /\ alive = {Root}
  /\ held = {}
  /\ rw = 0
  /\ mutex = [v \in Vmars |-> 0]
  /\ pte = [p \in VPages |-> Empty]
  /\ tables \in SUBSET OtherTables
  /\ free \in {f \in SUBSET Frames : Cardinality(f) + Cardinality(tables) = Cardinality(Frames)}
  /\ resv = 0
  /\ job = [c \in Cpus |-> Idle]

-----------------------------------------------------------------------------
(* Helpers *)

Available == Cardinality(free) - resv
Linked(v) == vm[v].parent # None
Children(v) == {w \in Pool : vm[w].parent = v}
Present(p) == pte[p].state = "present"

Goto(c, new) == job' = [job EXCEPT ![c] = new]
Become(c, pc) == job' = [job EXCEPT ![c].pc = pc]
Stop(c) == Become(c, "halted")       \* a lock's slow path
Fail(c) == Become(c, "panic")        \* any other assertion

(* rwlock_lock_exclusive and rwlock_lock_shared, then the given state *)
Exclusive(c, new) ==
  \/ rw = 0 /\ rw' = WRITER /\ Goto(c, new)
  \/ rw # 0 /\ UNCHANGED rw /\ Goto(c, [new EXCEPT !.pc = "halted"])
Shared(c, new) ==
  \/ rw # WRITER /\ rw' = rw + READER /\ Goto(c, new)
  \/ rw = WRITER /\ UNCHANGED rw /\ Goto(c, [new EXCEPT !.pc = "halted"])

(* OBJECT_PUT of v, given the fields f the step has reached.  The last     *)
(* reference frees the object through vmar_free.                           *)
PutFields(f, v) == IF f[v].ref = 1 THEN [f EXCEPT ![v] = Freed]
                   ELSE [f EXCEPT ![v].ref = @ - 1]
(* An object_put that compares the count after the subtraction *)
PutAliveEarly(f, v) == IF f[v].ref <= 2 THEN alive \ {v} ELSE alive
PutAlive(f, v) == IF f[v].ref = 1 THEN alive \ {v} ELSE alive
(* the assertions of object_put and vmar_free *)
PutAsserts(f, v) == f[v].ref >= 1 /\ (f[v].ref = 1 => f[v].unmapped)

(* A thread that runs on an idle core may use any handle some thread has. *)
CanUse(c, v) == job[c].pc = "idle" /\ v \in held

-----------------------------------------------------------------------------
(* vmar_allocate and vmar_map *)

(* The object is set up with two references, the tree's and the caller's,  *)
(* then the tree is locked.                                                *)
Create(c, kind, par, n) ==
  /\ job[c].pc = "idle" /\ (par = Root \/ par \in held) /\ vm[par].kind = "region"
  /\ \E v \in Pool \ alive :
       /\ alive' = alive \cup {v}
       /\ vm' = [vm EXCEPT ![v] = Blank(kind)]
       /\ Exclusive(c, [Idle EXCEPT !.pc = "place", !.v = v, !.par = par, !.n = n,
                                    !.borrow = {par} \ {Root}])
  /\ UNCHANGED <<held, mutex, memVars>>

vmar_allocate(c, par, n) == Create(c, "region", par, n)
vmar_map(c, par, n) == Create(c, "mapping", par, n)

(* The error path: unlock, and errdefer FREE. *)
Abandon(c) ==
  /\ rw' = 0
  /\ alive' = alive \ {job[c].v}
  /\ vm' = [vm EXCEPT ![job[c].v] = Freed]
  /\ Goto(c, Idle)

(* vmar_link_internal, and the return of the new child *)
Link(c, range) ==
  /\ vm' = [vm EXCEPT ![job[c].v].parent = job[c].par, ![job[c].v].range = range]
  /\ held' = held \cup {job[c].v}
  /\ rw' = 0
  /\ Goto(c, Idle)

(* Where vmar_find_place may put a child: adjacent free pages of the parent. *)
Places(par, n) ==
  IF vm[par].unmapped THEN {}
  ELSE LET taken == UNION {vm[w].range : w \in Children(par)}
       IN  {r \in SUBSET (vm[par].range \ taken) :
              Cardinality(r) = n /\ \A a, b \in r : a..b \subseteq r}

(* vmar_find_place fails when the parent is unmapped, when no gap is large *)
(* enough or when the offset asked for is taken.                           *)
PlaceFails(c) ==
  /\ job[c].pc = "place"
  /\ Abandon(c)
  /\ UNCHANGED <<held, mutex, memVars>>

PlaceRegion(c) ==
  /\ job[c].pc = "place" /\ vm[job[c].v].kind = "region"
  /\ \E r \in Places(job[c].par, job[c].n) : Link(c, r)
  /\ UNCHANGED <<alive, mutex, memVars>>

(* vmar_map goes on to virt_reserve_page_tables: first the reservation. *)
PlaceMapping(c) ==
  /\ job[c].pc = "place" /\ vm[job[c].v].kind = "mapping"
  /\ \E r \in Places(job[c].par, job[c].n) :
       \/ /\ Available >= job[c].n
          /\ resv' = resv + job[c].n
          /\ Goto(c, [job[c] EXCEPT !.pc = "tables", !.todo = r])
          /\ UNCHANGED <<vm, alive, rw>>
       \/ Available < job[c].n /\ Abandon(c) /\ UNCHANGED resv
  /\ UNCHANGED <<held, mutex, pte, tables, free>>

(* virt_get_pte(addr, true) for each page allocates the tables that are    *)
(* missing, through phys_alloc: it needs a page nobody reserved.           *)
MissingTables(c) == {TableOf[p] : p \in job[c].todo} \ tables

MapTable(c) ==
  /\ job[c].pc = "tables" /\ MissingTables(c) # {} /\ Available >= 1
  /\ \E t \in MissingTables(c) : tables' = tables \cup {t}
  /\ \E f \in free : free' = free \ {f}
  /\ UNCHANGED <<vm, alive, held, rw, mutex, pte, resv, job>>

(* An error path that forgets the reservation *)
MapTablesFailKeeps(c) ==
  /\ job[c].pc = "tables" /\ MissingTables(c) # {} /\ Available < 1
  /\ Abandon(c)
  /\ UNCHANGED <<held, mutex, memVars>>

(* A table cannot be allocated: the reservation goes back, the tables made *)
(* so far stay.                                                            *)
MapTablesFail(c) ==
  /\ job[c].pc = "tables" /\ MissingTables(c) # {} /\ Available < 1
  /\ resv' = resv - job[c].n
  /\ Abandon(c)
  /\ UNCHANGED <<held, mutex, pte, tables, free>>

MapDone(c) ==
  /\ job[c].pc = "tables" /\ MissingTables(c) = {}
  /\ Link(c, job[c].todo)
  /\ UNCHANGED <<alive, mutex, memVars>>

-----------------------------------------------------------------------------
(* virt_populate of one page by a core that holds the mapping's mutex *)
PopulatePage(c, p) ==
  \/ Present(p) /\ UNCHANGED memVars /\ Goto(c, [job[c] EXCEPT !.todo = @ \ {p}])
  \/ /\ ~Present(p) /\ resv > 0 /\ free # {}
     /\ \E f \in free :
          /\ free' = free \ {f}
          /\ pte' = [pte EXCEPT ![p] = [state |-> "present", frame |-> f,
                                        global |-> job[c].global]]
     /\ resv' = resv - 1
     /\ UNCHANGED tables
     /\ Goto(c, [job[c] EXCEPT !.todo = @ \ {p}])
  \/ (* the allocation of a reserved page fails: assertion *)
     ~Present(p) /\ (resv = 0 \/ free = {}) /\ Fail(c) /\ UNCHANGED memVars

(* vmar_populate *)
vmar_populate(c, v) ==
  /\ CanUse(c, v) /\ vm[v].kind = "mapping"
  /\ Shared(c, [Idle EXCEPT !.pc = "pop_mutex", !.v = v, !.borrow = {v}])
  /\ UNCHANGED <<vm, alive, held, mutex, memVars>>

PopulateMutex(c) ==
  LET v == job[c].v
  IN  /\ job[c].pc = "pop_mutex"
      /\ UNCHANGED <<vm, alive, held, memVars>>
      /\ \/ mutex[v] = 1 /\ Stop(c) /\ UNCHANGED <<mutex, rw>>
         \/ /\ mutex[v] = 0 /\ vm[v].unmapped
            /\ rw' = rw - READER /\ Goto(c, Idle) /\ UNCHANGED mutex
         \/ /\ mutex[v] = 0 /\ ~vm[v].unmapped
            /\ mutex' = [mutex EXCEPT ![v] = 1]
            /\ Goto(c, [job[c] EXCEPT !.pc = "populate", !.todo = vm[v].range,
                                      !.global = vm[v].locked])
            /\ UNCHANGED rw

Populate(c) ==
  /\ job[c].pc = "populate" /\ job[c].todo # {}
  /\ PopulatePage(c, CHOOSE p \in job[c].todo : TRUE)
  /\ UNCHANGED <<vm, alive, held, rw, mutex>>

PopulateDone(c) ==
  /\ job[c].pc = "populate" /\ job[c].todo = {}
  /\ mutex' = [mutex EXCEPT ![job[c].v] = 0]
  /\ rw' = rw - READER
  /\ Goto(c, Idle)
  /\ UNCHANGED <<vm, alive, held, memVars>>

-----------------------------------------------------------------------------
(* virt_page_fault_handler *)

(* vmar_find_mapping descends to the mapping that covers the page. *)
MappingAt(p) == {v \in Pool : Linked(v) /\ vm[v].kind = "mapping" /\ p \in vm[v].range}

(* A search that hands the mapping out without a reference *)
NotReferenced(v) == vm

(* OBJECT_GET *)
Referenced(v) == [vm EXCEPT ![v].ref = @ + 1]

(* The shared lock, the search and OBJECT_GET.  A fault where nothing is   *)
(* mapped is the error path of the handler, which changes nothing.         *)
PageFault(c, p) ==
  /\ job[c].pc = "idle" /\ ~Present(p)
  /\ \/ rw = WRITER /\ Stop(c) /\ UNCHANGED <<vm, rw>>
     \/ \E v \in MappingAt(p) :
          /\ rw # WRITER /\ rw' = rw + READER
          /\ vm' = Referenced(v)
          /\ Goto(c, [Idle EXCEPT !.pc = "fault_mutex", !.v = v, !.todo = {p}])
  /\ UNCHANGED <<alive, held, mutex, memVars>>

(* mutex_lock, still under the shared lock *)
FaultMutex(c) ==
  LET v == job[c].v
  IN  /\ job[c].pc = "fault_mutex"
      /\ \/ mutex[v] = 1 /\ Stop(c) /\ UNCHANGED mutex
         \/ mutex[v] = 0 /\ mutex' = [mutex EXCEPT ![v] = 1] /\ Become(c, "fault_unlock")
      /\ UNCHANGED <<vm, alive, held, rw, memVars>>

(* vmar_find_mapping returns: from here only the mutex and the reference   *)
(* protect the mapping.                                                    *)
FaultUnlock(c) ==
  /\ job[c].pc = "fault_unlock"
  /\ rw' = rw - READER
  /\ Become(c, "fault_flags")
  /\ UNCHANGED <<vm, alive, held, mutex, memVars>>

(* vmar->locked is read under no rwlock. *)
FaultFlags(c) ==
  /\ job[c].pc = "fault_flags"
  /\ Goto(c, [job[c] EXCEPT !.pc = "fault", !.global = vm[job[c].v].locked])
  /\ UNCHANGED <<vm, alive, held, rw, mutex, memVars>>

FaultPopulate(c) ==
  /\ job[c].pc = "fault" /\ job[c].todo # {}
  /\ \E p \in job[c].todo : PopulatePage(c, p)
  /\ UNCHANGED <<vm, alive, held, rw, mutex>>

FaultMutexUnlock(c) ==
  /\ job[c].pc = "fault" /\ job[c].todo = {}
  /\ mutex' = [mutex EXCEPT ![job[c].v] = 0]
  /\ Become(c, "fault_put")
  /\ UNCHANGED <<vm, alive, held, rw, memVars>>

FaultPut(c) ==
  LET v == job[c].v
  IN  /\ job[c].pc = "fault_put"
      /\ \/ ~PutAsserts(vm, v) /\ Fail(c) /\ UNCHANGED <<vm, alive>>
         \/ /\ PutAsserts(vm, v)
            /\ vm' = PutFields(vm, v) /\ alive' = PutAlive(vm, v)
            /\ Goto(c, Idle)
      /\ UNCHANGED <<held, rw, mutex, memVars>>

-----------------------------------------------------------------------------
(* OBJECT_PUT of a handle, once no call uses it *)
Put(c, v) ==
  /\ CanUse(c, v) /\ \A d \in Cpus : v \notin job[d].borrow
  /\ held' = held \ {v}
  /\ \/ ~PutAsserts(vm, v) /\ Fail(c) /\ UNCHANGED <<vm, alive>>
     \/ /\ PutAsserts(vm, v)
        /\ vm' = PutFields(vm, v) /\ alive' = PutAlive(vm, v)
        /\ UNCHANGED job
  /\ UNCHANGED <<rw, mutex, memVars>>

-----------------------------------------------------------------------------
(* vmar_lock: pins a vmar and everything under it *)

(* Callers lock what they know to be mapped. *)
vmar_lock(c, v) ==
  /\ CanUse(c, v) /\ ~vm[v].unmapped
  /\ Exclusive(c, [Idle EXCEPT !.pc = "lock", !.v = v, !.top = v, !.borrow = {v}])
  /\ UNCHANGED <<vm, alive, held, mutex, memVars>>

(* vmar_lock_internal of job.v: the flag is set before the mutex is taken. *)
LockMark(c) ==
  /\ job[c].pc = "lock"
  /\ vm' = [vm EXCEPT ![job[c].v].locked = TRUE]
  /\ Goto(c, [job[c] EXCEPT
        !.pc = IF vm[job[c].v].kind = "mapping" THEN "lock_global" ELSE "lock_next",
        !.done = @ \cup {job[c].v}])
  /\ UNCHANGED <<alive, held, rw, mutex, memVars>>

(* virt_make_global without the mapping's mutex *)
LockGlobalNoMutex(c) ==
  /\ job[c].pc = "lock_global"
  /\ pte' = [p \in VPages |-> IF p \in vm[job[c].v].range /\ Present(p)
                              THEN [pte[p] EXCEPT !.global = TRUE] ELSE pte[p]]
  /\ Become(c, "lock_next")
  /\ UNCHANGED <<vm, alive, held, rw, mutex, tables, free, resv>>

(* virt_make_global, under the mapping's mutex *)
LockGlobal(c) ==
  LET v == job[c].v
  IN  /\ job[c].pc = "lock_global"
      /\ \/ mutex[v] = 1 /\ Stop(c) /\ UNCHANGED pte
         \/ /\ mutex[v] = 0
            /\ pte' = [p \in VPages |-> IF p \in vm[v].range /\ Present(p)
                                        THEN [pte[p] EXCEPT !.global = TRUE] ELSE pte[p]]
            /\ Become(c, "lock_next")
      /\ UNCHANGED <<vm, alive, held, rw, mutex, tables, free, resv>>

(* The recursion: on to a child of what is done already. *)
LockNext(c) ==
  LET left == {w \in Pool \ job[c].done : vm[w].parent \in job[c].done}
  IN  /\ job[c].pc = "lock_next"
      /\ \/ /\ left # {}
            /\ \E w \in left : Goto(c, [job[c] EXCEPT !.pc = "lock", !.v = w])
            /\ UNCHANGED rw
         \/ /\ left = {}
            /\ rw' = 0 /\ Goto(c, Idle)
      /\ UNCHANGED <<vm, alive, held, mutex, memVars>>

-----------------------------------------------------------------------------
(* vmar_unmap *)

(* Callers do not unmap what somebody pinned. *)
vmar_unmap(c, v) ==
  /\ CanUse(c, v)
  /\ Linked(v) => \A w \in Pool :
       Linked(w) /\ vm[w].range \subseteq vm[v].range => ~vm[w].locked
  /\ Exclusive(c, [Idle EXCEPT !.pc = "unmap_first", !.v = v, !.top = v, !.borrow = {v}])
  /\ UNCHANGED <<vm, alive, held, mutex, memVars>>

(* A second unmap of the same vmar goes through *)
UnmapFirstUnchecked(c) ==
  /\ job[c].pc = "unmap_first"
  /\ Become(c, "unmap")
  /\ UNCHANGED <<vm, alive, held, rw, mutex, memVars>>

(* A vmar that is unmapped already is left alone. *)
UnmapFirst(c) ==
  /\ job[c].pc = "unmap_first"
  /\ \/ vm[job[c].top].unmapped /\ rw' = 0 /\ Goto(c, Idle)
     \/ ~vm[job[c].top].unmapped /\ UNCHANGED rw /\ Become(c, "unmap")
  /\ UNCHANGED <<vm, alive, held, mutex, memVars>>

(* The whole range given back, populated pages too *)
EveryPage(range) == range
(* No reservation given back *)
NoPage(range) == {}

(* What the first pass of virt_free counts: entries that were never set,   *)
(* whose reservation is still outstanding                                  *)
Unpopulated(range) == {p \in range : pte[p] = Empty}

(* vmar_unmap_internal of job.v: its assertions, then its children in      *)
(* turn, or the first pass of virt_free under the mapping's mutex.         *)
Unmap(c) ==
  LET v == job[c].v
      range == vm[v].range
  IN  /\ job[c].pc = "unmap"
      /\ UNCHANGED <<vm, alive, held, rw, tables, free>>
      /\ \/ /\ vm[v].unmapped \/ vm[v].locked \/ ~Linked(v)
            /\ Fail(c) /\ UNCHANGED <<mutex, pte, resv>>
         \/ /\ ~vm[v].unmapped /\ ~vm[v].locked /\ vm[v].kind = "region"
            /\ \/ \E w \in Children(v) : Goto(c, [job[c] EXCEPT !.v = w])
               \/ Children(v) = {} /\ Become(c, "erase")
            /\ UNCHANGED <<mutex, pte, resv>>
         \/ /\ ~vm[v].unmapped /\ ~vm[v].locked /\ vm[v].kind = "mapping" /\ mutex[v] = 1
            /\ Stop(c) /\ UNCHANGED <<mutex, pte, resv>>
         \/ /\ ~vm[v].unmapped /\ ~vm[v].locked /\ vm[v].kind = "mapping" /\ mutex[v] = 0
            /\ mutex' = [mutex EXCEPT ![v] = 1]
            /\ \/ /\ \E p \in range : pte[p].global
                  /\ Fail(c) /\ UNCHANGED <<pte, resv>>
               \/ /\ \A p \in range : ~pte[p].global
                  /\ pte' = [p \in VPages |-> IF p \in range /\ pte[p] # Empty
                                              THEN [pte[p] EXCEPT !.state = "address"]
                                              ELSE pte[p]]
                  /\ resv' = resv - Cardinality(Unpopulated(range))
                  /\ Become(c, "free")

(* A second pass that frees the frames and leaves the entries *)
UnmapFreeKeepsEntries(c) ==
  LET range == vm[job[c].v].range
  IN  /\ job[c].pc = "free"
      /\ free' = free \cup ({pte[p].frame : p \in range} \ {NoFrame})
      /\ mutex' = [mutex EXCEPT ![job[c].v] = 0]
      /\ Become(c, "erase")
      /\ UNCHANGED <<vm, alive, held, rw, pte, tables, resv>>

(* A second pass that skips the entries the first one made not present *)
UnmapFreeSkips(c) ==
  /\ job[c].pc = "free"
  /\ mutex' = [mutex EXCEPT ![job[c].v] = 0]
  /\ Become(c, "erase")
  /\ UNCHANGED <<vm, alive, held, rw, memVars>>

(* The second pass of virt_free, after tlb_invl_commit *)
UnmapFree(c) ==
  LET range == vm[job[c].v].range
  IN  /\ job[c].pc = "free"
      /\ free' = free \cup ({pte[p].frame : p \in range} \ {NoFrame})
      /\ pte' = [p \in VPages |-> IF p \in range THEN Empty ELSE pte[p]]
      /\ mutex' = [mutex EXCEPT ![job[c].v] = 0]
      /\ Become(c, "erase")
      /\ UNCHANGED <<vm, alive, held, rw, tables, resv>>

(* The end of vmar_unmap_internal, and the OBJECT_PUT its caller does: the *)
(* loop over the children goes on with the parent, vmar_unmap unlocks.     *)
Erase(c) ==
  LET v == job[c].v
      gone == [vm EXCEPT ![v].parent = None, ![v].unmapped = TRUE]
  IN  /\ job[c].pc = "erase"
      /\ \/ ~PutAsserts(gone, v) /\ Fail(c) /\ UNCHANGED <<vm, alive, rw>>
         \/ /\ PutAsserts(gone, v)
            /\ vm' = PutFields(gone, v) /\ alive' = PutAlive(gone, v)
            /\ \/ v = job[c].top /\ rw' = 0 /\ Goto(c, Idle)
               \/ /\ v # job[c].top /\ UNCHANGED rw
                  /\ Goto(c, [job[c] EXCEPT !.pc = "unmap", !.v = vm[v].parent])
      /\ UNCHANGED <<held, mutex, memVars>>

-----------------------------------------------------------------------------
CoreStep(c) ==
  \/ \E par \in Vmars, n \in 1..Cardinality(VPages) :
       vmar_allocate(c, par, n) \/ vmar_map(c, par, n)
  \/ PlaceFails(c) \/ PlaceRegion(c) \/ PlaceMapping(c) \/ MapTable(c)
  \/ MapTablesFail(c) \/ MapDone(c)
  \/ \E v \in Pool : \/ vmar_populate(c, v) \/ vmar_lock(c, v)
                     \/ vmar_unmap(c, v) \/ Put(c, v)
  \/ PopulateMutex(c) \/ Populate(c) \/ PopulateDone(c)
  \/ \E p \in VPages : PageFault(c, p)
  \/ FaultMutex(c) \/ FaultUnlock(c) \/ FaultFlags(c) \/ FaultPopulate(c)
  \/ FaultMutexUnlock(c) \/ FaultPut(c)
  \/ LockMark(c) \/ LockGlobal(c) \/ LockNext(c)
  \/ UnmapFirst(c) \/ Unmap(c) \/ UnmapFree(c) \/ Erase(c)

VmarNext == \E c \in Cpus : CoreStep(c)

VmarSpec == VmarInit /\ [][VmarNext]_vmarVars

-----------------------------------------------------------------------------
(* Properties *)

(* No assertion of vmar.c, virt.c or object.h fails when callers keep      *)
(* their contract, apart from the slow paths of the locks: a populate      *)
(* always gets its reserved page (virt.c:126), a freed page is never       *)
(* global (virt.c:217), an object is freed only after it was unmapped      *)
(* (vmar.c:524) and a reference count never goes below zero.               *)
NoPanic == \A c \in Cpus : job[c].pc # "panic"

(* A core that took a reference of its own, in vmar_find_mapping *)
OwnsRef(c, v) == job[c].v = v /\ job[c].borrow = {} /\ job[c].par = None

(* Every vmar somebody can still reach is alive: through a handle, the     *)
(* tree, a fault that has dropped the rwlock, or a call in progress.       *)
NoUseAfterFree ==
  /\ held \subseteq alive
  /\ \A v \in Pool : Linked(v) => v \in alive /\ vm[v].parent \in alive
  /\ \A c \in Cpus : {job[c].v, job[c].top, job[c].par} \ {None} \subseteq alive

(* The reference count is the number of references, so an object is freed  *)
(* by exactly the last of them and none is leaked.                         *)
RefCountExact ==
  \A v \in alive \ {Root} :
    vm[v].ref =
      IF \E c \in Cpus : job[c].v = v /\ job[c].par # None THEN 2
      ELSE (IF Linked(v) THEN 1 ELSE 0) + (IF v \in held THEN 1 ELSE 0)
           + Cardinality({c \in Cpus : OwnsRef(c, v)})

(* Mappings a core is taking down: past the first pass of virt_free *)
TornDown == {job[c].v : c \in {d \in Cpus : job[d].pc \in {"free", "erase"}}}

(* The reserved pages are exactly the pages that live mappings have yet to *)
(* populate, plus the reservation of a vmar_map that is not linked yet:    *)
(* no error path, fault or unmap loses or duplicates a reservation.        *)
ReservationsExact ==
  LET owed == {p \in VPages : /\ pte[p] = Empty
                              /\ MappingAt(p) \ TornDown # {}}
      mapping == {c \in Cpus : job[c].pc = "tables"}
  IN  resv = Cardinality(owed)
             + (IF mapping = {} THEN 0 ELSE job[CHOOSE c \in mapping : TRUE].n)

(* No frame is lost or has two uses: each is in the allocator, in exactly  *)
(* one page table entry, or a page table.                                  *)
FramesConserved ==
  LET used == {p \in VPages : pte[p] # Empty}
  IN  /\ \A p \in used : pte[p].frame \notin free
      /\ \A p, q \in used : p # q => pte[p].frame # pte[q].frame
      /\ Cardinality(free) + Cardinality(used) + Cardinality(tables) = Cardinality(Frames)

(* Virtual pages that no linked mapping covers have no entry, so a later   *)
(* mapping of the same range never finds the pages of an earlier one.      *)
NoEntryWithoutMapping ==
  \A p \in VPages : pte[p] # Empty => MappingAt(p) # {}

(* After vmar_lock returns every populated page of the mapping is global,  *)
(* also the ones populated by faults that overlap with it.                 *)
LockedIsGlobal ==
  rw # WRITER =>
    \A v \in Pool : Linked(v) /\ vm[v].kind = "mapping" /\ vm[v].locked =>
      \A p \in vm[v].range : Present(p) => pte[p].global
=============================================================================
