-------------------------------- MODULE Boot --------------------------------
(***************************************************************************)
(* boot/entry.c: how the init thread starts the other cores, and what a    *)
(* core does (core_entry, gdt_init, tss_init of boot/gdt.c) until its idle *)
(* thread runs and sched_wait counts it.                                   *)
(*                                                                         *)
(* For each interrupt stack a core makes four calls: vmar_allocate,        *)
(* vmar_map and vmar_populate in stack_alloc, and vmar_lock.  Only the     *)
(* locks they take matter here: m_vmar_lock, whose steps are those of      *)
(* RwLock, and the mutexes of the slab of vmars and of the physical        *)
(* memory.  Vmar, Slab and Phys have what they do under them.  The slow    *)
(* path of a mutex is an assertion too, and so is a stack_alloc that       *)
(* fails.  The TSS lock is a spinlock.                                     *)
(***************************************************************************)
EXTENDS RwLock, Sequences       \* RwLock is of m_vmar_lock

CONSTANTS
  Bsp,      \* the boot core, which runs the init thread
  NumIst    \* TSS_IST_MAX - 1 interrupt stacks

ASSUME BootAssumption == Bsp \in Cpus /\ NumIst \in Nat

Aps == Cpus \ {Bsp}

VARIABLES
  done,      \* per core, pieces of work for its stacks begun so far
  todo,      \* per core, lock steps left of a piece
  taken,     \* the mutexes that are locked
  tssLock,   \* m_tss_lock
  tss,       \* g_gdt_entries.tss: whose TSS it describes, and its busy bit
  tr,        \* per core, the TSS its task register holds
  count,     \* m_sched_start_count
  pc         \* where each core is

lockVars == <<rwVars, done, todo, taken>>
bootVars == <<lockVars, tssLock, tss, tr, count, pc>>

None == "none"

(* _start has set up the boot core, whose idle thread has counted itself   *)
(* before the init thread runs.                                            *)
BootInit ==
  /\ RwInit
  /\ tssLock = FALSE /\ count = 1
  /\ done = [c \in Cpus |-> 0] /\ todo = [c \in Cpus |-> <<>>] /\ taken = {}
  /\ tss = [base |-> Bsp, busy |-> TRUE]
  /\ tr = [c \in Cpus |-> IF c = Bsp THEN Bsp ELSE None]
  /\ pc = [c \in Cpus |-> IF c = Bsp THEN "start_cores" ELSE "off"]

Step(c, from, to) == pc[c] = from /\ pc' = [pc EXCEPT ![c] = to]

-----------------------------------------------------------------------------
(* start_cores, in the init thread *)

(* One turn of the loop: the store to goto_address lets a core run. *)
ReleaseCore(c) ==
  /\ pc[Bsp] = "start_cores"
  /\ Step(c, "off", "call")
  /\ UNCHANGED <<lockVars, tssLock, tss, tr, count>>

(* The loop has seen every core: sched_wait. *)
LoopDone ==
  /\ \A c \in Aps : pc[c] # "off"
  /\ Step(Bsp, "start_cores", "sched_wait")
  /\ UNCHANGED <<lockVars, tssLock, tss, tr, count>>

sched_wait ==
  /\ count = Cardinality(Cpus)
  /\ Step(Bsp, "sched_wait", "done")
  /\ UNCHANGED <<lockVars, tssLock, tss, tr, count>>

-----------------------------------------------------------------------------
(* tss_init: the vmar calls for the interrupt stacks *)

(* What a core does for a stack, cut into pieces.  A piece is the set of   *)
(* sequences of lock steps that its branches give; which of them is taken  *)
(* depends on the slabs and on the memory left, so any may be.             *)

(* Code between the lock and the unlock of l *)
Under(l, code) ==
  (IF l = "shared" THEN <<<<"load", l>>>> ELSE <<>>)
    \o <<<<"lock", l>>>> \o code \o <<<<"unlock", l>>>>

phys_alloc == Under("phys", <<>>)
mem_free == Under("slab", <<>>)
Fail == <<<<"fail", "stack_alloc">>>>

(* mem_alloc: slab_create may need a page, and may not get it.  The steps  *)
(* of undo are the error path of the caller.                               *)
mem_alloc(undo) ==
  {Under("slab", <<>>), Under("slab", phys_alloc), Under("slab", phys_alloc) \o undo}

(* vmar_allocate_static, which may find no place *)
vmar_allocate_static == {Under("exclusive", <<>>), Under("exclusive", <<>>) \o mem_free \o Fail}

(* Once the region is there, stack_alloc unmaps and puts it on an error. *)
UndoRegion == Under("exclusive", <<>>) \o mem_free \o Fail

(* The rest of vmar_map: under the lock virt_reserve_page_tables takes the *)
(* page tables, of which at most one is missing, or fails.                 *)
ReserveAndLink ==
  LET held == {Under("exclusive", <<>>), Under("exclusive", phys_alloc)}
  IN  held \cup {h \o mem_free \o UndoRegion : h \in held}

(* vmar_populate: the page of the stack.  The mutex of a mapping is taken  *)
(* by its own core only.                                                   *)
vmar_populate == {Under("shared", phys_alloc)}
vmar_lock == {Under("exclusive", <<>>)}

Pieces == <<mem_alloc(Fail), vmar_allocate_static, mem_alloc(UndoRegion), ReserveAndLink,
            vmar_populate, vmar_lock>>

More(c) == done[c] < Len(Pieces) * NumIst

mutex_lock(c, m) ==
  /\ \/ m \notin taken /\ taken' = taken \cup {m} /\ UNCHANGED pc
     \/ m \in taken /\ UNCHANGED taken /\ Step(c, "call", "halted")
  /\ UNCHANGED rwVars

mutex_unlock(m) == taken' = taken \ {m} /\ UNCHANGED <<rwVars, pc>>

LockStep(c, step, l) ==
  \/ l \in {"slab", "phys"} /\ step = "lock" /\ mutex_lock(c, l)
  \/ l \in {"slab", "phys"} /\ step = "unlock" /\ mutex_unlock(l)
  \/ /\ l = "exclusive" /\ UNCHANGED <<taken, pc>>
     /\ \/ step = "lock" /\ rwlock_lock_exclusive(c)
        \/ step = "unlock" /\ rwlock_unlock_exclusive(c)
  \/ /\ l = "shared" /\ UNCHANGED <<taken, pc>>
     /\ \/ step = "load" /\ SharedLoad(c)
        \/ step = "lock" /\ SharedCas(c)
        \/ step = "unlock" /\ rwlock_unlock_shared(c)
  \/ step = "fail" /\ Step(c, "call", "panic") /\ UNCHANGED <<rwVars, taken>>

(* What a core may do next: the rest of a piece, or the next one *)
Paths(c) ==
  IF todo[c] # <<>> THEN {todo[c]}
  ELSE IF More(c) THEN Pieces[(done[c] % Len(Pieces)) + 1]
  ELSE {}

CallStep(c) ==
  /\ pc[c] = "call" /\ mode[c] # "halted"
  /\ \E path \in Paths(c) :
       /\ LockStep(c, Head(path)[1], Head(path)[2])
       /\ todo' = [todo EXCEPT ![c] = Tail(path)]
  /\ done' = [done EXCEPT ![c] = IF todo[c] = <<>> THEN @ + 1 ELSE @]
  /\ UNCHANGED <<tssLock, tss, tr, count>>

Called(c) == todo[c] = <<>> /\ ~More(c)

(* tss_init: one descriptor for all cores, rewritten and loaded in turn *)

(* The lock left out *)
TssUnlocked(c) ==
  /\ Called(c)
  /\ Step(c, "call", "tss")
  /\ UNCHANGED <<lockVars, tssLock, tss, tr, count>>

TssLock(c) ==
  /\ Called(c) /\ ~tssLock
  /\ tssLock' = TRUE
  /\ Step(c, "call", "tss")
  /\ UNCHANGED <<lockVars, tss, tr, count>>

TssWrite(c) ==
  /\ Step(c, "tss", "ltr")
  /\ tss' = [base |-> c, busy |-> FALSE]
  /\ UNCHANGED <<lockVars, tssLock, tr, count>>

(* ltr faults on a busy descriptor. *)
Ltr(c) ==
  /\ \/ ~tss.busy /\ Step(c, "ltr", "tss_unlock")
     \/ tss.busy /\ Step(c, "ltr", "fault")
  /\ tr' = [tr EXCEPT ![c] = tss.base]
  /\ tss' = [base |-> tss.base, busy |-> TRUE]
  /\ UNCHANGED <<lockVars, tssLock, count>>

TssUnlock(c) ==
  /\ Step(c, "tss_unlock", "idle")
  /\ tssLock' = FALSE
  /\ UNCHANGED <<lockVars, tss, tr, count>>

(* A core that does not count itself *)
IdleUncounted(c) ==
  /\ Step(c, "idle", "scheduling")
  /\ UNCHANGED <<lockVars, tssLock, tss, tr, count>>

(* sched_start_per_core: the idle thread counts its core. *)
scheduler_idle_thread(c) ==
  /\ Step(c, "idle", "scheduling")
  /\ count' = count + 1
  /\ UNCHANGED <<lockVars, tssLock, tss, tr>>

-----------------------------------------------------------------------------
CoreStep(c) ==
  \/ CallStep(c)
  \/ TssLock(c) \/ TssWrite(c) \/ Ltr(c) \/ TssUnlock(c) \/ scheduler_idle_thread(c)

InitStep == LoopDone \/ sched_wait \/ \E c \in Aps : ReleaseCore(c)

BootNext == InitStep \/ \E c \in Aps : CoreStep(c)

(* Cores execute.  It is enough that some core does: every step is         *)
(* progress, a turn of a spinning loop being none, so the spinlock may be  *)
(* unfair and a core slow.                                                 *)
BootSpec == BootInit /\ [][BootNext]_bootVars /\ WF_bootVars(BootNext)

-----------------------------------------------------------------------------
(* Properties *)

(* All cores share one TSS descriptor, yet each loads its own TSS and no   *)
(* ltr finds the descriptor busy.                                          *)
OwnTss == \A c \in Cpus : tr[c] \in {None, c} /\ pc[c] # "fault"

(* A core stopped in the slow path of a lock. *)
SlowPath(c) == mode[c] = "halted" \/ pc[c] = "halted"

(* The start up ends, unless a core stops: in the slow path of m_vmar_lock *)
(* or of a mutex that another core has, or in the assertion of tss_init    *)
(* because there is no memory for its stacks.                              *)
StartUpEnds == <>(pc[Bsp] = "done" \/ \E c \in Aps : SlowPath(c) \/ pc[c] = "panic")

(* start_cores: "we start the cores one by one because we don't want any   *)
(* mutexes to trigger the slow path": no core needs the slow path.         *)
NoSlowPath == \A c \in Cpus : ~SlowPath(c)
=============================================================================
