-------------------------------- MODULE Sched --------------------------------
(***************************************************************************)
(* thread/sched.c, thread/runq.c, thread/thread.c: threads, the run queue  *)
(* of each core and the switch between threads.                            *)
(*                                                                         *)
(* The per core data (run queue, current and last thread, the action to do *)
(* after a switch) is touched by its own core only, and the scheduler runs *)
(* with interrupts off.  What other cores see is the state of a thread and *)
(* its reference count, so a call of the scheduler is cut where it reads   *)
(* or writes those: the load that opens scheduler_schedule, the switch,    *)
(* and the cleanup that runs on the stack of the next thread.              *)
(*                                                                         *)
(* Creating and freeing a thread use the vmar tree, the slabs and the      *)
(* physical memory.  The slow paths of their locks are assertions, so a    *)
(* core that finds one taken stops there: pc "halted".                     *)
(*                                                                         *)
(* Parking is half there: the scheduler handles a PARKING thread, but the  *)
(* code that parks and scheduler_try_unpark is not in the tree.  Both are  *)
(* modelled from the transitions thread.h lists and the comments of        *)
(* scheduler_finish_park.                                                  *)
(***************************************************************************)
EXTENDS Integers, FiniteSets, Sequences, SequencesExt

CONSTANTS
  Cpus,        \* the cores
  BootCpu,     \* the core that ran _start
  Threads,     \* thread objects mem_alloc can hand out
  InitThread,  \* the thread _start creates and starts
  IdleOf,      \* g_idle_thread of each core
  Regions,     \* vmars stack_alloc can hand out
  InitStack,   \* the one it gave to the init thread
  None,        \* nullptr
  CanPark,     \* do threads park (not in the tree yet)
  DebugBuild   \* is DEBUG_ASSERT compiled in

Idles == {IdleOf[c] : c \in Cpus}

ASSUME SchedAssumption ==
  /\ BootCpu \in Cpus /\ InitThread \in Threads /\ InitStack \in Regions
  /\ {CanPark, DebugBuild} \subseteq BOOLEAN
  /\ IsFiniteSet(Cpus) /\ IsFiniteSet(Threads)
  /\ None \notin Threads \cup Idles \cup Regions /\ Threads \cap Idles = {}
  /\ \A c, d \in Cpus : IdleOf[c] = IdleOf[d] => c = d

VARIABLES
  state,       \* thread->state, "NONE" while the object is not allocated
  ref,         \* thread->object.ref_count
  handles,     \* threads to which someone else than the scheduler has a reference
  stack,       \* thread->kernel_stack
  regionRef,   \* reference count of each stack region
  mapped,      \* stack regions that are mapped
  fresh,       \* threads whose entry point has not been reached
  runq,        \* m_run_queue of each core
  current,     \* g_current_thread of each core
  last,        \* g_last_thread of each core
  action,      \* g_last_thread_action of each core
  irq,         \* are interrupts enabled on a core
  pc           \* where each core is

objVars == <<handles, stack, regionRef, mapped>>
cpuVars == <<runq, current, last, action, irq, pc>>
schedVars == <<state, ref, fresh, objVars, cpuVars>>

(* sched_init has made the idle threads, _start the init thread. *)
SchedInit ==
  /\ state = [t \in Threads \cup Idles |->
                IF t \in Idles \cup {InitThread} THEN "READY" ELSE "NONE"]
  /\ ref = [t \in Threads \cup Idles |-> IF t \in Idles \cup {InitThread} THEN 1 ELSE 0]
  /\ handles = {}
  /\ stack = [t \in Threads |-> IF t = InitThread THEN InitStack ELSE None]
  /\ regionRef = [r \in Regions |-> IF r = InitStack THEN 2 ELSE 0]
  /\ mapped = {InitStack}
  /\ fresh = Idles \cup {InitThread}
  /\ runq = [c \in Cpus |-> IF c = BootCpu THEN <<InitThread>> ELSE <<>>]
  /\ current = [c \in Cpus |-> None]
  /\ last = [c \in Cpus |-> None]
  /\ action = [c \in Cpus |-> "NONE"]
  /\ irq = [c \in Cpus |-> FALSE]
  /\ pc = [c \in Cpus |-> "boot"]

-----------------------------------------------------------------------------
(* Helpers *)

At(c, where) == pc[c] = where
Goto(c, where) == pc' = [pc EXCEPT ![c] = where]
Halt(c, why) == Goto(c, why)

(* A core executes the code of thread t. *)
Runs(c, t) == At(c, "run") /\ current[c] = t /\ t \in Threads

(* run_queue_put: list_add links after the head, so in front. *)
run_queue_put(c, t) == runq' = [runq EXCEPT ![c] = <<t>> \o @]

(* A thread that goes on to be READY is queued, unless it is the idle one. *)
Requeue(c, t) == IF t # IdleOf[c] THEN run_queue_put(c, t) ELSE UNCHANGED runq

(* A run_queue_get that forgets list_del *)
QueuePeeked(c) == runq[c]

(* run_queue_get takes the first entry; sched_select_thread falls back to  *)
(* the idle thread.                                                        *)
QueueTaken(c) == IF runq[c] = <<>> THEN <<>> ELSE Tail(runq[c])
sched_select_thread(c) == IF runq[c] = <<>> THEN IdleOf[c] ELSE Head(runq[c])

(* OBJECT_PUT of a thread.  The last reference frees it: vmar_unmap takes  *)
(* its stack out of the tree, which drops the reference of the tree, and   *)
(* the object goes back to the slab.                                       *)
ObjectPut(t) ==
  /\ ref' = [ref EXCEPT ![t] = @ - 1]
  /\ IF ref[t] = 1
     THEN /\ state' = [state EXCEPT ![t] = "NONE"]
          /\ mapped' = mapped \ {stack[t]}
          /\ regionRef' = [regionRef EXCEPT ![stack[t]] = @ - 1]
          /\ stack' = [stack EXCEPT ![t] = None]
     ELSE UNCHANGED <<state, mapped, regionRef, stack>>

(* Another core is where it may have a lock of the vmar tree, a slab or    *)
(* the physical memory, or stopped there.                                  *)
Contended(c) == \E d \in Cpus \ {c} : pc[d] \in {"boot", "run", "after", "halted"}

(* OBJECT_PUT of the last reference that stops in a taken lock: m_vmar_lock *)
(* of vmar_unmap, a mutex that virt_free or the put of the mapping takes   *)
(* while the stack goes, or the mutex of the slab of threads.              *)
ObjectPutHalts(c, t) ==
  /\ ref[t] = 1 /\ Contended(c)
  /\ ref' = [ref EXCEPT ![t] = 0]
  /\ \/ UNCHANGED <<mapped, regionRef>>
     \/ mapped' = mapped \ {stack[t]} /\ UNCHANGED regionRef
     \/ /\ mapped' = mapped \ {stack[t]}
        /\ regionRef' = [regionRef EXCEPT ![stack[t]] = @ - 1]
  /\ Halt(c, "halted")
  /\ UNCHANGED <<state, stack>>

-----------------------------------------------------------------------------
(* thread_bootstrap: into thread t, from no thread *)
thread_bootstrap(c, t) ==
  /\ state' = [state EXCEPT ![t] = "RUNNING"]
  /\ current' = [current EXCEPT ![c] = t]
  /\ Goto(c, "after")

sched_start_per_core(c) ==
  /\ At(c, "boot")
  /\ irq' = [irq EXCEPT ![c] = FALSE]
  /\ thread_bootstrap(c, IdleOf[c])
  /\ UNCHANGED <<ref, fresh, objVars, runq, last, action>>

(* Operations of a running thread *)

(* thread_create: the object with its one reference, then stack_alloc.  If *)
(* that fails it has undone its work and the object is freed again, so     *)
(* nothing is left.                                                        *)
thread_create(c, t) ==
  /\ state[t] = "NONE"
  /\ \/ /\ \E r \in Regions :
             /\ regionRef[r] = 0
             /\ stack' = [stack EXCEPT ![t] = r]
             /\ regionRef' = [regionRef EXCEPT ![r] = 2]
             /\ mapped' = mapped \cup {r}
        /\ state' = [state EXCEPT ![t] = "IDLE"]
        /\ ref' = [ref EXCEPT ![t] = 1]
        /\ fresh' = fresh \cup {t}
        /\ UNCHANGED <<handles, cpuVars>>
     \/ UNCHANGED schedVars

(* thread_create that never returns: it met a taken lock on the way, or    *)
(* mem_alloc had no object and thread.c:43 writes through nullptr, a fault *)
(* outside of every mapping.  Nobody else knows what it had made.          *)
CreateHalts(c) ==
  /\ Halt(c, "halted")
  /\ UNCHANGED <<state, ref, fresh, objVars, runq, current, last, action, irq>>

thread_start(c, t) ==
  /\ state[t] = "IDLE"
  /\ state' = [state EXCEPT ![t] = "READY"]
  /\ run_queue_put(c, t)
  /\ UNCHANGED <<ref, fresh, objVars, current, last, action, irq, pc>>

(* OBJECT_GET by the creator, before the thread can die, and its OBJECT_PUT *)
thread_get(c, t) ==
  /\ state[t] = "IDLE" /\ t \notin handles
  /\ ref' = [ref EXCEPT ![t] = @ + 1]
  /\ handles' = handles \cup {t}
  /\ UNCHANGED <<state, fresh, stack, regionRef, mapped, cpuVars>>

thread_put(c, t) ==
  /\ t \in handles
  /\ ObjectPut(t)
  /\ handles' = handles \ {t}
  /\ UNCHANGED <<fresh, cpuVars>>

PutHalts(c, t) ==
  /\ t \in handles
  /\ ObjectPutHalts(c, t)
  /\ handles' = handles \ {t}
  /\ UNCHANGED <<fresh, runq, current, last, action, irq>>

thread_exit(c) ==
  /\ state[current[c]] = "RUNNING"
  /\ state' = [state EXCEPT ![current[c]] = "DEAD"]
  /\ irq' = [irq EXCEPT ![c] = FALSE]
  /\ Goto(c, "schedule")
  /\ UNCHANGED <<ref, fresh, objVars, runq, current, last, action>>

thread_yield(c) ==
  /\ state[current[c]] = "RUNNING"
  /\ \/ DebugBuild /\ ~irq[c] /\ Halt(c, "panic_irq") /\ UNCHANGED irq
     \/ /\ DebugBuild => irq[c]
        /\ irq' = [irq EXCEPT ![c] = FALSE]
        /\ Goto(c, "schedule")
  /\ UNCHANGED <<state, ref, fresh, objVars, runq, current, last, action>>

-----------------------------------------------------------------------------
(* Parking, which is not in the tree *)

(* RUNNING -> PARKING by the thread itself *)
park_begin(c) ==
  /\ CanPark /\ state[current[c]] = "RUNNING"
  /\ state' = [state EXCEPT ![current[c]] = "PARKING"]
  /\ UNCHANGED <<ref, fresh, objVars, cpuVars>>

(* The wait condition no longer holds: PARKING -> RUNNING, or the READY a  *)
(* concurrent unpark left -> RUNNING.                                      *)
park_abort(c) ==
  /\ state[current[c]] \in {"PARKING", "READY"}
  /\ state' = [state EXCEPT ![current[c]] = "RUNNING"]
  /\ UNCHANGED <<ref, fresh, objVars, cpuVars>>

(* It does: into the scheduler. *)
park_schedule(c) ==
  /\ state[current[c]] \in {"PARKING", "READY"}
  /\ irq' = [irq EXCEPT ![c] = FALSE]
  /\ Goto(c, "schedule")
  /\ UNCHANGED <<state, ref, fresh, objVars, runq, current, last, action>>

(* A compare and swap to READY; who finds the thread PARKED enqueues it on *)
(* its own core.  The caller is a thread, or an interrupt of an idle core, *)
(* which then schedules.                                                   *)
scheduler_try_unpark(c, t) ==
  /\ t \in handles /\ state[t] \in {"PARKING", "PARKED"}
  /\ state' = [state EXCEPT ![t] = "READY"]
  /\ \/ state[t] = "PARKED" /\ run_queue_put(c, t)
     \/ state[t] = "PARKING" /\ UNCHANGED runq
  /\ \/ At(c, "run") /\ UNCHANGED pc
     \/ At(c, "hlt") /\ Goto(c, "schedule")
  /\ UNCHANGED <<ref, fresh, objVars, current, last, action, irq>>

-----------------------------------------------------------------------------
(* scheduler_schedule *)

(* A scheduler that finishes the park before the switch *)
ScheduleParksEarly(c) ==
  LET t == current[c]
  IN  /\ At(c, "schedule")
      /\ UNCHANGED <<ref, fresh, objVars, current, irq>>
      /\ last' = [last EXCEPT ![c] = t]
      /\ \/ /\ state[t] = "DEAD" /\ action' = [action EXCEPT ![c] = "PUT"]
            /\ Goto(c, "select") /\ UNCHANGED <<state, runq>>
         \/ /\ state[t] = "PARKING" /\ state' = [state EXCEPT ![t] = "PARKED"]
            /\ Goto(c, "select") /\ UNCHANGED <<action, runq>>
         \/ /\ state[t] = "RUNNING" /\ state' = [state EXCEPT ![t] = "READY"]
            /\ Requeue(c, t)
            /\ Goto(c, "select") /\ UNCHANGED action

(* A scheduler that drops the reference of a dead thread before the switch *)
SchedulePutsEarly(c) ==
  LET t == current[c]
  IN  /\ At(c, "schedule")
      /\ UNCHANGED <<fresh, handles, current, action, irq>>
      /\ last' = [last EXCEPT ![c] = t]
      /\ \/ /\ state[t] = "DEAD" /\ ObjectPut(t)
            /\ Goto(c, "select") /\ UNCHANGED runq
         \/ /\ state[t] = "RUNNING" /\ state' = [state EXCEPT ![t] = "READY"]
            /\ Requeue(c, t)
            /\ Goto(c, "select") /\ UNCHANGED <<ref, stack, regionRef, mapped>>

(* Up to the choice of the next thread.  Any other state is an assertion.  *)
scheduler_schedule(c) ==
  LET t == current[c]
  IN  /\ At(c, "schedule")
      /\ UNCHANGED <<ref, fresh, objVars, current, irq>>
      /\ \/ /\ state[t] = "DEAD"
            /\ action' = [action EXCEPT ![c] = "PUT"]
            /\ last' = [last EXCEPT ![c] = t]
            /\ Goto(c, "select") /\ UNCHANGED <<state, runq>>
         \/ /\ state[t] = "PARKING"
            /\ action' = [action EXCEPT ![c] = "PARK"]
            /\ last' = [last EXCEPT ![c] = t]
            /\ Goto(c, "select") /\ UNCHANGED <<state, runq>>
         \/ /\ state[t] = "RUNNING"
            /\ state' = [state EXCEPT ![t] = "READY"]
            /\ Requeue(c, t)
            /\ last' = [last EXCEPT ![c] = t]
            /\ Goto(c, "select") /\ UNCHANGED action
         \/ /\ state[t] \notin {"DEAD", "PARKING", "RUNNING"}
            /\ Halt(c, "panic_state") /\ UNCHANGED <<state, runq, last, action>>

(* The choice, and the switch to the stack of the chosen thread *)
SelectAndSwitch(c) ==
  LET t == sched_select_thread(c)
  IN  /\ At(c, "select")
      /\ runq' = [runq EXCEPT ![c] = QueueTaken(c)]
      /\ \/ /\ state[t] # "READY" /\ Halt(c, "panic")
            /\ UNCHANGED <<state, current>>
         \/ /\ state[t] = "READY" /\ Goto(c, "after")
            /\ state' = [state EXCEPT ![t] = "RUNNING"]
            /\ current' = [current EXCEPT ![c] = t]
      /\ UNCHANGED <<ref, fresh, objVars, last, action, irq>>

(* A finish that takes every failed exchange for someone else's business *)
FinishParkOnly(c) ==
  /\ UNCHANGED <<ref, objVars, runq>>
  /\ \/ state[last[c]] = "PARKING" /\ state' = [state EXCEPT ![last[c]] = "PARKED"]
     \/ state[last[c]] # "PARKING" /\ UNCHANGED state

(* scheduler_finish_park: park, or enqueue what was unparked meanwhile *)
scheduler_finish_park(c) ==
  /\ UNCHANGED <<ref, objVars>>
  /\ \/ /\ state[last[c]] = "PARKING"
        /\ state' = [state EXCEPT ![last[c]] = "PARKED"] /\ UNCHANGED runq
     \/ /\ state[last[c]] = "READY"
        /\ run_queue_put(c, last[c]) /\ UNCHANGED state
     \/ state[last[c]] \notin {"PARKING", "READY"} /\ UNCHANGED <<state, runq>>

(* A cleanup that does not know what a dead thread is *)
CleanupNoPut(c) ==
  \/ action[c] = "PARK" /\ scheduler_finish_park(c)
  \/ action[c] # "PARK" /\ UNCHANGED <<state, ref, objVars, runq>>

(* The three cases of scheduler_after_schedule *)
Cleanup(c) ==
  \/ action[c] = "NONE" /\ UNCHANGED <<state, ref, objVars, runq>>
  \/ action[c] = "PARK" /\ scheduler_finish_park(c)
  \/ /\ action[c] = "PUT" /\ ref[last[c]] >= 1
     /\ ObjectPut(last[c]) /\ UNCHANGED <<handles, runq>>

(* Where a core goes after the cleanup, on the stack of the thread that    *)
(* runs now: a new thread enters its entry point with interrupts still     *)
(* off, a thread that yielded turns them on, and the idle thread enters    *)
(* its loop or, back from scheduler_schedule in the loop, executes hlt.    *)
Resume(c, t) ==
  /\ fresh' = fresh \ {t}
  /\ irq' = [irq EXCEPT ![c] = t \notin fresh /\ t \in Threads]
  /\ Goto(c, IF t \in Threads THEN "run" ELSE IF t \in fresh THEN "schedule" ELSE "hlt")

scheduler_after_schedule(c) ==
  /\ At(c, "after")
  /\ Cleanup(c)
  /\ last' = [last EXCEPT ![c] = None]
  /\ action' = [action EXCEPT ![c] = "NONE"]
  /\ Resume(c, current[c])
  /\ UNCHANGED current

(* The put of a dead thread stops in a taken lock. *)
CleanupHalts(c) ==
  /\ At(c, "after") /\ action[c] = "PUT"
  /\ ObjectPutHalts(c, last[c])
  /\ UNCHANGED <<fresh, handles, runq, current, last, action, irq>>

(* An interrupt ends the hlt of scheduler_idle_loop. *)
WakeUp(c) ==
  /\ At(c, "hlt")
  /\ Goto(c, "schedule")
  /\ UNCHANGED <<state, ref, fresh, objVars, runq, current, last, action, irq>>

-----------------------------------------------------------------------------
ThreadStep(c, t) ==
  /\ Runs(c, t)
  /\ \/ \E u \in Threads : \/ thread_create(c, u) \/ thread_start(c, u)
                           \/ thread_get(c, u) \/ thread_put(c, u) \/ PutHalts(c, u)
     \/ CreateHalts(c) \/ thread_exit(c) \/ thread_yield(c)
     \/ park_begin(c) \/ park_abort(c) \/ park_schedule(c)

SchedulerStep(c) ==
  \/ sched_start_per_core(c) \/ scheduler_schedule(c)
  \/ SelectAndSwitch(c) \/ scheduler_after_schedule(c) \/ CleanupHalts(c)

SchedNext == \E c \in Cpus :
  \/ SchedulerStep(c) \/ WakeUp(c)
  \/ \E t \in Threads : ThreadStep(c, t) \/ scheduler_try_unpark(c, t)

SchedSpec == SchedInit /\ [][SchedNext]_schedVars

(* A core that is in the scheduler goes on: interrupts are off and nothing *)
(* in it waits, so it leaves the scheduler or stops in a taken lock.       *)
(* Whether an interrupt ever ends a hlt is left open.                      *)
SchedFairSpec == SchedSpec /\ \A c \in Cpus : WF_schedVars(SchedulerStep(c))

(* Moreover the running thread, whatever else it does, yields or exits     *)
(* again and again.                                                        *)
CooperativeSpec ==
  /\ SchedFairSpec
  /\ \A c \in Cpus : SF_schedVars(\E t \in Threads :
                       Runs(c, t) /\ (thread_yield(c) \/ thread_exit(c)))

-----------------------------------------------------------------------------
(* Properties *)

(* No two cores execute on the stack of one thread, even when a thread is  *)
(* unparked on another core while its own core is still switching away.    *)
OneCorePerThread ==
  \A c, d \in Cpus : c # d /\ current[c] # None => current[c] # current[d]

(* A core never executes on a stack that was unmapped, and the cleanup     *)
(* after a switch never works on a thread that was freed: a dead thread is *)
(* put only once its core has left its stack, and a core that stopped in   *)
(* that put takes no stack away from a core that runs.                     *)
StacksMapped ==
  \A c \in Cpus :
    /\ current[c] \in Threads => stack[current[c]] \in mapped
    /\ last[c] \in Threads /\ action[c] # "NONE" /\ pc[c] # "halted"
         => stack[last[c]] \in mapped

(* A thread is at most once in at most one run queue: its links are part   *)
(* of the thread, a second list_add would corrupt the list.  And it is     *)
(* READY there, so the assertion on the chosen thread (sched.c:180) holds  *)
(* for every order of starts, yields, parks, unparks and deaths.           *)
QueuedOnce ==
  /\ \A c \in Cpus : \A t \in Range(runq[c]) : t \in Threads /\ state[t] = "READY"
  /\ \A c \in Cpus : \A i, j \in DOMAIN runq[c] : i # j => runq[c][i] # runq[c][j]
  /\ \A c, d \in Cpus : c # d => Range(runq[c]) \cap Range(runq[d]) = {}

(* A READY thread that no core runs, or that its core is switching away    *)
(* from, is in a run queue or about to be put there by                     *)
(* scheduler_finish_park.                                                  *)
KeptFromTheLoad ==
  \A t \in Threads :
    state[t] = "READY" /\ (\A c \in Cpus : current[c] = t => pc[c] \in {"select", "after"}) =>
      \/ \E c \in Cpus : t \in Range(runq[c])
      \/ \E c \in Cpus : last[c] = t /\ action[c] = "PARK"

(* scheduler_schedule asserts on a state it has no case for (sched.c:171). *)
(* The only one it ever finds is READY, of a thread somebody parks.        *)
OnlyUnparkAsserts ==
  \A c \in Cpus : pc[c] = "panic_state" =>
    CanPark /\ current[c] \in Threads /\ state[current[c]] = "READY"

(* No wakeup is lost once scheduler_schedule has read the state of the     *)
(* thread it leaves.  An unpark between the start of a park and that read  *)
(* (sched.c:148), which thread.h allows "to abort an in-progress park",    *)
(* does lose the thread: the scheduler asserts and it is in no queue.      *)
(* That is the only way: while nobody parks, as in the tree, no order of   *)
(* starts, yields and exits loses a thread or makes the assertion fail.    *)
NoLostThread == KeptFromTheLoad /\ OnlyUnparkAsserts

(* The scheduler has one reference from thread_create until the cleanup    *)
(* after the last switch, so a thread is neither freed under it nor kept,  *)
(* also when a core stops in the middle of freeing one.                    *)
ThreadRefExact ==
  \A t \in Threads :
    LET owned == /\ state[t] # "NONE"
                 /\ state[t] = "DEAD" => \E c \in Cpus : t \in {current[c], last[c]} /\ pc[c] # "halted"
    IN  ref[t] = (IF owned THEN 1 ELSE 0) + (IF t \in handles THEN 1 ELSE 0)

(* A dead thread gives the scheduler's reference back and, if no handle    *)
(* keeps it, is freed, unless the core that put the last reference stopped *)
(* in a lock that another core had taken.                                  *)
DeadIsPut ==
  \A t \in Threads : state[t] = "DEAD" ~>
    \/ state[t] = "NONE"
    \/ ref[t] = 1 /\ t \in handles
    \/ ref[t] = 0 /\ \E c \in Cpus : pc[c] = "halted"

(* runq.c, "just a queue per core": a thread in the queue gets its turn    *)
(* when the threads before it yield or exit, unless a core stopped.        *)
QueuedRuns ==
  \A t \in Threads : (\E c \in Cpus : t \in Range(runq[c])) ~>
    (state[t] = "RUNNING" \/ \E c \in Cpus : pc[c] = "halted")

(* thread_yield asserts that it is called with interrupts enabled. *)
YieldsInterruptible == \A c \in Cpus : pc[c] # "panic_irq"

(* thread_free releases what thread_create took: the stack region has a    *)
(* reference only while its thread exists.                                 *)
StackReleased ==
  \A r \in Regions : regionRef[r] > 0 => \E t \in Threads : stack[t] = r
=============================================================================
