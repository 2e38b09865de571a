----------------------------- MODULE SchedProofs -----------------------------
(***************************************************************************)
(* Proofs for Sched, for any number of cores and threads: a thread is in   *)
(* the hands of one core at a time, is queued once, is never lost, runs on *)
(* a mapped stack, and is counted exactly.                                 *)
(***************************************************************************)
EXTENDS Sched, ListTheorems

AllThreads == Threads \cup Idles
ThreadStates == {"NONE", "IDLE", "READY", "RUNNING", "DEAD", "PARKING", "PARKED"}
Places == {"boot", "run", "schedule", "select", "after", "hlt", "halted", "panic_irq", "panic_state"}

SchedTypeOK ==
  /\ state \in [AllThreads -> ThreadStates]
  /\ runq \in [Cpus -> Seq(Threads)]
  /\ current \in [Cpus -> AllThreads \cup {None}]
  /\ last \in [Cpus -> AllThreads \cup {None}]
  /\ action \in [Cpus -> {"NONE", "PUT", "PARK"}]
  /\ pc \in [Cpus -> Places]
  /\ handles \in SUBSET Threads

(* Thread t is in the hands of core c: queued there, running there, or     *)
(* waiting for the cleanup after the switch away from it.                  *)
Cleans(c, t) == last[c] = t /\ action[c] # "NONE"
Holds(c, t) == t \in Range(runq[c]) \/ current[c] = t \/ Cleans(c, t)

(* One core at a time has a thread, and none has a thread that is not      *)
(* started, not there, or parked.                                          *)
Exclusive ==
  /\ \A c, d \in Cpus, t \in Threads : Holds(c, t) /\ Holds(d, t) => c = d
  /\ \A c \in Cpus, t \in Threads : Holds(c, t) => state[t] \notin {"NONE", "IDLE", "PARKED"}

(* A queue holds READY threads, each once, none of which its core still    *)
(* runs or cleans up, except that a thread that yields is queued before    *)
(* the switch.                                                             *)
QueueOK(c) ==
  /\ NoDuplicates(runq[c])
  /\ \A t \in Range(runq[c]) :
       /\ state[t] = "READY" /\ ~Cleans(c, t)
       /\ current[c] = t => At(c, "select") /\ action[c] = "NONE"

(* What the thread of a core may be, by where the core is *)
CurrentOK(c) ==
  LET t == current[c]
  IN  /\ t \in Idles => t = IdleOf[c]
      /\ At(c, "boot") <=> t = None
      /\ pc[c] \in {"run", "panic_irq", "panic_state"} => t \in Threads
      /\ At(c, "run") => state[t] \in {"RUNNING", "PARKING", "READY"}
      /\ At(c, "schedule") => state[t] \in {"RUNNING", "PARKING", "READY", "DEAD"}
      /\ At(c, "after") => state[t] = "RUNNING"
      /\ At(c, "panic_irq") => state[t] = "RUNNING"
      /\ At(c, "panic_state") => state[t] = "READY"
      /\ At(c, "hlt") => t = IdleOf[c]
      /\ At(c, "halted") => state[t] \in {"RUNNING", "PARKING", "READY"}

(* What is left to do about the last thread of a core *)
LastOK(c) ==
  LET t == last[c]
  IN  /\ pc[c] \notin {"select", "after", "halted"} => t = None /\ action[c] = "NONE"
      /\ At(c, "select") => t = current[c]
      /\ action[c] = "PUT" => t \in Threads /\ state[t] = "DEAD"
      /\ action[c] = "PARK" => t \in Threads /\ state[t] \in {"PARKING", "READY"}
      /\ action[c] = "NONE" /\ t \in Threads => t \in Range(runq[c]) \/ current[c] = t
      /\ At(c, "select") /\ action[c] = "NONE" /\ t \in Threads => t \in Range(runq[c])
      /\ pc[c] \in {"after", "halted"} /\ action[c] # "NONE" => t # current[c]
      /\ At(c, "halted") /\ action[c] # "NONE" => t \notin handles

(* An idle thread runs from the start of its core on, or is ready. *)
IdleOK(c) ==
  state[IdleOf[c]] = (IF current[c] = IdleOf[c] /\ pc[c] # "select" THEN "RUNNING" ELSE "READY")

CoresOK == \A c \in Cpus : QueueOK(c) /\ CurrentOK(c) /\ LastOK(c) /\ IdleOK(c)

(* Every thread that is ready, or about to park, is kept somewhere: the    *)
(* part of PARKING threads makes NoLostThread survive an unpark.           *)
KeptBy(c, t) ==
  \/ t \in Range(runq[c])
  \/ last[c] = t /\ action[c] = "PARK"
  \/ current[c] = t /\ pc[c] \in {"run", "schedule", "panic_state", "halted"}
Kept == \A t \in Threads : state[t] \in {"READY", "PARKING"} => \E c \in Cpus : KeptBy(c, t)

(* The scheduler's reference to a thread is alive: a core that stopped in  *)
(* the put of a dead thread has given it up.                               *)
Owned(t) ==
  /\ state[t] # "NONE"
  /\ state[t] = "DEAD" => \E c \in Cpus : t \in {current[c], last[c]} /\ pc[c] # "halted"

(* References count the scheduler and the handle, and a handle is to a     *)
(* thread that exists.                                                     *)
RefOK ==
  /\ ref \in [AllThreads -> Nat]
  /\ \A t \in handles : state[t] # "NONE"
  /\ \A t \in Threads : ref[t] = (IF Owned(t) THEN 1 ELSE 0) + (IF t \in handles THEN 1 ELSE 0)

(* A thread that exists has a stack of its own, which is mapped until the  *)
(* last reference is put.                                                  *)
StackOK ==
  /\ stack \in [Threads -> Regions \cup {None}]
  /\ regionRef \in [Regions -> Int]
  /\ \A t \in Threads :
       IF state[t] = "NONE" THEN stack[t] = None
       ELSE /\ stack[t] \in Regions /\ regionRef[stack[t]] >= 1
            /\ ref[t] > 0 => stack[t] \in mapped /\ regionRef[stack[t]] = 2
  /\ \A t, u \in Threads : t # u /\ stack[t] = stack[u] => stack[t] = None

SchedInv == SchedTypeOK /\ Exclusive /\ CoresOK /\ Kept /\ RefOK /\ StackOK

-----------------------------------------------------------------------------
(* Facts about the run queues *)

LEMMA QueuePut ==
  ASSUME SchedTypeOK, NEW c \in Cpus, NEW t \in Threads, run_queue_put(c, t)
  PROVE  /\ runq' \in [Cpus -> Seq(Threads)]
         /\ Range(runq'[c]) = Range(runq[c]) \cup {t}
         /\ NoDuplicates(runq[c]) /\ t \notin Range(runq[c]) => NoDuplicates(runq'[c])
         /\ \A d \in Cpus \ {c} : runq'[d] = runq[d]
<1>1. runq[c] \in Seq(Threads) /\ runq' = [runq EXCEPT ![c] = <<t>> \o runq[c]]
  BY DEF SchedTypeOK, run_queue_put
<1>2. <<t>> \o runq[c] \in Seq(Threads)
  BY <1>1, PutFront
<1>3. runq'[c] = <<t>> \o runq[c]
  BY <1>1 DEF SchedTypeOK
<1> QED
  BY <1>1, <1>2, <1>3, PutFront DEF SchedTypeOK

LEMMA QueueTake ==
  ASSUME SchedTypeOK, NEW c \in Cpus, runq[c] # <<>>,
         runq' = [runq EXCEPT ![c] = QueueTaken(c)]
  PROVE  /\ runq' \in [Cpus -> Seq(Threads)]
         /\ sched_select_thread(c) = Head(runq[c]) /\ Head(runq[c]) \in Range(runq[c])
         /\ Range(runq[c]) = Range(runq'[c]) \cup {Head(runq[c])}
         /\ NoDuplicates(runq[c]) => NoDuplicates(runq'[c]) /\ Head(runq[c]) \notin Range(runq'[c])
         /\ \A d \in Cpus \ {c} : runq'[d] = runq[d]
<1>1. runq[c] \in Seq(Threads) /\ runq'[c] = Tail(runq[c])
  BY DEF SchedTypeOK, QueueTaken
<1>2. Tail(runq[c]) \in Seq(Threads)
  BY <1>1, TakeFront
<1> QED
  BY <1>1, <1>2, TakeFront DEF SchedTypeOK, QueueTaken, sched_select_thread

(* The queues hold threads, and an idle thread is none of them. *)
LEMMA QueuesHoldThreads ==
  ASSUME SchedTypeOK
  PROVE  \A c \in Cpus : Range(runq[c]) \subseteq Threads
BY DEF SchedTypeOK, Range

LEMMA EmptyQueue == Range(<<>>) = {} /\ NoDuplicates(<<>>)
BY DEF Range, NoDuplicates

(* An idle thread belongs to one core and is not one of the threads. *)
LEMMA IdleFacts ==
  /\ \A c \in Cpus : IdleOf[c] \in AllThreads /\ IdleOf[c] \notin Threads /\ IdleOf[c] \in Idles
  /\ \A c, d \in Cpus : IdleOf[c] = IdleOf[d] => c = d
BY SchedAssumption DEF Idles, AllThreads

(* A step that changes no reference and no thread's being owned *)
LEMMA RefKept ==
  ASSUME RefOK, ref' = ref, handles' = handles,
         \A t \in handles : state'[t] # "NONE",
         \A t \in Threads : Owned(t)' <=> Owned(t)
  PROVE  RefOK'
BY DEF RefOK

(* Who owns a thread follows from its state and from the cores that go on. *)
LEMMA OwnedKept ==
  ASSUME NEW u, state'[u] = state[u],
         \A d \in Cpus : u \in {current'[d], last'[d]} /\ pc'[d] # "halted"
                        <=> u \in {current[d], last[d]} /\ pc[d] # "halted"
  PROVE  Owned(u)' <=> Owned(u)
BY DEF Owned

-----------------------------------------------------------------------------
(* Each action keeps the invariant. *)

LEMMA InitInv == SchedInit => SchedInv
<1> SUFFICES ASSUME SchedInit PROVE SchedInv
  OBVIOUS
<1> USE SchedAssumption DEF AllThreads
<1>0. <<InitThread>> \in Seq(Threads) /\ <<>> \in Seq(Threads) /\ Range(<<InitThread>>) = {InitThread}
      /\ NoDuplicates(<<InitThread>>)
  BY DEF Range, NoDuplicates
<1>1. SchedTypeOK
  BY <1>0 DEF SchedInit, SchedTypeOK, ThreadStates, Places
<1>2. Exclusive
  BY <1>0, EmptyQueue DEF SchedInit, Exclusive, Holds, Cleans
<1>3. CoresOK
  BY <1>0, EmptyQueue DEF SchedInit, CoresOK, QueueOK, CurrentOK, LastOK, IdleOK, Cleans, At, Idles
<1>4. Kept
  BY <1>0 DEF SchedInit, Kept, KeptBy
<1>5. RefOK
  BY DEF SchedInit, RefOK, Owned
<1>6. StackOK
  BY DEF SchedInit, StackOK
<1> QED
  BY <1>1, <1>2, <1>3, <1>4, <1>5, <1>6 DEF SchedInv

LEMMA StartKeepsInv ==
  ASSUME SchedInv, NEW c \in Cpus, sched_start_per_core(c)
  PROVE  SchedInv'
<1> USE SchedAssumption DEF SchedInv, AllThreads, Idles, Goto, Halt, cpuVars, objVars
<1>1. SchedTypeOK'
  BY QueuesHoldThreads DEF sched_start_per_core, thread_bootstrap, At, SchedTypeOK, SchedTypeOK, ThreadStates, Places
<1>2. Exclusive'
  BY QueuesHoldThreads DEF sched_start_per_core, thread_bootstrap, At, SchedTypeOK, Exclusive, Holds, Cleans
<1>3. CoresOK'
  <2> SUFFICES ASSUME NEW d \in Cpus PROVE QueueOK(d)' /\ CurrentOK(d)' /\ LastOK(d)' /\ IdleOK(d)'
    BY DEF CoresOK
  <2> USE DEF CoresOK, At
  <2>1. QueueOK(d)'
    BY QueuesHoldThreads DEF sched_start_per_core, thread_bootstrap, At, SchedTypeOK, Exclusive, Holds, Cleans, QueueOK, CurrentOK, LastOK, IdleOK
  <2>2. CurrentOK(d)'
    BY QueuesHoldThreads DEF sched_start_per_core, thread_bootstrap, At, SchedTypeOK, Exclusive, Holds, Cleans, QueueOK, CurrentOK, LastOK, IdleOK
  <2>3. LastOK(d)'
    BY QueuesHoldThreads DEF sched_start_per_core, thread_bootstrap, At, SchedTypeOK, Exclusive, Holds, Cleans, QueueOK, CurrentOK, LastOK, IdleOK
  <2>4. IdleOK(d)'
    BY QueuesHoldThreads DEF sched_start_per_core, thread_bootstrap, At, SchedTypeOK, Exclusive, Holds, Cleans, QueueOK, CurrentOK, LastOK, IdleOK
  <2> QED
    BY <2>1, <2>2, <2>3, <2>4
<1>4. Kept'
  BY QueuesHoldThreads DEF sched_start_per_core, thread_bootstrap, At, SchedTypeOK, Kept, KeptBy
<1>5. RefOK'
  <2>1. \A u \in Threads : Owned(u)' <=> Owned(u)
    BY SchedAssumption DEF sched_start_per_core, thread_bootstrap, At, SchedTypeOK, Owned, CoresOK, CurrentOK, LastOK
  <2> QED
    BY <2>1, RefKept DEF sched_start_per_core, thread_bootstrap, At, SchedTypeOK, RefOK
<1>6. StackOK'
  BY QueuesHoldThreads DEF sched_start_per_core, thread_bootstrap, At, SchedTypeOK, StackOK
<1> QED
  BY <1>1, <1>2, <1>3, <1>4, <1>5, <1>6

(* thread_create that succeeds *)
LEMMA CreateKeepsInv ==
  ASSUME SchedInv, NEW c \in Cpus, NEW t \in Threads, thread_create(c, t), ~UNCHANGED schedVars
  PROVE  SchedInv'
<1> USE SchedAssumption DEF SchedInv, AllThreads, Idles, Goto, Halt, cpuVars, objVars
<1>a. PICK r \in Regions :
        /\ state[t] = "NONE" /\ regionRef[r] = 0 /\ stack' = [stack EXCEPT ![t] = r]
        /\ regionRef' = [regionRef EXCEPT ![r] = 2] /\ mapped' = mapped \cup {r}
        /\ state' = [state EXCEPT ![t] = "IDLE"] /\ ref' = [ref EXCEPT ![t] = 1]
        /\ UNCHANGED <<handles, runq, current, last, action, pc>>
  BY DEF thread_create, schedVars
<1>1. SchedTypeOK'
  BY <1>a, QueuesHoldThreads DEF SchedTypeOK, SchedTypeOK, ThreadStates, Places
<1>2. Exclusive'
  BY <1>a, QueuesHoldThreads DEF SchedTypeOK, Exclusive, Holds, Cleans
<1>3. CoresOK'
  <2> SUFFICES ASSUME NEW d \in Cpus PROVE QueueOK(d)' /\ CurrentOK(d)' /\ LastOK(d)' /\ IdleOK(d)'
    BY DEF CoresOK
  <2> USE DEF CoresOK, At
  <2>1. QueueOK(d)'
    BY <1>a, QueuesHoldThreads DEF SchedTypeOK, Exclusive, Holds, Cleans, QueueOK, CurrentOK, LastOK, IdleOK
  <2>2. CurrentOK(d)'
    BY <1>a, QueuesHoldThreads DEF SchedTypeOK, Exclusive, Holds, Cleans, QueueOK, CurrentOK, LastOK, IdleOK
  <2>3. LastOK(d)'
    BY <1>a, QueuesHoldThreads DEF SchedTypeOK, Exclusive, Holds, Cleans, QueueOK, CurrentOK, LastOK, IdleOK
  <2>4. IdleOK(d)'
    BY <1>a, IdleFacts DEF SchedTypeOK, IdleOK
  <2> QED
    BY <2>1, <2>2, <2>3, <2>4
<1>4. Kept'
  BY <1>a, QueuesHoldThreads DEF SchedTypeOK, Kept, KeptBy
<1>5. RefOK'
  <2>1. \A u \in Threads \ {t} : Owned(u)' <=> Owned(u)
    BY <1>a DEF SchedTypeOK, Owned
  <2>2. Owned(t)' /\ t \notin handles
    BY <1>a DEF SchedTypeOK, Owned, RefOK
  <2> QED
    BY <1>a, <2>1, <2>2 DEF SchedTypeOK, RefOK
<1>6. StackOK'
  <2>1. \A u \in Threads \ {t} : stack[u] # r /\ state'[u] = state[u] /\ ref'[u] = ref[u]
    <3> SUFFICES ASSUME NEW u \in Threads \ {t}
                 PROVE  stack[u] # r /\ state'[u] = state[u] /\ ref'[u] = ref[u]
      OBVIOUS
    <3>1. state'[u] = state[u] /\ ref'[u] = ref[u]
      BY <1>a DEF SchedTypeOK, RefOK
    <3>2. stack[u] = None \/ (stack[u] \in Regions /\ regionRef[stack[u]] >= 1)
      BY DEF StackOK
    <3> QED
      BY <1>a, <3>1, <3>2
  <2> QED
    BY <1>a, <2>1 DEF SchedTypeOK, StackOK
<1> QED
  BY <1>1, <1>2, <1>3, <1>4, <1>5, <1>6

LEMMA ThreadStartKeepsInv ==
  ASSUME SchedInv, NEW c \in Cpus, NEW t \in Threads, thread_start(c, t)
  PROVE  SchedInv'
<1> USE SchedAssumption DEF SchedInv, AllThreads, Idles, Goto, Halt, cpuVars, objVars
<1>q. /\ runq' \in [Cpus -> Seq(Threads)]
      /\ Range(runq'[c]) = Range(runq[c]) \cup {t}
      /\ NoDuplicates(runq[c]) /\ t \notin Range(runq[c]) => NoDuplicates(runq'[c])
      /\ \A d \in Cpus \ {c} : runq'[d] = runq[d]
  BY QueuePut DEF thread_start
<1>h. \A d \in Cpus : ~Holds(d, t)
  BY DEF thread_start, Exclusive
<1>1. SchedTypeOK'
  BY <1>q, <1>h, QueuesHoldThreads DEF thread_start, SchedTypeOK, SchedTypeOK, ThreadStates, Places
<1>2. Exclusive'
  <2>1. \A d \in Cpus, u \in Threads : Holds(d, u)' <=> Holds(d, u) \/ (d = c /\ u = t)
    BY <1>q DEF thread_start, Holds, Cleans
  <2>2. \A u \in Threads \ {t} : state'[u] = state[u]
    BY DEF thread_start, SchedTypeOK
  <2>3. state'[t] = "READY"
    BY DEF thread_start, SchedTypeOK
  <2>4. \A d, e \in Cpus, u \in Threads : Holds(d, u)' /\ Holds(e, u)' => d = e
    BY <1>h, <2>1 DEF Exclusive
  <2> QED
    BY <2>1, <2>2, <2>3, <2>4 DEF Exclusive
<1>3. CoresOK'
  <2> SUFFICES ASSUME NEW d \in Cpus PROVE QueueOK(d)' /\ CurrentOK(d)' /\ LastOK(d)' /\ IdleOK(d)'
    BY DEF CoresOK
  <2> USE DEF CoresOK, At
  <2>1. QueueOK(d)'
    <3>1. CASE d = c
      BY <1>q, <1>h, <3>1 DEF thread_start, SchedTypeOK, Holds, Cleans, QueueOK
    <3>2. CASE d # c
      BY <1>q, <1>h, <3>2, QueuesHoldThreads DEF thread_start, SchedTypeOK, Holds, Cleans, QueueOK
    <3> QED
      BY <3>1, <3>2
  <2>2. CurrentOK(d)'
    BY <1>q, <1>h, QueuesHoldThreads DEF thread_start, SchedTypeOK, Exclusive, Holds, Cleans, QueueOK, CurrentOK, LastOK, IdleOK
  <2>3. LastOK(d)'
    <3>1. action[d] # "NONE" => last[d] # t /\ last[d] \in Threads
      BY <1>h DEF Holds, Cleans, LastOK, SchedTypeOK
    <3>2. action[d] # "NONE" => state'[last[d]] = state[last[d]]
      BY <3>1 DEF thread_start, SchedTypeOK
    <3>3. Range(runq[d]) \subseteq Range(runq'[d])
      BY <1>q
    <3> QED
      BY <3>1, <3>2, <3>3 DEF thread_start, LastOK
  <2>4. IdleOK(d)'
    BY <1>q, <1>h, QueuesHoldThreads DEF thread_start, SchedTypeOK, Exclusive, Holds, Cleans, QueueOK, CurrentOK, LastOK, IdleOK
  <2> QED
    BY <2>1, <2>2, <2>3, <2>4
<1>4. Kept'
  <2>1. \A u \in Threads, d \in Cpus : KeptBy(d, u) => KeptBy(d, u)'
    BY <1>q DEF thread_start, SchedTypeOK, KeptBy
  <2>2. KeptBy(c, t)'
    BY <1>q DEF KeptBy
  <2> QED
    BY <2>1, <2>2 DEF Kept, thread_start, SchedTypeOK
<1>5. RefOK'
  <2>1. \A u \in Threads : Owned(u)' <=> Owned(u)
    BY <1>q, <1>h, SchedAssumption DEF thread_start, SchedTypeOK, Owned, CoresOK, CurrentOK, LastOK
  <2> QED
    BY <1>q, <1>h, <2>1, RefKept DEF thread_start, SchedTypeOK, RefOK
<1>6. StackOK'
  BY <1>q, <1>h, QueuesHoldThreads DEF thread_start, SchedTypeOK, StackOK
<1> QED
  BY <1>1, <1>2, <1>3, <1>4, <1>5, <1>6

LEMMA GetKeepsInv ==
  ASSUME SchedInv, NEW c \in Cpus, NEW t \in Threads, thread_get(c, t)
  PROVE  SchedInv'
<1> USE SchedAssumption DEF SchedInv, AllThreads, Idles, Goto, Halt, cpuVars, objVars
<1>1. SchedTypeOK'
  BY QueuesHoldThreads DEF thread_get, SchedTypeOK, SchedTypeOK, ThreadStates, Places
<1>2. Exclusive'
  BY QueuesHoldThreads DEF thread_get, SchedTypeOK, Exclusive, Holds, Cleans
<1>3. CoresOK'
  <2> SUFFICES ASSUME NEW d \in Cpus PROVE QueueOK(d)' /\ CurrentOK(d)' /\ LastOK(d)' /\ IdleOK(d)'
    BY DEF CoresOK
  <2> USE DEF CoresOK, At
  <2>1. QueueOK(d)'
    BY QueuesHoldThreads DEF thread_get, SchedTypeOK, Exclusive, Holds, Cleans, QueueOK, CurrentOK, LastOK, IdleOK
  <2>2. CurrentOK(d)'
    BY QueuesHoldThreads DEF thread_get, SchedTypeOK, Exclusive, Holds, Cleans, QueueOK, CurrentOK, LastOK, IdleOK
  <2>3. LastOK(d)'
    BY QueuesHoldThreads DEF thread_get, SchedTypeOK, Exclusive, Holds, Cleans, QueueOK, CurrentOK, LastOK, IdleOK
  <2>4. IdleOK(d)'
    BY QueuesHoldThreads DEF thread_get, SchedTypeOK, Exclusive, Holds, Cleans, QueueOK, CurrentOK, LastOK, IdleOK
  <2> QED
    BY <2>1, <2>2, <2>3, <2>4
<1>4. Kept'
  BY QueuesHoldThreads DEF thread_get, SchedTypeOK, Kept, KeptBy
<1>o. ref[t] = 1 /\ \A u \in Threads : Owned(u)' <=> Owned(u)
  <2>1. Owned(t) /\ t \notin handles
    BY DEF thread_get, Owned
  <2> QED
    BY <2>1, OwnedKept DEF thread_get, RefOK
<1>5. RefOK'
  BY <1>o DEF thread_get, RefOK
<1>6. StackOK'
  BY <1>o DEF thread_get, StackOK, RefOK
<1> QED
  BY <1>1, <1>2, <1>3, <1>4, <1>5, <1>6

LEMMA PutKeepsInv ==
  ASSUME SchedInv, NEW c \in Cpus, NEW t \in Threads, thread_put(c, t)
  PROVE  SchedInv'
<1> USE SchedAssumption DEF SchedInv, AllThreads, Idles, Goto, Halt, cpuVars, objVars
<1>h. ref[t] = 1 => \A d \in Cpus : ~Holds(d, t)
  <2> SUFFICES ASSUME ref[t] = 1 PROVE \A d \in Cpus : ~Holds(d, t)
    OBVIOUS
  <2>1. ~Owned(t) /\ state[t] # "NONE"
    BY DEF thread_put, RefOK
  <2>2. state[t] = "DEAD" /\ \A d \in Cpus : pc[d] # "halted" => t # current[d] /\ t # last[d]
    BY <2>1 DEF Owned
  <2>3. \A d \in Cpus : pc[d] = "halted" => t # current[d] /\ ~Cleans(d, t)
    BY <2>2 DEF thread_put, Cleans, CoresOK, CurrentOK, LastOK, At
  <2> QED
    BY <2>2, <2>3 DEF Holds, Cleans, CoresOK, QueueOK
<1>1. SchedTypeOK'
  BY <1>h, QueuesHoldThreads DEF thread_put, ObjectPut, SchedTypeOK, SchedTypeOK, ThreadStates, Places
<1>2. Exclusive'
  BY <1>h, QueuesHoldThreads DEF thread_put, ObjectPut, SchedTypeOK, Exclusive, Holds, Cleans
<1>3. CoresOK'
  <2> SUFFICES ASSUME NEW d \in Cpus PROVE QueueOK(d)' /\ CurrentOK(d)' /\ LastOK(d)' /\ IdleOK(d)'
    BY DEF CoresOK
  <2> USE DEF CoresOK, At
  <2>1. QueueOK(d)'
    BY <1>h, QueuesHoldThreads DEF thread_put, ObjectPut, SchedTypeOK, Exclusive, Holds, Cleans, QueueOK, CurrentOK, LastOK, IdleOK
  <2>2. CurrentOK(d)'
    BY <1>h, QueuesHoldThreads DEF thread_put, ObjectPut, SchedTypeOK, Exclusive, Holds, Cleans, QueueOK, CurrentOK, LastOK, IdleOK
  <2>3. LastOK(d)'
    BY <1>h, QueuesHoldThreads DEF thread_put, ObjectPut, SchedTypeOK, Exclusive, Holds, Cleans, QueueOK, CurrentOK, LastOK, IdleOK
  <2>4. IdleOK(d)'
    <3>1. IdleOf[d] # t /\ state'[IdleOf[d]] = state[IdleOf[d]]
      BY IdleFacts DEF thread_put, ObjectPut, SchedTypeOK
    <3> QED
      BY <3>1 DEF thread_put, ObjectPut, IdleOK
  <2> QED
    BY <2>1, <2>2, <2>3, <2>4
<1>4. Kept'
  BY <1>h, QueuesHoldThreads DEF thread_put, ObjectPut, SchedTypeOK, Kept, KeptBy
<1>5. RefOK'
  <2>1. /\ ref' = [ref EXCEPT ![t] = @ - 1] /\ t \in handles /\ handles' = handles \ {t}
        /\ state' = IF ref[t] = 1 THEN [state EXCEPT ![t] = "NONE"] ELSE state
        /\ UNCHANGED <<current, last, pc>>
    BY DEF thread_put, ObjectPut
  <2>2. \A u \in Threads \ {t} : state'[u] = state[u]
    BY <2>1 DEF SchedTypeOK
  <2>3. \A u \in Threads \ {t} : Owned(u)' <=> Owned(u)
    BY <2>1, <2>2, OwnedKept
  <2>4. ref[t] = (IF Owned(t) THEN 1 ELSE 0) + 1
    BY <2>1 DEF RefOK
  <2>5. Owned(t)' <=> Owned(t)
    <3>1. CASE ref[t] = 1
      <4>1. ~Owned(t) /\ state'[t] = "NONE"
        BY <2>1, <2>4, <3>1 DEF SchedTypeOK
      <4> QED
        BY <4>1 DEF Owned
    <3>2. CASE ref[t] # 1
      BY <2>1, <3>2, OwnedKept
    <3> QED
      BY <3>1, <3>2
  <2> QED
    BY <2>1, <2>2, <2>3, <2>4, <2>5 DEF RefOK
<1>6. StackOK'
  <2>1. CASE ref[t] = 1
    <3>1. /\ stack[t] \in Regions /\ state' = [state EXCEPT ![t] = "NONE"]
          /\ mapped' = mapped \ {stack[t]} /\ stack' = [stack EXCEPT ![t] = None]
          /\ regionRef' = [regionRef EXCEPT ![stack[t]] = @ - 1]
      BY <2>1 DEF thread_put, ObjectPut, RefOK, StackOK
    <3>2. \A u \in Threads \ {t} : stack[u] # stack[t]
      BY <3>1 DEF StackOK
    <3>3. \A u \in Threads \ {t} : ref'[u] = ref[u]
      BY DEF thread_put, ObjectPut, RefOK
    <3>4. ASSUME NEW u \in Threads
          PROVE  IF state'[u] = "NONE" THEN stack'[u] = None
                 ELSE /\ stack'[u] \in Regions /\ regionRef'[stack'[u]] >= 1
                      /\ ref'[u] > 0 => stack'[u] \in mapped' /\ regionRef'[stack'[u]] = 2
      <4>1. CASE u = t
        BY <3>1, <4>1 DEF StackOK, SchedTypeOK
      <4>2. CASE u # t
        <5>1. stack'[u] = stack[u] /\ state'[u] = state[u]
          BY <3>1, <4>2 DEF StackOK, SchedTypeOK
        <5>2. stack[u] \in Regions => regionRef'[stack[u]] = regionRef[stack[u]]
          BY <3>1, <3>2, <4>2 DEF StackOK
        <5> QED
          BY <3>1, <3>2, <3>3, <4>2, <5>1, <5>2 DEF StackOK
      <4> QED
        BY <4>1, <4>2
    <3>5. /\ stack' \in [Threads -> Regions \cup {None}] /\ regionRef' \in [Regions -> Int]
          /\ \A u, v \in Threads : u # v /\ stack'[u] = stack'[v] => stack'[u] = None
      BY <3>1, <3>2 DEF StackOK
    <3> QED
      BY <3>4, <3>5 DEF StackOK
  <2>2. CASE ref[t] # 1
    <3>1. ref[t] > 0 /\ \A u \in Threads : ref'[u] > 0 => ref[u] > 0
      BY DEF thread_put, ObjectPut, RefOK
    <3> QED
      BY <2>2, <3>1 DEF thread_put, ObjectPut, StackOK
  <2> QED
    BY <2>1, <2>2
<1> QED
  BY <1>1, <1>2, <1>3, <1>4, <1>5, <1>6

LEMMA ExitKeepsInv ==
  ASSUME SchedInv, NEW c \in Cpus, NEW t \in Threads, Runs(c, t), thread_exit(c)
  PROVE  SchedInv'
<1> USE SchedAssumption DEF SchedInv, AllThreads, Idles, Goto, Halt, cpuVars, objVars
<1>1. SchedTypeOK'
  BY QueuesHoldThreads DEF thread_exit, Runs, At, SchedTypeOK, SchedTypeOK, ThreadStates, Places
<1>2. Exclusive'
  BY QueuesHoldThreads DEF thread_exit, Runs, At, SchedTypeOK, Exclusive, Holds, Cleans
<1>3. CoresOK'
  <2> SUFFICES ASSUME NEW d \in Cpus PROVE QueueOK(d)' /\ CurrentOK(d)' /\ LastOK(d)' /\ IdleOK(d)'
    BY DEF CoresOK
  <2> USE DEF CoresOK, At
  <2>1. QueueOK(d)'
    BY QueuesHoldThreads DEF thread_exit, Runs, At, SchedTypeOK, Exclusive, Holds, Cleans, QueueOK, CurrentOK, LastOK, IdleOK
  <2>2. CurrentOK(d)'
    BY QueuesHoldThreads DEF thread_exit, Runs, At, SchedTypeOK, Exclusive, Holds, Cleans, QueueOK, CurrentOK, LastOK, IdleOK
  <2>3. LastOK(d)'
    BY QueuesHoldThreads DEF thread_exit, Runs, At, SchedTypeOK, Exclusive, Holds, Cleans, QueueOK, CurrentOK, LastOK, IdleOK
  <2>4. IdleOK(d)'
    BY QueuesHoldThreads DEF thread_exit, Runs, At, SchedTypeOK, Exclusive, Holds, Cleans, QueueOK, CurrentOK, LastOK, IdleOK
  <2> QED
    BY <2>1, <2>2, <2>3, <2>4
<1>4. Kept'
  BY QueuesHoldThreads DEF thread_exit, Runs, At, SchedTypeOK, Kept, KeptBy
<1>5. RefOK'
  <2>1. \A u \in Threads : Owned(u)' <=> Owned(u)
    BY SchedAssumption DEF thread_exit, Runs, At, SchedTypeOK, Owned, CoresOK, CurrentOK, LastOK
  <2> QED
    BY <2>1, RefKept DEF thread_exit, Runs, At, SchedTypeOK, RefOK
<1>6. StackOK'
  BY QueuesHoldThreads DEF thread_exit, Runs, At, SchedTypeOK, StackOK
<1> QED
  BY <1>1, <1>2, <1>3, <1>4, <1>5, <1>6

LEMMA YieldKeepsInv ==
  ASSUME SchedInv, NEW c \in Cpus, NEW t \in Threads, Runs(c, t), thread_yield(c)
  PROVE  SchedInv'
<1> USE SchedAssumption DEF SchedInv, AllThreads, Idles, Goto, Halt, cpuVars, objVars
<1>y. /\ current[c] = t /\ state[t] = "RUNNING" /\ pc[c] = "run" /\ state' = state
      /\ pc' = [pc EXCEPT ![c] = "panic_irq"] \/ pc' = [pc EXCEPT ![c] = "schedule"]
  BY DEF thread_yield, Runs, At
<1>1. SchedTypeOK'
  BY QueuesHoldThreads DEF thread_yield, Runs, At, SchedTypeOK, SchedTypeOK, ThreadStates, Places
<1>2. Exclusive'
  BY QueuesHoldThreads DEF thread_yield, Runs, At, SchedTypeOK, Exclusive, Holds, Cleans
<1>3. CoresOK'
  <2> SUFFICES ASSUME NEW d \in Cpus PROVE QueueOK(d)' /\ CurrentOK(d)' /\ LastOK(d)' /\ IdleOK(d)'
    BY DEF CoresOK
  <2> USE DEF CoresOK, At
  <2>1. QueueOK(d)'
    BY QueuesHoldThreads DEF thread_yield, Runs, At, SchedTypeOK, Exclusive, Holds, Cleans, QueueOK, CurrentOK, LastOK, IdleOK
  <2>2. CurrentOK(d)'
    <3>1. current' = current /\ CurrentOK(d)
      BY DEF thread_yield
    <3>2. CASE d = c
      BY <1>y, <3>1, <3>2 DEF SchedTypeOK, CurrentOK
    <3>3. CASE d # c
      BY <1>y, <3>1, <3>3 DEF SchedTypeOK, CurrentOK
    <3> QED
      BY <3>2, <3>3
  <2>3. LastOK(d)'
    BY QueuesHoldThreads DEF thread_yield, Runs, At, SchedTypeOK, Exclusive, Holds, Cleans, QueueOK, CurrentOK, LastOK, IdleOK
  <2>4. IdleOK(d)'
    BY <1>y, IdleFacts DEF thread_yield, SchedTypeOK, IdleOK
  <2> QED
    BY <2>1, <2>2, <2>3, <2>4
<1>4. Kept'
  <2>1. \A u \in Threads \ {t}, d \in Cpus : KeptBy(d, u) => KeptBy(d, u)'
    BY <1>y DEF thread_yield, SchedTypeOK, KeptBy
  <2> QED
    BY <1>y, <2>1 DEF Kept
<1>5. RefOK'
  <2>1. \A u \in Threads : Owned(u)' <=> Owned(u)
    BY SchedAssumption DEF thread_yield, Runs, At, SchedTypeOK, Owned, CoresOK, CurrentOK, LastOK
  <2> QED
    BY <2>1, RefKept DEF thread_yield, Runs, At, SchedTypeOK, RefOK
<1>6. StackOK'
  BY QueuesHoldThreads DEF thread_yield, Runs, At, SchedTypeOK, StackOK
<1> QED
  BY <1>1, <1>2, <1>3, <1>4, <1>5, <1>6

LEMMA ParkBeginKeepsInv ==
  ASSUME SchedInv, NEW c \in Cpus, NEW t \in Threads, Runs(c, t), park_begin(c)
  PROVE  SchedInv'
<1> USE SchedAssumption DEF SchedInv, AllThreads, Idles, Goto, Halt, cpuVars, objVars
<1>1. SchedTypeOK'
  BY QueuesHoldThreads DEF park_begin, Runs, At, SchedTypeOK, SchedTypeOK, ThreadStates, Places
<1>2. Exclusive'
  BY QueuesHoldThreads DEF park_begin, Runs, At, SchedTypeOK, Exclusive, Holds, Cleans
<1>3. CoresOK'
  <2> SUFFICES ASSUME NEW d \in Cpus PROVE QueueOK(d)' /\ CurrentOK(d)' /\ LastOK(d)' /\ IdleOK(d)'
    BY DEF CoresOK
  <2> USE DEF CoresOK, At
  <2>1. QueueOK(d)'
    BY QueuesHoldThreads DEF park_begin, Runs, At, SchedTypeOK, Exclusive, Holds, Cleans, QueueOK, CurrentOK, LastOK, IdleOK
  <2>2. CurrentOK(d)'
    BY QueuesHoldThreads DEF park_begin, Runs, At, SchedTypeOK, Exclusive, Holds, Cleans, QueueOK, CurrentOK, LastOK, IdleOK
  <2>3. LastOK(d)'
    BY QueuesHoldThreads DEF park_begin, Runs, At, SchedTypeOK, Exclusive, Holds, Cleans, QueueOK, CurrentOK, LastOK, IdleOK
  <2>4. IdleOK(d)'
    BY QueuesHoldThreads DEF park_begin, Runs, At, SchedTypeOK, Exclusive, Holds, Cleans, QueueOK, CurrentOK, LastOK, IdleOK
  <2> QED
    BY <2>1, <2>2, <2>3, <2>4
<1>4. Kept'
  BY QueuesHoldThreads DEF park_begin, Runs, At, SchedTypeOK, Kept, KeptBy
<1>5. RefOK'
  <2>1. \A u \in Threads : Owned(u)' <=> Owned(u)
    BY SchedAssumption DEF park_begin, Runs, At, SchedTypeOK, Owned, CoresOK, CurrentOK, LastOK
  <2> QED
    BY <2>1, RefKept DEF park_begin, Runs, At, SchedTypeOK, RefOK
<1>6. StackOK'
  BY QueuesHoldThreads DEF park_begin, Runs, At, SchedTypeOK, StackOK
<1> QED
  BY <1>1, <1>2, <1>3, <1>4, <1>5, <1>6

LEMMA ParkAbortKeepsInv ==
  ASSUME SchedInv, NEW c \in Cpus, NEW t \in Threads, Runs(c, t), park_abort(c)
  PROVE  SchedInv'
<1> USE SchedAssumption DEF SchedInv, AllThreads, Idles, Goto, Halt, cpuVars, objVars
<1>1. SchedTypeOK'
  BY QueuesHoldThreads DEF park_abort, Runs, At, SchedTypeOK, SchedTypeOK, ThreadStates, Places
<1>2. Exclusive'
  BY QueuesHoldThreads DEF park_abort, Runs, At, SchedTypeOK, Exclusive, Holds, Cleans
<1>3. CoresOK'
  <2> SUFFICES ASSUME NEW d \in Cpus PROVE QueueOK(d)' /\ CurrentOK(d)' /\ LastOK(d)' /\ IdleOK(d)'
    BY DEF CoresOK
  <2> USE DEF CoresOK, At
  <2>1. QueueOK(d)'
    BY QueuesHoldThreads DEF park_abort, Runs, At, SchedTypeOK, Exclusive, Holds, Cleans, QueueOK, CurrentOK, LastOK, IdleOK
  <2>2. CurrentOK(d)'
    BY QueuesHoldThreads DEF park_abort, Runs, At, SchedTypeOK, Exclusive, Holds, Cleans, QueueOK, CurrentOK, LastOK, IdleOK
  <2>3. LastOK(d)'
    BY QueuesHoldThreads DEF park_abort, Runs, At, SchedTypeOK, Exclusive, Holds, Cleans, QueueOK, CurrentOK, LastOK, IdleOK
  <2>4. IdleOK(d)'
    BY QueuesHoldThreads DEF park_abort, Runs, At, SchedTypeOK, Exclusive, Holds, Cleans, QueueOK, CurrentOK, LastOK, IdleOK
  <2> QED
    BY <2>1, <2>2, <2>3, <2>4
<1>4. Kept'
  BY QueuesHoldThreads DEF park_abort, Runs, At, SchedTypeOK, Kept, KeptBy
<1>5. RefOK'
  <2>1. \A u \in Threads : Owned(u)' <=> Owned(u)
    BY SchedAssumption DEF park_abort, Runs, At, SchedTypeOK, Owned, CoresOK, CurrentOK, LastOK
  <2> QED
    BY <2>1, RefKept DEF park_abort, Runs, At, SchedTypeOK, RefOK
<1>6. StackOK'
  BY QueuesHoldThreads DEF park_abort, Runs, At, SchedTypeOK, StackOK
<1> QED
  BY <1>1, <1>2, <1>3, <1>4, <1>5, <1>6

LEMMA ParkScheduleKeepsInv ==
  ASSUME SchedInv, NEW c \in Cpus, NEW t \in Threads, Runs(c, t), park_schedule(c)
  PROVE  SchedInv'
<1> USE SchedAssumption DEF SchedInv, AllThreads, Idles, Goto, Halt, cpuVars, objVars
<1>1. SchedTypeOK'
  BY QueuesHoldThreads DEF park_schedule, Runs, At, SchedTypeOK, SchedTypeOK, ThreadStates, Places
<1>2. Exclusive'
  BY QueuesHoldThreads DEF park_schedule, Runs, At, SchedTypeOK, Exclusive, Holds, Cleans
<1>3. CoresOK'
  <2> SUFFICES ASSUME NEW d \in Cpus PROVE QueueOK(d)' /\ CurrentOK(d)' /\ LastOK(d)' /\ IdleOK(d)'
    BY DEF CoresOK
  <2> USE DEF CoresOK, At
  <2>1. QueueOK(d)'
    BY QueuesHoldThreads DEF park_schedule, Runs, At, SchedTypeOK, Exclusive, Holds, Cleans, QueueOK, CurrentOK, LastOK, IdleOK
  <2>2. CurrentOK(d)'
    BY QueuesHoldThreads DEF park_schedule, Runs, At, SchedTypeOK, Exclusive, Holds, Cleans, QueueOK, CurrentOK, LastOK, IdleOK
  <2>3. LastOK(d)'
    BY QueuesHoldThreads DEF park_schedule, Runs, At, SchedTypeOK, Exclusive, Holds, Cleans, QueueOK, CurrentOK, LastOK, IdleOK
  <2>4. IdleOK(d)'
    BY QueuesHoldThreads DEF park_schedule, Runs, At, SchedTypeOK, Exclusive, Holds, Cleans, QueueOK, CurrentOK, LastOK, IdleOK
  <2> QED
    BY <2>1, <2>2, <2>3, <2>4
<1>4. Kept'
  BY QueuesHoldThreads DEF park_schedule, Runs, At, SchedTypeOK, Kept, KeptBy
<1>5. RefOK'
  <2>1. \A u \in Threads : Owned(u)' <=> Owned(u)
    BY SchedAssumption DEF park_schedule, Runs, At, SchedTypeOK, Owned, CoresOK, CurrentOK, LastOK
  <2> QED
    BY <2>1, RefKept DEF park_schedule, Runs, At, SchedTypeOK, RefOK
<1>6. StackOK'
  BY QueuesHoldThreads DEF park_schedule, Runs, At, SchedTypeOK, StackOK
<1> QED
  BY <1>1, <1>2, <1>3, <1>4, <1>5, <1>6

LEMMA WakeUpKeepsInv ==
  ASSUME SchedInv, NEW c \in Cpus, WakeUp(c)
  PROVE  SchedInv'
<1> USE SchedAssumption DEF SchedInv, AllThreads, Idles, Goto, Halt, cpuVars, objVars
<1>1. SchedTypeOK'
  BY QueuesHoldThreads DEF WakeUp, At, SchedTypeOK, SchedTypeOK, ThreadStates, Places
<1>2. Exclusive'
  BY QueuesHoldThreads DEF WakeUp, At, SchedTypeOK, Exclusive, Holds, Cleans
<1>3. CoresOK'
  <2> SUFFICES ASSUME NEW d \in Cpus PROVE QueueOK(d)' /\ CurrentOK(d)' /\ LastOK(d)' /\ IdleOK(d)'
    BY DEF CoresOK
  <2> USE DEF CoresOK, At
  <2>1. QueueOK(d)'
    BY QueuesHoldThreads DEF WakeUp, At, SchedTypeOK, Exclusive, Holds, Cleans, QueueOK, CurrentOK, LastOK, IdleOK
  <2>2. CurrentOK(d)'
    <3>1. /\ UNCHANGED <<current, state>> /\ CurrentOK(d) /\ IdleOK(d)
          /\ pc' = [pc EXCEPT ![c] = "schedule"] /\ pc[c] = "hlt"
      BY DEF WakeUp
    <3>2. CASE d = c
      BY <3>1, <3>2, IdleFacts DEF SchedTypeOK, CurrentOK, IdleOK
    <3>3. CASE d # c
      BY <3>1, <3>3 DEF SchedTypeOK, CurrentOK
    <3> QED
      BY <3>2, <3>3
  <2>3. LastOK(d)'
    BY QueuesHoldThreads DEF WakeUp, At, SchedTypeOK, Exclusive, Holds, Cleans, QueueOK, CurrentOK, LastOK, IdleOK
  <2>4. IdleOK(d)'
    BY QueuesHoldThreads DEF WakeUp, At, SchedTypeOK, Exclusive, Holds, Cleans, QueueOK, CurrentOK, LastOK, IdleOK
  <2> QED
    BY <2>1, <2>2, <2>3, <2>4
<1>4. Kept'
  BY QueuesHoldThreads DEF WakeUp, At, SchedTypeOK, Kept, KeptBy
<1>5. RefOK'
  <2>1. \A u \in Threads : Owned(u)' <=> Owned(u)
    BY SchedAssumption DEF WakeUp, At, SchedTypeOK, Owned, CoresOK, CurrentOK, LastOK
  <2> QED
    BY <2>1, RefKept DEF WakeUp, At, SchedTypeOK, RefOK
<1>6. StackOK'
  BY QueuesHoldThreads DEF WakeUp, At, SchedTypeOK, StackOK
<1> QED
  BY <1>1, <1>2, <1>3, <1>4, <1>5, <1>6

LEMMA UnparkKeepsInv ==
  ASSUME SchedInv, NEW c \in Cpus, NEW t \in Threads, scheduler_try_unpark(c, t)
  PROVE  SchedInv'
<1> USE SchedAssumption DEF SchedInv, AllThreads, Idles, Goto, Halt, cpuVars, objVars
<1>u. /\ state[t] \in {"PARKING", "PARKED"} /\ state' = [state EXCEPT ![t] = "READY"]
      /\ \/ pc[c] = "run" /\ pc' = pc
         \/ pc[c] = "hlt" /\ pc' = [pc EXCEPT ![c] = "schedule"]
      /\ UNCHANGED <<ref, fresh, handles, stack, regionRef, mapped, current, last, action>>
  BY DEF scheduler_try_unpark, At
<1>q. \/ state[t] = "PARKING" /\ runq' = runq
      \/ /\ state[t] = "PARKED"
         /\ runq' \in [Cpus -> Seq(Threads)]
         /\ Range(runq'[c]) = Range(runq[c]) \cup {t}
         /\ NoDuplicates(runq[c]) /\ t \notin Range(runq[c]) => NoDuplicates(runq'[c])
         /\ \A d \in Cpus \ {c} : runq'[d] = runq[d]
  BY QueuePut DEF scheduler_try_unpark
<1>h. state[t] = "PARKED" => \A d \in Cpus : ~Holds(d, t)
  BY DEF Exclusive
<1>1. SchedTypeOK'
  BY <1>u, <1>q DEF SchedTypeOK, ThreadStates, Places
<1>2. Exclusive'
  <2>1. \A d \in Cpus, u \in Threads :
          Holds(d, u)' <=> Holds(d, u) \/ (state[t] = "PARKED" /\ d = c /\ u = t)
    BY <1>u, <1>q DEF Holds, Cleans
  <2>2. \A u \in Threads \ {t} : state'[u] = state[u]
    BY <1>u DEF SchedTypeOK
  <2>3. state'[t] = "READY"
    BY <1>u DEF SchedTypeOK
  <2>4. \A d, e \in Cpus, u \in Threads : Holds(d, u)' /\ Holds(e, u)' => d = e
    BY <1>u, <1>h, <2>1 DEF Exclusive
  <2> QED
    BY <2>1, <2>2, <2>3, <2>4 DEF Exclusive
<1>3. CoresOK'
  <2> SUFFICES ASSUME NEW d \in Cpus PROVE QueueOK(d)' /\ CurrentOK(d)' /\ LastOK(d)' /\ IdleOK(d)'
    BY DEF CoresOK
  <2> USE DEF CoresOK, At
  <2>1. QueueOK(d)'
    <3>1. t \notin Range(runq[d])
      BY <1>u DEF QueueOK
    <3>2. CASE state[t] = "PARKED" /\ d = c
      BY <1>u, <1>q, <1>h, <3>1, <3>2 DEF SchedTypeOK, Holds, Cleans, QueueOK
    <3>3. CASE ~(state[t] = "PARKED" /\ d = c)
      <4>1. runq'[d] = runq[d]
        BY <1>u, <1>q, <3>3
      <4>2. At(d, "select") => At(d, "select")'
        BY <1>u DEF SchedTypeOK
      <4> QED
        BY <1>u, <3>1, <4>1, <4>2, QueuesHoldThreads DEF SchedTypeOK, Cleans, QueueOK
    <3> QED
      BY <3>2, <3>3
  <2>2. CurrentOK(d)'
    <3>1. t \notin Idles
      BY SchedAssumption
    <3>2. pc[c] = "hlt" => state'[IdleOf[c]] = "RUNNING"
      BY <1>u, IdleFacts DEF SchedTypeOK, CurrentOK, IdleOK
    <3>3. CASE current[d] = t
      BY <1>u, <3>1, <3>2, <3>3 DEF SchedTypeOK, CurrentOK
    <3>4. CASE current[d] # t
      BY <1>u, <3>2, <3>4 DEF SchedTypeOK, CurrentOK
    <3> QED
      BY <3>3, <3>4
  <2>3. LastOK(d)'
    <3>1. Range(runq[d]) \subseteq Range(runq'[d])
      BY <1>q
    <3> QED
      BY <1>u, <3>1 DEF SchedTypeOK, LastOK
  <2>4. IdleOK(d)'
    BY <1>u, IdleFacts DEF SchedTypeOK, IdleOK
  <2> QED
    BY <2>1, <2>2, <2>3, <2>4
<1>4. Kept'
  <2>1. \A u \in Threads, d \in Cpus : KeptBy(d, u) => KeptBy(d, u)'
    <3>1. \A d \in Cpus : Range(runq[d]) \subseteq Range(runq'[d])
      BY <1>q
    <3> QED
      BY <1>u, <3>1 DEF SchedTypeOK, KeptBy
  <2>2. \E d \in Cpus : KeptBy(d, t)'
    BY <1>u, <1>q, <2>1 DEF Kept, KeptBy
  <2> QED
    BY <1>u, <2>1, <2>2 DEF Kept, SchedTypeOK
<1>5. RefOK'
  <2>1. \A u \in Threads : Owned(u)' <=> Owned(u)
    BY <1>u, SchedAssumption DEF At, SchedTypeOK, Owned, CoresOK, CurrentOK, LastOK
  <2> QED
    BY <1>u, <2>1, RefKept DEF At, SchedTypeOK, RefOK
<1>6. StackOK'
  BY <1>u, QueuesHoldThreads DEF At, SchedTypeOK, StackOK
<1> QED
  BY <1>1, <1>2, <1>3, <1>4, <1>5, <1>6

-----------------------------------------------------------------------------
(* scheduler_schedule, by the state it finds *)

(* The thread of a core that enters the scheduler *)
LEMMA AtSchedule ==
  ASSUME SchedInv, NEW c \in Cpus, At(c, "schedule")
  PROVE  /\ last[c] = None /\ action[c] = "NONE"
         /\ current[c] \in Threads \/ (current[c] = IdleOf[c] /\ state[current[c]] = "RUNNING")
         /\ current[c] \notin Range(runq[c])
<1>1. QueueOK(c) /\ CurrentOK(c) /\ LastOK(c) /\ IdleOK(c) /\ pc[c] = "schedule"
  BY DEF SchedInv, CoresOK, At
<1>2. current[c] # None /\ current[c] \in AllThreads
  BY <1>1 DEF SchedInv, SchedTypeOK, CurrentOK, At
<1> QED
  BY <1>1, <1>2 DEF AllThreads, CurrentOK, LastOK, IdleOK, QueueOK, At

(* A thread that died or parks is left to the cleanup. *)
LEMMA LeaveKeepsInv ==
  ASSUME SchedInv, NEW c \in Cpus, NEW a \in {"PUT", "PARK"}, At(c, "schedule"),
         state[current[c]] = (IF a = "PUT" THEN "DEAD" ELSE "PARKING"),
         action' = [action EXCEPT ![c] = a], last' = [last EXCEPT ![c] = current[c]],
         pc' = [pc EXCEPT ![c] = "select"],
         UNCHANGED <<state, ref, handles, stack, regionRef, mapped, runq, current>>
  PROVE  SchedInv'
<1> DEFINE t == current[c]
<1>t. t \in Threads /\ last[c] = None /\ action[c] = "NONE" /\ t \notin Range(runq[c])
  BY AtSchedule
<1> USE DEF SchedInv, SchedTypeOK
<1>1. SchedTypeOK'
  BY DEF AllThreads, Places
<1>2. Exclusive'
  <2>1. \A d \in Cpus, u \in Threads : Holds(d, u)' <=> Holds(d, u)
    BY <1>t DEF Holds, Cleans
  <2> QED
    BY <2>1 DEF Exclusive
<1>3. CoresOK'
  <2> SUFFICES ASSUME NEW d \in Cpus
               PROVE  QueueOK(d)' /\ CurrentOK(d)' /\ LastOK(d)' /\ IdleOK(d)'
    BY DEF CoresOK
  <2> USE DEF CoresOK, At
  <2>1. QueueOK(d)'
    BY <1>t DEF QueueOK, Cleans
  <2>2. CurrentOK(d)'
    BY <1>t DEF CurrentOK
  <2>3. LastOK(d)'
    BY <1>t DEF LastOK
  <2>4. IdleOK(d)'
    BY <1>t, IdleFacts DEF IdleOK
  <2> QED
    BY <2>1, <2>2, <2>3, <2>4
<1>4. Kept'
  <2>1. \A d \in Cpus, u \in Threads \ {t} : KeptBy(d, u) => KeptBy(d, u)'
    BY <1>t DEF KeptBy
  <2>2. a = "PARK" => KeptBy(c, t)'
    BY DEF KeptBy
  <2> QED
    BY <2>1, <2>2 DEF Kept
<1>5. RefOK'
  <2>1. \A u \in Threads : Owned(u)' <=> Owned(u)
    BY <1>t, SchedAssumption, OwnedKept DEF At
  <2> QED
    BY <2>1, RefKept DEF RefOK
<1>6. StackOK'
  BY DEF StackOK
<1> QED
  BY <1>1, <1>2, <1>3, <1>4, <1>5, <1>6

(* A thread that yields is queued and READY before the switch. *)
LEMMA RequeueKeepsInv ==
  ASSUME SchedInv, NEW c \in Cpus, At(c, "schedule"), state[current[c]] = "RUNNING",
         state' = [state EXCEPT ![current[c]] = "READY"], Requeue(c, current[c]),
         last' = [last EXCEPT ![c] = current[c]], pc' = [pc EXCEPT ![c] = "select"],
         UNCHANGED <<ref, handles, stack, regionRef, mapped, current, action>>
  PROVE  SchedInv'
<1> DEFINE t == current[c]
<1>t. /\ t \in Threads \/ t = IdleOf[c]
      /\ last[c] = None /\ action[c] = "NONE" /\ t \notin Range(runq[c])
  BY AtSchedule
<1> USE DEF SchedInv, SchedTypeOK
<1>q. \/ t = IdleOf[c] /\ runq' = runq
      \/ /\ t \in Threads
         /\ runq' \in [Cpus -> Seq(Threads)]
         /\ Range(runq'[c]) = Range(runq[c]) \cup {t}
         /\ NoDuplicates(runq[c]) => NoDuplicates(runq'[c])
         /\ \A d \in Cpus \ {c} : runq'[d] = runq[d]
  <2>1. CASE t = IdleOf[c]
    BY <2>1 DEF Requeue
  <2>2. CASE t # IdleOf[c]
    <3>1. t \in Threads /\ run_queue_put(c, t)
      BY <1>t, <2>2 DEF Requeue
    <3> QED
      BY <1>t, <3>1, QueuePut
  <2> QED
    BY <2>1, <2>2
<1>s. state'[t] = "READY" /\ \A u \in AllThreads \ {t} : state'[u] = state[u]
  BY <1>t, IdleFacts DEF AllThreads
<1>h. \A d \in Cpus, u \in Threads : Holds(d, u)' <=> Holds(d, u)
  BY <1>t, <1>q DEF Holds, Cleans
<1>1. SchedTypeOK'
  BY <1>t, <1>q, IdleFacts DEF AllThreads, Places, ThreadStates
<1>2. Exclusive'
  BY <1>h, <1>s DEF Exclusive, AllThreads
<1>3. CoresOK'
  <2> SUFFICES ASSUME NEW d \in Cpus
               PROVE  QueueOK(d)' /\ CurrentOK(d)' /\ LastOK(d)' /\ IdleOK(d)'
    BY DEF CoresOK
  <2> USE DEF CoresOK, At
  <2>0. d # c => current[d] # t
    <3>1. CASE t \in Threads
      BY <3>1 DEF Exclusive, Holds
    <3>2. CASE t = IdleOf[c]
      <4>1. current[d] \in Idles => current[d] = IdleOf[d]
        BY DEF CurrentOK
      <4> QED
        BY <3>2, <4>1, IdleFacts
    <3> QED
      BY <1>t, <3>1, <3>2
  <2>1. QueueOK(d)'
    <3>1. CASE d = c
      <4>1. NoDuplicates(runq'[c])
        BY <1>q DEF QueueOK
      <4>2. \A u \in Range(runq'[c]) : u = t \/ (u \in Range(runq[c]) /\ state'[u] = "READY")
        BY <1>q, <1>s, <1>t, QueuesHoldThreads DEF QueueOK, AllThreads
      <4>3. \A u \in Range(runq'[c]) : current[c] = u => At(c, "select")' /\ action[c] = "NONE"
        BY <1>t
      <4> QED
        BY <1>s, <1>t, <3>1, <4>1, <4>2, <4>3 DEF QueueOK, Cleans
    <3>2. CASE d # c
      <4>1. runq'[d] = runq[d] /\ pc'[d] = pc[d] /\ last'[d] = last[d]
        BY <1>q, <3>2
      <4>2. \A u \in Range(runq[d]) : u \in AllThreads \ {t}
        BY <1>t, <3>2, QueuesHoldThreads, IdleFacts DEF Exclusive, Holds, AllThreads
      <4> QED
        BY <1>s, <4>1, <4>2 DEF QueueOK, Cleans
    <3> QED
      BY <3>1, <3>2
  <2>2. CurrentOK(d)'
    <3>1. CASE d = c
      BY <1>t, <3>1 DEF CurrentOK
    <3>2. CASE d # c
      BY <1>s, <2>0, <3>2 DEF CurrentOK, AllThreads
    <3> QED
      BY <3>1, <3>2
  <2>3. LastOK(d)'
    <3>1. CASE d = c
      BY <1>t, <1>q, <3>1, IdleFacts DEF LastOK
    <3>2. CASE d # c
      <4>1. action[d] # "NONE" => last[d] # t /\ last[d] \in AllThreads
        <5>1. action[d] # "NONE" => last[d] \in Threads /\ Cleans(d, last[d])
          BY DEF LastOK, Cleans
        <5> QED
          BY <3>2, <5>1, <1>t, IdleFacts DEF Exclusive, Holds, AllThreads
      <4> QED
        BY <1>s, <1>q, <3>2, <4>1 DEF LastOK
    <3> QED
      BY <3>1, <3>2
  <2>4. IdleOK(d)'
    <3>1. CASE d = c
      BY <1>s, <1>t, <3>1, IdleFacts DEF IdleOK, CurrentOK
    <3>2. CASE d # c
      BY <1>s, <1>t, <3>2, IdleFacts DEF IdleOK
    <3> QED
      BY <3>1, <3>2
  <2> QED
    BY <2>1, <2>2, <2>3, <2>4
<1>4. Kept'
  <2>1. \A d \in Cpus, u \in Threads \ {t} : KeptBy(d, u) => KeptBy(d, u)'
    BY <1>t, <1>q DEF KeptBy
  <2>2. t \in Threads => KeptBy(c, t)'
    BY <1>q, IdleFacts DEF KeptBy
  <2>3. \A u \in Threads \ {t} : state'[u] = state[u]
    BY <1>s DEF AllThreads
  <2> QED
    BY <2>1, <2>2, <2>3 DEF Kept
<1>5. RefOK'
  <2>1. \A u \in Threads : Owned(u)' <=> Owned(u)
    <3>1. \A u \in Threads \ {t} : Owned(u)' <=> Owned(u)
      BY <1>t, <1>s, SchedAssumption DEF Owned, AllThreads
    <3> QED
      BY <1>s, <3>1 DEF Owned
  <2>2. \A u \in handles : state'[u] # "NONE"
    BY <1>s DEF RefOK, AllThreads
  <2> QED
    BY <2>1, <2>2, RefKept DEF RefOK
<1>6. StackOK'
  BY <1>s DEF StackOK, AllThreads
<1> QED
  BY <1>1, <1>2, <1>3, <1>4, <1>5, <1>6

LEMMA ScheduleKeepsInv ==
  ASSUME SchedInv, NEW c \in Cpus, scheduler_schedule(c)
  PROVE  SchedInv'
<1> USE DEF scheduler_schedule, Goto, Halt, objVars
<1>0. At(c, "schedule")
  OBVIOUS
<1>1. CASE state[current[c]] = "DEAD"
  BY <1>0, <1>1, LeaveKeepsInv
<1>2. CASE state[current[c]] = "PARKING"
  BY <1>0, <1>2, LeaveKeepsInv
<1>3. CASE state[current[c]] = "RUNNING"
  BY <1>0, <1>3, RequeueKeepsInv
<1>4. CASE state[current[c]] \notin {"DEAD", "PARKING", "RUNNING"}
  <2>1. /\ pc' = [pc EXCEPT ![c] = "panic_state"]
        /\ UNCHANGED <<state, ref, handles, stack, regionRef, mapped, runq, current, last, action>>
    BY <1>4
  <2>2. current[c] \in Threads /\ state[current[c]] = "READY"
    BY <1>0, <1>4, AtSchedule DEF SchedInv, CoresOK, CurrentOK, At
  <2> USE DEF SchedInv, SchedTypeOK
  <2>3. SchedTypeOK' /\ StackOK'
    BY <2>1 DEF StackOK, Places
  <2>4. Exclusive'
    BY <2>1 DEF Exclusive, Holds, Cleans
  <2>5. CoresOK'
    BY <1>0, <2>1, <2>2, IdleFacts
    DEF CoresOK, QueueOK, CurrentOK, LastOK, IdleOK, Cleans, At
  <2>6. Kept'
    <3>1. \A d \in Cpus, u \in Threads : KeptBy(d, u) => KeptBy(d, u)'
      BY <1>0, <2>1 DEF KeptBy, At
    <3> QED
      BY <2>1, <3>1 DEF Kept
  <2>7. RefOK'
    <3>1. \A u \in Threads : Owned(u)' <=> Owned(u)
      BY <1>0, <2>1, OwnedKept DEF At
    <3> QED
      BY <2>1, <3>1, RefKept DEF RefOK
  <2> QED
    BY <2>3, <2>4, <2>5, <2>6, <2>7
<1> QED
  BY <1>1, <1>2, <1>3, <1>4

-----------------------------------------------------------------------------
(* The choice and the switch: the chosen thread is READY (the assertion of *)
(* sched.c:180) and in nobody's hands but its core's.                      *)
LEMMA SelectKeepsInv ==
  ASSUME SchedInv, NEW c \in Cpus, SelectAndSwitch(c)
  PROVE  SchedInv'
<1>p. PICK t : t = sched_select_thread(c)
  OBVIOUS
<1> USE DEF SchedInv, SchedTypeOK
<1>a. /\ pc[c] = "select" /\ runq' = [runq EXCEPT ![c] = QueueTaken(c)]
      /\ UNCHANGED <<ref, handles, stack, regionRef, mapped, last, action>>
  BY DEF SelectAndSwitch, At, objVars
<1>o. last[c] = current[c] /\ current[c] \in AllThreads
  BY <1>a DEF CoresOK, LastOK, CurrentOK, At
<1>q. /\ runq' \in [Cpus -> Seq(Threads)]
      /\ NoDuplicates(runq'[c]) /\ \A d \in Cpus \ {c} : runq'[d] = runq[d]
      /\ \/ t = IdleOf[c] /\ runq'[c] = runq[c] /\ Range(runq[c]) = {}
         \/ /\ t \in Threads /\ t \in Range(runq[c]) /\ t \notin Range(runq'[c])
            /\ Range(runq[c]) = Range(runq'[c]) \cup {t}
  <2>0. NoDuplicates(runq[c])
    BY DEF CoresOK, QueueOK
  <2>1. CASE runq[c] = <<>>
    <3>1. runq' = runq /\ t = IdleOf[c]
      BY <1>a, <1>p, <2>1 DEF QueueTaken, sched_select_thread
    <3> QED
      BY <2>0, <2>1, <3>1, EmptyQueue
  <2>2. CASE runq[c] # <<>>
    BY <1>a, <1>p, <2>0, <2>2, QueueTake, QueuesHoldThreads
  <2> QED
    BY <2>1, <2>2
<1>r. state[t] = "READY"
  <2>1. CASE t \in Range(runq[c])
    BY <2>1 DEF CoresOK, QueueOK
  <2>2. CASE t = IdleOf[c]
    BY <1>a, <2>2, IdleFacts DEF CoresOK, IdleOK
  <2> QED
    BY <1>q, <2>1, <2>2
<1>t. t \in AllThreads /\ (t \in Threads \/ t = IdleOf[c])
  BY <1>q, IdleFacts DEF AllThreads
<1>b. /\ pc' = [pc EXCEPT ![c] = "after"] /\ current' = [current EXCEPT ![c] = t]
      /\ state' = [state EXCEPT ![t] = "RUNNING"]
  BY <1>p, <1>r DEF SelectAndSwitch, Goto, Halt
<1>n. t \in Threads => t # last[c] \/ action[c] = "NONE"
  BY <1>q, IdleFacts DEF CoresOK, QueueOK, Cleans
<1>s. state'[t] = "RUNNING" /\ \A u \in AllThreads \ {t} : state'[u] = state[u]
  BY <1>b, <1>t
<1>h. \A d \in Cpus, u \in Threads : Holds(d, u)' => Holds(d, u)
  BY <1>a, <1>b, <1>q, IdleFacts DEF Holds, Cleans
<1>1. SchedTypeOK'
  BY <1>a, <1>b, <1>q, <1>t DEF AllThreads, Places, ThreadStates
<1>2. Exclusive'
  BY <1>h, <1>s DEF Exclusive, AllThreads
<1>3. CoresOK'
  <2> SUFFICES ASSUME NEW d \in Cpus
               PROVE  QueueOK(d)' /\ CurrentOK(d)' /\ LastOK(d)' /\ IdleOK(d)'
    BY DEF CoresOK
  <2> USE DEF CoresOK, At
  <2>c. QueueOK(d) /\ CurrentOK(d) /\ LastOK(d) /\ IdleOK(d)
    OBVIOUS
  <2>0. d # c => current[d] # t
    <3>1. CASE t \in Threads
      BY <1>q, <3>1, IdleFacts DEF Exclusive, Holds
    <3>2. CASE t = IdleOf[c]
      BY <2>c, <3>2, IdleFacts DEF CurrentOK
    <3> QED
      BY <1>t, <3>1, <3>2
  <2>1. QueueOK(d)'
    <3>1. CASE d = c
      <4>1. \A u \in Range(runq'[c]) : u \in Range(runq[c]) /\ u \in AllThreads \ {t}
        BY <1>q, <1>t, QueuesHoldThreads, IdleFacts DEF AllThreads
      <4> QED
        BY <1>a, <1>b, <1>q, <1>s, <2>c, <3>1, <4>1 DEF QueueOK, Cleans
    <3>2. CASE d # c
      <4>1. runq'[d] = runq[d] /\ pc'[d] = pc[d] /\ current'[d] = current[d]
        BY <1>q, <1>b, <3>2
      <4>2. \A u \in Range(runq[d]) : u \in AllThreads \ {t}
        BY <1>q, <1>t, <3>2, QueuesHoldThreads, IdleFacts DEF Exclusive, Holds, AllThreads
      <4> QED
        BY <1>a, <1>s, <2>c, <4>1, <4>2 DEF QueueOK, Cleans
    <3> QED
      BY <3>1, <3>2
  <2>2. CurrentOK(d)'
    <3>1. CASE d = c
      <4>1. t \in Idles => t = IdleOf[c]
        BY <1>t, SchedAssumption
      <4> QED
        BY <1>b, <1>s, <1>t, <3>1, <4>1, SchedAssumption, IdleFacts DEF CurrentOK
    <3>2. CASE d # c
      BY <1>b, <1>s, <2>0, <2>c, <3>2 DEF CurrentOK, AllThreads
    <3> QED
      BY <3>1, <3>2
  <2>3. LastOK(d)'
    <3>1. action[d] # "NONE" => last[d] \in Threads /\ last[d] # t
      <4>1. action[d] # "NONE" => last[d] \in Threads /\ Cleans(d, last[d])
        BY <2>c DEF LastOK, Cleans
      <4>2. ASSUME t \in Threads, Cleans(d, t) PROVE FALSE
        <5>1. d = c
          BY <1>q, <4>2, IdleFacts DEF Exclusive, Holds
        <5> QED
          BY <1>q, <2>c, <4>2, <5>1, IdleFacts DEF QueueOK
      <4> QED
        BY <1>t, <4>1, <4>2, IdleFacts
    <3>2. action[d] = "NONE" /\ last[d] \in Threads => last[d] \in Range(runq'[d]) \/ current'[d] = last[d]
      <4>1. CASE d = c
        BY <1>a, <1>b, <1>q, <2>c, <4>1, IdleFacts DEF LastOK
      <4>2. CASE d # c
        BY <1>b, <1>q, <2>c, <4>2 DEF LastOK
      <4> QED
        BY <4>1, <4>2
    <3>3. action[d] # "NONE" => state'[last[d]] = state[last[d]]
      BY <1>s, <3>1 DEF AllThreads
    <3>4. CASE d = c
      BY <1>a, <1>b, <2>c, <3>1, <3>2, <3>3, <3>4 DEF LastOK
    <3>5. CASE d # c
      BY <1>a, <1>b, <1>q, <2>c, <3>1, <3>2, <3>3, <3>5 DEF LastOK
    <3> QED
      BY <3>4, <3>5
  <2>4. IdleOK(d)'
    <3>1. CASE d = c
      BY <1>a, <1>b, <1>s, <1>t, <2>c, <3>1, IdleFacts DEF IdleOK
    <3>2. CASE d # c
      BY <1>b, <1>s, <1>t, <2>c, <3>2, IdleFacts DEF IdleOK
    <3> QED
      BY <3>1, <3>2
  <2> QED
    BY <2>1, <2>2, <2>3, <2>4
<1>4. Kept'
  <2>1. \A d \in Cpus, u \in Threads \ {t} : KeptBy(d, u) => KeptBy(d, u)'
    BY <1>a, <1>b, <1>q DEF KeptBy
  <2>2. \A u \in Threads \ {t} : state'[u] = state[u]
    BY <1>s DEF AllThreads
  <2> QED
    BY <1>s, <2>1, <2>2 DEF Kept
<1>5. RefOK'
  <2>1. \A u \in Threads \ {t} : Owned(u)' <=> Owned(u)
    <3>1. \A u \in Threads \ {t} : state'[u] = state[u]
      BY <1>s DEF AllThreads
    <3>2. \A u \in Threads \ {t}, d \in Cpus :
            u \in {current'[d], last'[d]} <=> u \in {current[d], last[d]}
      BY <1>a, <1>b, <1>o
    <3>3. \A d \in Cpus : pc'[d] # "halted" <=> pc[d] # "halted"
      BY <1>a, <1>b
    <3> QED
      BY <3>1, <3>2, <3>3, OwnedKept
  <2>2. t \in Threads => Owned(t)' /\ Owned(t)
    BY <1>r, <1>s DEF Owned
  <2>3. \A u \in handles : state'[u] # "NONE"
    BY <1>s DEF RefOK, AllThreads
  <2> QED
    BY <1>a, <2>1, <2>2, <2>3, RefKept DEF RefOK
<1>6. StackOK'
  <2>1. \A u \in Threads : state'[u] = "NONE" <=> state[u] = "NONE"
    BY <1>r, <1>s DEF AllThreads
  <2> QED
    BY <1>a, <2>1 DEF StackOK
<1> QED
  BY <1>1, <1>2, <1>3, <1>4, <1>5, <1>6

-----------------------------------------------------------------------------
(* The cleanup after the switch, on the last thread p of the core *)

LEMMA AfterKeepsInv ==
  ASSUME SchedInv, NEW c \in Cpus, scheduler_after_schedule(c)
  PROVE  SchedInv'
<1>p. PICK p : p = last[c]
  OBVIOUS
<1>c. PICK t : t = current[c]
  OBVIOUS
<1> USE DEF SchedInv, SchedTypeOK
<1>i. QueueOK(c) /\ CurrentOK(c) /\ LastOK(c) /\ IdleOK(c) /\ pc[c] = "after"
  BY DEF CoresOK, scheduler_after_schedule, At
<1>t. /\ t \in Threads \/ (t = IdleOf[c] /\ t \notin Threads)
      /\ state[t] = "RUNNING" /\ t \notin Range(runq[c])
  <2>1. t # None /\ t \in AllThreads /\ (t \in Idles => t = IdleOf[c])
    BY <1>c, <1>i DEF CurrentOK, At
  <2>2. state[t] = "RUNNING" /\ t \notin Range(runq[c])
    BY <1>c, <1>i DEF CurrentOK, QueueOK, At
  <2> QED
    BY <2>1, <2>2, IdleFacts DEF AllThreads
<1>l. action[c] # "NONE" =>
        /\ p \in Threads /\ p # t /\ p \notin Range(runq[c])
        /\ \A d \in Cpus \ {c} : ~Holds(d, p)
        /\ state[p] \in (IF action[c] = "PUT" THEN {"DEAD"} ELSE {"PARKING", "READY"})
  <2> SUFFICES ASSUME action[c] # "NONE"
               PROVE  /\ p \in Threads /\ p # t /\ p \notin Range(runq[c])
                      /\ \A d \in Cpus \ {c} : ~Holds(d, p)
                      /\ state[p] \in (IF action[c] = "PUT" THEN {"DEAD"} ELSE {"PARKING", "READY"})
    OBVIOUS
  <2>1. /\ p \in Threads /\ p # t
        /\ state[p] \in (IF action[c] = "PUT" THEN {"DEAD"} ELSE {"PARKING", "READY"})
    BY <1>p, <1>c, <1>i DEF LastOK, At
  <2>2. Cleans(c, p) /\ Holds(c, p)
    BY <1>p DEF Cleans, Holds
  <2> QED
    BY <1>i, <2>1, <2>2 DEF QueueOK, Exclusive
<1>a. /\ current' = current /\ last' = [last EXCEPT ![c] = None]
      /\ action' = [action EXCEPT ![c] = "NONE"]
      /\ \/ t \in Threads /\ pc' = [pc EXCEPT ![c] = "run"]
         \/ t \notin Threads /\ pc' = [pc EXCEPT ![c] = "schedule"]
         \/ t \notin Threads /\ pc' = [pc EXCEPT ![c] = "hlt"]
  BY <1>c DEF scheduler_after_schedule, Resume, Goto
<1>e. \/ /\ action[c] = "NONE"
         /\ UNCHANGED <<state, ref, handles, stack, regionRef, mapped, runq>>
      \/ /\ action[c] = "PARK" /\ state[p] = "PARKING" /\ state' = [state EXCEPT ![p] = "PARKED"]
         /\ UNCHANGED <<ref, handles, stack, regionRef, mapped, runq>>
      \/ /\ action[c] = "PARK" /\ state[p] = "READY" /\ run_queue_put(c, p)
         /\ UNCHANGED <<state, ref, handles, stack, regionRef, mapped>>
      \/ /\ action[c] = "PUT" /\ ObjectPut(p)
         /\ UNCHANGED <<handles, runq>>
  BY <1>p, <1>l DEF scheduler_after_schedule, Cleanup, scheduler_finish_park, objVars
<1>q. \/ runq' = runq
      \/ /\ action[c] = "PARK" /\ state[p] = "READY" /\ state' = state
         /\ runq' \in [Cpus -> Seq(Threads)] /\ Range(runq'[c]) = Range(runq[c]) \cup {p}
         /\ NoDuplicates(runq'[c]) /\ \A d \in Cpus \ {c} : runq'[d] = runq[d]
  <2>1. ASSUME action[c] = "PARK", run_queue_put(c, p)
        PROVE  /\ runq' \in [Cpus -> Seq(Threads)] /\ Range(runq'[c]) = Range(runq[c]) \cup {p}
               /\ NoDuplicates(runq'[c]) /\ \A d \in Cpus \ {c} : runq'[d] = runq[d]
    BY <1>i, <1>l, <2>1, QueuePut DEF QueueOK
  <2> QED
    BY <1>e, <2>1
<1>s. /\ \A u \in AllThreads \ {p} : state'[u] = state[u]
      /\ action[c] = "NONE" => state' = state
      /\ state' \in [AllThreads -> ThreadStates]
  BY <1>e DEF ObjectPut, ThreadStates
<1>f. action[c] # "NONE" =>
        \/ state[p] = "PARKING" /\ state'[p] = "PARKED" /\ runq' = runq
        \/ state[p] = "READY" /\ state'[p] = "READY" /\ p \in Range(runq'[c])
        \/ state[p] = "DEAD" /\ state'[p] \in {"DEAD", "NONE"} /\ runq' = runq /\ action[c] = "PUT"
  <2>1. p \in Threads => p \in AllThreads
    BY DEF AllThreads
  <2>2. CASE action[c] = "PUT"
    BY <1>e, <1>l, <2>1, <2>2 DEF ObjectPut
  <2>3. CASE action[c] = "PARK"
    BY <1>e, <1>l, <1>q, <2>1, <2>3, QueuePut
  <2> QED
    BY <2>2, <2>3
<1>h. \A d \in Cpus, u \in Threads : Holds(d, u)' => Holds(d, u)
  BY <1>a, <1>p, <1>q DEF Holds, Cleans
<1>g. action[c] # "NONE" /\ state'[p] # "READY" => \A d \in Cpus : ~Holds(d, p)'
  <2> SUFFICES ASSUME action[c] # "NONE", state'[p] # "READY", NEW d \in Cpus, Holds(d, p)'
               PROVE  FALSE
    OBVIOUS
  <2>1. d = c
    BY <1>h, <1>l
  <2> QED
    BY <1>a, <1>c, <1>f, <1>l, <2>1 DEF Holds, Cleans
<1>1. SchedTypeOK'
  <2>1. runq' \in [Cpus -> Seq(Threads)]
    BY <1>q
  <2>2. handles' \in SUBSET Threads
    BY <1>e
  <2> QED
    BY <1>a, <1>s, <2>1, <2>2 DEF AllThreads, Places
<1>2. Exclusive'
  <2>1. \A d, e \in Cpus, u \in Threads : Holds(d, u)' /\ Holds(e, u)' => d = e
    BY <1>h DEF Exclusive
  <2>2. ASSUME NEW d \in Cpus, NEW u \in Threads, Holds(d, u)'
        PROVE  state'[u] \notin {"NONE", "IDLE", "PARKED"}
    <3>1. CASE u = p /\ action[c] # "NONE"
      BY <1>g, <2>2, <3>1
    <3>2. CASE u # p \/ action[c] = "NONE"
      BY <1>h, <1>s, <2>2, <3>2 DEF Exclusive, AllThreads
    <3> QED
      BY <3>1, <3>2
  <2> QED
    BY <2>1, <2>2 DEF Exclusive
<1>3. CoresOK'
  <2> SUFFICES ASSUME NEW d \in Cpus
               PROVE  QueueOK(d)' /\ CurrentOK(d)' /\ LastOK(d)' /\ IdleOK(d)'
    BY DEF CoresOK
  <2> USE DEF At
  <2>c. QueueOK(d) /\ CurrentOK(d) /\ LastOK(d) /\ IdleOK(d)
    BY DEF CoresOK
  <2>n. d # c /\ action[c] # "NONE" => ~Holds(d, p)
    BY <1>l
  <2>1. QueueOK(d)'
    <3>1. CASE d = c
      <4>1. NoDuplicates(runq'[c])
        BY <1>i, <1>q DEF QueueOK
      <4>2. \A u \in Range(runq'[c]) : state'[u] = "READY" /\ u # t
        <5>1. \A u \in Range(runq[c]) : u \in AllThreads /\ state[u] = "READY" /\ u # t
          BY <1>i, <1>t, QueuesHoldThreads DEF QueueOK, AllThreads
        <5>2. \A u \in Range(runq[c]) : action[c] # "NONE" => u # p
          BY <1>l
        <5> QED
          BY <1>q, <1>l, <1>s, <5>1, <5>2
      <4> QED
        BY <1>a, <1>c, <3>1, <4>1, <4>2 DEF QueueOK, Cleans
    <3>2. CASE d # c
      <4>1. runq'[d] = runq[d] /\ pc'[d] = pc[d] /\ last'[d] = last[d] /\ action'[d] = action[d]
        BY <1>a, <1>q, <3>2
      <4>2. \A u \in Range(runq[d]) : state'[u] = state[u]
        BY <1>s, <2>n, <3>2, QueuesHoldThreads DEF Holds, AllThreads
      <4> QED
        BY <1>a, <2>c, <4>1, <4>2 DEF QueueOK, Cleans
    <3> QED
      BY <3>1, <3>2
  <2>2. CurrentOK(d)'
    <3>1. CASE d = c
      <4>1. state'[t] = "RUNNING"
        BY <1>l, <1>s, <1>t, IdleFacts DEF AllThreads
      <4>2. t # None /\ (t \in Idles => t = IdleOf[c])
        BY <1>c, <1>i DEF CurrentOK
      <4> QED
        BY <1>a, <1>c, <1>t, <3>1, <4>1, <4>2 DEF CurrentOK
    <3>2. CASE d # c
      <4>1. current[d] # None => state'[current[d]] = state[current[d]]
        BY <1>s, <2>n, <3>2 DEF Holds
      <4> QED
        BY <1>a, <2>c, <3>2, <4>1 DEF CurrentOK
    <3> QED
      BY <3>1, <3>2
  <2>3. LastOK(d)'
    <3>1. CASE d = c
      BY <1>a, <3>1, SchedAssumption DEF LastOK
    <3>2. CASE d # c
      <4>1. action[d] # "NONE" => last[d] \in Threads /\ state'[last[d]] = state[last[d]]
        BY <1>s, <2>c, <2>n, <3>2 DEF Holds, Cleans, LastOK, AllThreads
      <4>2. runq'[d] = runq[d]
        BY <1>q, <3>2
      <4>3. handles' = handles
        BY <1>e
      <4> QED
        BY <1>a, <2>c, <3>2, <4>1, <4>2, <4>3 DEF LastOK
    <3> QED
      BY <3>1, <3>2
  <2>4. IdleOK(d)'
    <3>1. state'[IdleOf[d]] = state[IdleOf[d]]
      BY <1>l, <1>s, IdleFacts
    <3> QED
      BY <1>a, <1>c, <1>i, <2>c, <3>1 DEF IdleOK
  <2> QED
    BY <2>1, <2>2, <2>3, <2>4
<1>4. Kept'
  <2>1. \A d \in Cpus, u \in Threads :
          KeptBy(d, u) /\ (u # p \/ action[c] = "NONE") => KeptBy(d, u)'
    BY <1>a, <1>i, <1>p, <1>q DEF KeptBy
  <2>2. action[c] # "NONE" /\ state'[p] \in {"READY", "PARKING"} => KeptBy(c, p)'
    BY <1>f DEF KeptBy
  <2>3. \A u \in Threads : u # p \/ action[c] = "NONE" => state'[u] = state[u]
    BY <1>s DEF AllThreads
  <2> QED
    BY <2>1, <2>2, <2>3 DEF Kept
<1>o. \A u \in Threads : u # p \/ action[c] # "PUT" => (Owned(u)' <=> Owned(u))
  <2> SUFFICES ASSUME NEW u \in Threads, u # p \/ action[c] # "PUT" PROVE Owned(u)' <=> Owned(u)
    OBVIOUS
  <2>1. CASE u # p
    <3>1. \A d \in Cpus : u \in {current'[d], last'[d]} <=> u \in {current[d], last[d]}
      BY <1>a, <1>p, <2>1, SchedAssumption
    <3>2. \A d \in Cpus : pc'[d] # "halted" <=> pc[d] # "halted"
      BY <1>a, <1>i
    <3>3. state'[u] = state[u]
      BY <1>s, <2>1 DEF AllThreads
    <3> QED
      BY <3>1, <3>2, <3>3, OwnedKept
  <2>2. CASE u = p /\ action[c] = "NONE"
    <3>1. state[p] \in {"READY", "RUNNING"}
      BY <1>c, <1>i, <1>p, <1>t, <2>2 DEF LastOK, QueueOK
    <3> QED
      BY <1>s, <2>2, <3>1 DEF Owned
  <2>3. CASE u = p /\ action[c] = "PARK"
    BY <1>f, <1>l, <2>3 DEF Owned
  <2> QED
    BY <2>1, <2>2, <2>3
<1>5. RefOK'
  <2>1. CASE action[c] # "PUT"
    <3>1. \A u \in handles : state'[u] # "NONE"
      BY <1>e, <1>f, <1>l, <1>s, <2>1 DEF RefOK, AllThreads
    <3>2. \A u \in Threads : Owned(u)' <=> Owned(u)
      BY <1>o, <2>1
    <3> QED
      BY <1>e, <2>1, <3>1, <3>2, RefKept DEF RefOK
  <2>2. CASE action[c] = "PUT"
    <3>1. p \in Threads /\ state[p] = "DEAD" /\ ObjectPut(p) /\ handles' = handles
      BY <1>e, <1>l, <2>2
    <3>2. Owned(p)
      BY <1>i, <1>p, <3>1 DEF Owned
    <3>3. ~Owned(p)'
      <4>1. ASSUME NEW d \in Cpus, p \in {current'[d], last'[d]} PROVE FALSE
        <5>1. d # c
          BY <1>a, <1>c, <1>l, <2>2, <4>1, SchedAssumption
        <5>2. p \in {current[d], last[d]} /\ LastOK(d) /\ ~Holds(d, p)
          BY <1>a, <1>l, <2>2, <4>1, <5>1 DEF CoresOK
        <5> QED
          BY <3>1, <5>2 DEF LastOK, Holds, Cleans
      <4> QED
        BY <1>f, <2>2, <3>1, <4>1 DEF Owned
    <3>4. ref[p] = 1 + (IF p \in handles THEN 1 ELSE 0)
      BY <3>1, <3>2 DEF RefOK
    <3>5. ref' = [ref EXCEPT ![p] = ref[p] - 1] /\ p \in AllThreads
      BY <3>1 DEF ObjectPut, AllThreads
    <3>6. ref' \in [AllThreads -> Nat] /\ ref'[p] = (IF p \in handles THEN 1 ELSE 0)
      BY <3>4, <3>5 DEF RefOK
    <3>7. \A u \in Threads \ {p} : ref'[u] = ref[u] /\ (Owned(u)' <=> Owned(u))
      BY <1>o, <3>5 DEF RefOK, AllThreads
    <3>8. \A u \in handles : state'[u] # "NONE"
      <4>1. p \in handles => state' = state
        BY <3>1, <3>4 DEF ObjectPut
      <4> QED
        BY <1>s, <3>1, <4>1 DEF RefOK, AllThreads
    <3>9. ASSUME NEW u \in Threads
          PROVE  ref'[u] = (IF Owned(u)' THEN 1 ELSE 0) + (IF u \in handles' THEN 1 ELSE 0)
      <4>1. CASE u = p
        BY <3>1, <3>3, <3>6, <4>1
      <4>2. CASE u # p
        BY <3>1, <3>7, <4>2 DEF RefOK
      <4> QED
        BY <4>1, <4>2
    <3> QED
      BY <3>1, <3>6, <3>8, <3>9 DEF RefOK
  <2> QED
    BY <2>1, <2>2
<1>6. StackOK'
  <2>1. CASE action[c] # "PUT" \/ ref[p] # 1
    <3>1. UNCHANGED <<stack, regionRef, mapped>> /\ (action[c] = "PUT" => state' = state)
      BY <1>e, <2>1 DEF ObjectPut
    <3>2. \A u \in Threads : state'[u] = "NONE" <=> state[u] = "NONE"
      BY <1>f, <1>s, <3>1 DEF AllThreads
    <3>3. \A u \in Threads : ref'[u] > 0 => ref[u] > 0
      <4>1. CASE action[c] = "PUT"
        <5>1. ref[p] \in Nat \ {1} /\ ref' = [ref EXCEPT ![p] = ref[p] - 1]
          BY <1>e, <1>l, <2>1, <4>1 DEF ObjectPut, RefOK, AllThreads
        <5> QED
          BY <5>1 DEF RefOK, AllThreads
      <4>2. CASE action[c] # "PUT"
        BY <1>e, <4>2
      <4> QED
        BY <4>1, <4>2
    <3> QED
      BY <3>1, <3>2, <3>3 DEF StackOK
  <2>2. CASE action[c] = "PUT" /\ ref[p] = 1
    <3>1. /\ p \in Threads /\ stack[p] \in Regions /\ state' = [state EXCEPT ![p] = "NONE"]
          /\ mapped' = mapped \ {stack[p]} /\ stack' = [stack EXCEPT ![p] = None]
          /\ regionRef' = [regionRef EXCEPT ![stack[p]] = @ - 1]
      BY <1>e, <1>l, <2>2 DEF ObjectPut, StackOK
    <3>2. \A u \in Threads \ {p} : stack[u] # stack[p]
      BY <3>1, SchedAssumption DEF StackOK
    <3>3. \A u \in Threads \ {p} : ref'[u] = ref[u] /\ state'[u] = state[u]
      BY <1>e, <1>s, <2>2 DEF ObjectPut, RefOK, AllThreads
    <3>4. ASSUME NEW u \in Threads
          PROVE  IF state'[u] = "NONE" THEN stack'[u] = None
                 ELSE /\ stack'[u] \in Regions /\ regionRef'[stack'[u]] >= 1
                      /\ ref'[u] > 0 => stack'[u] \in mapped' /\ regionRef'[stack'[u]] = 2
      <4>1. CASE u = p
        BY <3>1, <4>1 DEF StackOK, SchedTypeOK, AllThreads
      <4>2. CASE u # p
        <5>1. stack'[u] = stack[u] /\ state'[u] = state[u]
          BY <3>1, <4>2 DEF StackOK, SchedTypeOK, AllThreads
        <5>2. stack[u] \in Regions => regionRef'[stack[u]] = regionRef[stack[u]]
          BY <3>1, <3>2, <4>2 DEF StackOK
        <5> QED
          BY <3>1, <3>2, <3>3, <4>2, <5>1, <5>2 DEF StackOK
      <4> QED
        BY <4>1, <4>2
    <3>5. /\ stack' \in [Threads -> Regions \cup {None}] /\ regionRef' \in [Regions -> Int]
          /\ \A u, v \in Threads : u # v /\ stack'[u] = stack'[v] => stack'[u] = None
      BY <3>1, <3>2 DEF StackOK
    <3> QED
      BY <3>4, <3>5 DEF StackOK
  <2> QED
    BY <2>1, <2>2
<1> QED
  BY <1>1, <1>2, <1>3, <1>4, <1>5, <1>6

-----------------------------------------------------------------------------
(* A core that stops *)

(* Stopping as thread t, which the core runs *)
LEMMA CreateHaltsKeepsInv ==
  ASSUME SchedInv, NEW c \in Cpus, NEW t \in Threads, Runs(c, t), CreateHalts(c)
  PROVE  SchedInv'
<1> USE SchedAssumption DEF SchedInv, AllThreads, Idles, Goto, Halt, cpuVars, objVars
<1>a. /\ UNCHANGED <<state, ref, objVars, runq, current, last, action>>
      /\ pc' = [pc EXCEPT ![c] = "halted"] /\ pc[c] = "run" /\ current[c] = t
  BY DEF CreateHalts, Runs, At
<1>1. SchedTypeOK'
  BY <1>a DEF SchedTypeOK, Places
<1>2. Exclusive'
  BY <1>a DEF Exclusive, Holds, Cleans
<1>3. CoresOK'
  <2> SUFFICES ASSUME NEW d \in Cpus PROVE QueueOK(d)' /\ CurrentOK(d)' /\ LastOK(d)' /\ IdleOK(d)'
    BY DEF CoresOK
  <2>c. QueueOK(d) /\ CurrentOK(d) /\ LastOK(d) /\ IdleOK(d)
    BY DEF CoresOK
  <2>1. QueueOK(d)'
    BY <1>a, <2>c DEF SchedTypeOK, QueueOK, Cleans, At
  <2>2. CurrentOK(d)'
    BY <1>a, <2>c DEF SchedTypeOK, CurrentOK, At
  <2>3. LastOK(d)'
    BY <1>a, <2>c DEF SchedTypeOK, LastOK, At
  <2>4. IdleOK(d)'
    BY <1>a, <2>c DEF SchedTypeOK, IdleOK
  <2> QED
    BY <2>1, <2>2, <2>3, <2>4
<1>4. Kept'
  <2>1. \A d \in Cpus, u \in Threads : KeptBy(d, u) => KeptBy(d, u)'
    BY <1>a DEF SchedTypeOK, KeptBy
  <2> QED
    BY <1>a, <2>1 DEF Kept
<1>5. RefOK'
  <2>1. last[c] = None /\ state[current[c]] # "DEAD"
    BY <1>a DEF CoresOK, LastOK, CurrentOK, At
  <2>2. \A u \in Threads : Owned(u)' <=> Owned(u)
    BY <1>a, <2>1 DEF SchedTypeOK, Owned
  <2> QED
    BY <1>a, <2>2, RefKept DEF RefOK
<1>6. StackOK'
  BY <1>a DEF StackOK
<1> QED
  BY <1>1, <1>2, <1>3, <1>4, <1>5, <1>6

(* What a put that stops leaves alone: the thread it frees is dead, and    *)
(* no core that goes on has it.                                            *)
LEMMA PutHaltsLeaves ==
  ASSUME SchedInv, NEW c \in Cpus, NEW t \in Threads, ObjectPutHalts(c, t),
         handles' \in SUBSET handles, t \notin handles', UNCHANGED <<runq, current, last, action>>,
         state[current[c]] \in {"RUNNING", "PARKING", "READY"}, pc[c] \in {"run", "after"},
         action[c] # "NONE" => last[c] = t
  PROVE  SchedTypeOK' /\ Exclusive' /\ CoresOK' /\ Kept'
<1> USE SchedAssumption DEF SchedInv, AllThreads, Idles, Goto, Halt, cpuVars, objVars
<1>a. /\ UNCHANGED <<state, stack, runq, current, last, action>>
      /\ pc' = [pc EXCEPT ![c] = "halted"]
  BY DEF ObjectPutHalts
<1>1. SchedTypeOK'
  BY <1>a DEF SchedTypeOK, Places
<1>2. Exclusive'
  BY <1>a DEF Exclusive, Holds, Cleans
<1>3. CoresOK'
  <2> SUFFICES ASSUME NEW d \in Cpus PROVE QueueOK(d)' /\ CurrentOK(d)' /\ LastOK(d)' /\ IdleOK(d)'
    BY DEF CoresOK
  <2>c. QueueOK(d) /\ CurrentOK(d) /\ LastOK(d) /\ IdleOK(d)
    BY DEF CoresOK
  <2>1. QueueOK(d)'
    BY <1>a, <2>c DEF SchedTypeOK, QueueOK, Cleans, At
  <2>2. CurrentOK(d)'
    BY <1>a, <2>c DEF SchedTypeOK, CurrentOK, At
  <2>3. LastOK(d)'
    BY <1>a, <2>c DEF SchedTypeOK, LastOK, At
  <2>4. IdleOK(d)'
    BY <1>a, <2>c DEF SchedTypeOK, IdleOK
  <2> QED
    BY <2>1, <2>2, <2>3, <2>4
<1>4. Kept'
  <2>1. \A d \in Cpus, u \in Threads : KeptBy(d, u) => KeptBy(d, u)'
    BY <1>a DEF SchedTypeOK, KeptBy
  <2> QED
    BY <1>a, <2>1 DEF Kept
<1> QED
  BY <1>1, <1>2, <1>3, <1>4

(* The stacks of the other threads stay as they are. *)
LEMMA PutHaltsStackOK ==
  ASSUME SchedInv, NEW c \in Cpus, NEW t \in Threads, ObjectPutHalts(c, t), state[t] # "NONE"
  PROVE  StackOK'
<1> USE SchedAssumption DEF SchedInv
<1>1. /\ ref' = [ref EXCEPT ![t] = 0] /\ UNCHANGED <<state, stack>>
      /\ mapped' = mapped \/ mapped' = mapped \ {stack[t]}
      /\ regionRef' = regionRef \/ regionRef' = [regionRef EXCEPT ![stack[t]] = @ - 1]
      /\ ref[t] = 1
  BY DEF ObjectPutHalts
<1>2. stack[t] \in Regions /\ regionRef[stack[t]] = 2
  BY <1>1 DEF StackOK
<1>3. \A u \in Threads \ {t} : stack[u] # stack[t] /\ ref'[u] = ref[u]
  BY <1>1, <1>2 DEF StackOK, RefOK, AllThreads
<1>4. ref'[t] = 0
  BY <1>1 DEF RefOK, AllThreads
<1>5. ASSUME NEW u \in Threads
      PROVE  IF state[u] = "NONE" THEN stack[u] = None
             ELSE /\ stack[u] \in Regions /\ regionRef'[stack[u]] >= 1
                  /\ ref'[u] > 0 => stack[u] \in mapped' /\ regionRef'[stack[u]] = 2
  <2>1. CASE u = t
    BY <1>1, <1>2, <1>4, <2>1 DEF StackOK
  <2>2. CASE u # t
    BY <1>1, <1>2, <1>3, <2>2 DEF StackOK
  <2> QED
    BY <2>1, <2>2
<1>6. regionRef' \in [Regions -> Int]
  BY <1>1, <1>2 DEF StackOK
<1> QED
  BY <1>1, <1>5, <1>6 DEF StackOK

(* A handle's put *)
LEMMA PutHaltsKeepsInv ==
  ASSUME SchedInv, NEW c \in Cpus, NEW t \in Threads, Runs(c, current[c]), PutHalts(c, t)
  PROVE  SchedInv'
<1> USE SchedAssumption DEF SchedInv, AllThreads, Idles, Goto, Halt, cpuVars, objVars
<1>a. /\ ObjectPutHalts(c, t) /\ t \in handles /\ handles' = handles \ {t}
      /\ UNCHANGED <<state, stack, runq, current, last, action>>
      /\ ref[t] = 1 /\ ref' = [ref EXCEPT ![t] = 0] /\ pc' = [pc EXCEPT ![c] = "halted"]
  BY DEF PutHalts, ObjectPutHalts
<1>b. /\ state[current[c]] \in {"RUNNING", "PARKING", "READY"} /\ pc[c] = "run"
      /\ last[c] = None /\ action[c] = "NONE"
  BY DEF Runs, At, CoresOK, CurrentOK, LastOK
<1>1. SchedTypeOK' /\ Exclusive' /\ CoresOK' /\ Kept'
  BY <1>a, <1>b, PutHaltsLeaves
<1>2. RefOK'
  <2>1. \A u \in Threads : Owned(u)' <=> Owned(u)
    BY <1>a, <1>b DEF SchedTypeOK, Owned
  <2>2. ~Owned(t)
    BY <1>a DEF RefOK
  <2>3. \A u \in Threads : ref'[u] = IF u = t THEN 0 ELSE ref[u]
    BY <1>a DEF RefOK
  <2>4. ASSUME NEW u \in Threads
        PROVE  ref'[u] = (IF Owned(u)' THEN 1 ELSE 0) + (IF u \in handles' THEN 1 ELSE 0)
    <3>1. CASE u = t
      BY <1>a, <2>1, <2>2, <2>3, <3>1
    <3>2. CASE u # t
      BY <1>a, <2>1, <2>3, <3>2 DEF RefOK
    <3> QED
      BY <3>1, <3>2
  <2> QED
    BY <1>a, <2>4 DEF RefOK
<1>3. StackOK'
  BY <1>a, PutHaltsStackOK DEF RefOK
<1> QED
  BY <1>1, <1>2, <1>3

(* The scheduler's put *)
LEMMA CleanupHaltsKeepsInv ==
  ASSUME SchedInv, NEW c \in Cpus, CleanupHalts(c)
  PROVE  SchedInv'
<1> USE SchedAssumption DEF SchedInv, AllThreads, Idles, Goto, Halt, cpuVars, objVars
<1>t. PICK t : t = last[c]
  OBVIOUS
<1>a. /\ ObjectPutHalts(c, t) /\ action[c] = "PUT" /\ pc[c] = "after"
      /\ UNCHANGED <<state, stack, handles, runq, current, last, action>>
      /\ ref[t] = 1 /\ ref' = [ref EXCEPT ![t] = 0] /\ pc' = [pc EXCEPT ![c] = "halted"]
  BY <1>t DEF CleanupHalts, ObjectPutHalts, At
<1>b. t \in Threads /\ state[t] = "DEAD" /\ state[current[c]] = "RUNNING"
  BY <1>a, <1>t DEF At, CoresOK, CurrentOK, LastOK
<1>c. Owned(t) /\ t \notin handles
  <2>1. Owned(t)
    BY <1>a, <1>b, <1>t DEF Owned
  <2> QED
    BY <1>a, <1>b, <2>1 DEF RefOK
<1>1. SchedTypeOK' /\ Exclusive' /\ CoresOK' /\ Kept'
  BY <1>a, <1>b, <1>c, <1>t, PutHaltsLeaves
<1>2. RefOK'
  <2>1. \A d \in Cpus \ {c} : t # current[d] /\ t # last[d]
    <3> SUFFICES ASSUME NEW d \in Cpus \ {c}, t = current[d] \/ t = last[d] PROVE FALSE
      OBVIOUS
    <3>1. Holds(c, t)
      BY <1>a, <1>t DEF Holds, Cleans
    <3>2. Holds(d, t)
      BY <1>b DEF Holds, Cleans, CoresOK, LastOK
    <3> QED
      BY <1>b, <3>1, <3>2 DEF Exclusive
  <2>2. ~Owned(t)'
    <3>1. state'[t] = "DEAD" /\ pc'[c] = "halted"
      BY <1>a, <1>b DEF SchedTypeOK
    <3>2. \A d \in Cpus \ {c} : t # current'[d] /\ t # last'[d]
      BY <1>a, <2>1
    <3> QED
      BY <3>1, <3>2 DEF Owned
  <2>3. \A u \in Threads \ {t} : Owned(u)' <=> Owned(u)
    BY <1>a, <1>b, <1>t DEF Owned, SchedTypeOK
  <2>4. \A u \in Threads : ref'[u] = IF u = t THEN 0 ELSE ref[u]
    BY <1>a, <1>b DEF RefOK
  <2>5. ASSUME NEW u \in Threads
        PROVE  ref'[u] = (IF Owned(u)' THEN 1 ELSE 0) + (IF u \in handles' THEN 1 ELSE 0)
    <3>1. CASE u = t
      BY <1>a, <1>c, <2>2, <2>4, <3>1
    <3>2. CASE u # t
      BY <1>a, <2>3, <2>4, <3>2 DEF RefOK
    <3> QED
      BY <3>1, <3>2
  <2> QED
    BY <1>a, <2>5 DEF RefOK
<1>3. StackOK'
  BY <1>a, <1>b, PutHaltsStackOK
<1> QED
  BY <1>1, <1>2, <1>3

-----------------------------------------------------------------------------
(* The theorems *)

LEMMA StutterKeepsInv == SchedInv /\ UNCHANGED schedVars => SchedInv'
BY DEF SchedInv, SchedTypeOK, Exclusive, Holds, Cleans, CoresOK, QueueOK, CurrentOK, LastOK,
   IdleOK, At, Kept, KeptBy, RefOK, Owned, StackOK, schedVars, objVars, cpuVars

LEMMA SchedInvariant == SchedSpec => []SchedInv
<1>1. ASSUME SchedInv, NEW c \in Cpus, SchedulerStep(c) \/ WakeUp(c)
      PROVE  SchedInv'
  BY <1>1, StartKeepsInv, ScheduleKeepsInv, SelectKeepsInv, AfterKeepsInv,
     CleanupHaltsKeepsInv, WakeUpKeepsInv
  DEF SchedulerStep
<1>2. ASSUME SchedInv, NEW c \in Cpus, NEW t \in Threads, ThreadStep(c, t)
      PROVE  SchedInv'
  <2>1. ASSUME NEW u \in Threads,
               \/ thread_create(c, u) \/ thread_start(c, u) \/ thread_get(c, u)
               \/ thread_put(c, u) \/ PutHalts(c, u)
        PROVE  SchedInv'
    <3>1. Runs(c, current[c])
      BY <1>2 DEF ThreadStep, Runs
    <3> QED
      BY <1>2, <2>1, <3>1, CreateKeepsInv, StutterKeepsInv, ThreadStartKeepsInv, GetKeepsInv, PutKeepsInv,
         PutHaltsKeepsInv
  <2>2. CASE thread_exit(c) \/ thread_yield(c) \/ CreateHalts(c)
    BY <1>2, <2>2, ExitKeepsInv, YieldKeepsInv, CreateHaltsKeepsInv DEF ThreadStep
  <2>3. CASE park_begin(c) \/ park_abort(c) \/ park_schedule(c)
    BY <1>2, <2>3, ParkBeginKeepsInv, ParkAbortKeepsInv, ParkScheduleKeepsInv DEF ThreadStep
  <2> QED
    BY <1>2, <2>1, <2>2, <2>3 DEF ThreadStep
<1>3. SchedInv /\ [SchedNext]_schedVars => SchedInv'
  BY <1>1, <1>2, UnparkKeepsInv, StutterKeepsInv DEF SchedNext
<1> QED
  BY <1>3, InitInv, PTL DEF SchedSpec

(* However threads yield, park, die and are unparked from elsewhere, no    *)
(* two of any number of cores execute on the stack of one thread.          *)
THEOREM SchedOneCorePerThread == SchedSpec => []OneCorePerThread
<1>1. SchedInv => OneCorePerThread
  <2> SUFFICES ASSUME SchedInv, NEW c \in Cpus, NEW d \in Cpus,
                      c # d, current[c] # None, current[c] = current[d]
               PROVE  FALSE
    BY DEF OneCorePerThread
  <2>1. CASE current[c] \in Threads
    BY <2>1 DEF SchedInv, Exclusive, Holds
  <2>2. CASE current[c] \in Idles
    <3>1. current[c] = IdleOf[c] /\ current[d] = IdleOf[d]
      BY <2>2 DEF SchedInv, CoresOK, CurrentOK
    <3> QED
      BY <3>1, IdleFacts
  <2> QED
    BY <2>1, <2>2 DEF SchedInv, SchedTypeOK, AllThreads
<1> QED
  BY <1>1, SchedInvariant, PTL

(* A thread is linked at most once in at most one run queue, and is READY  *)
(* there: scheduler_schedule never chooses a thread that it may not run.   *)
THEOREM SchedQueuedOnce == SchedSpec => []QueuedOnce
<1>1. SchedInv => QueuedOnce
  <2> SUFFICES ASSUME SchedInv PROVE QueuedOnce
    OBVIOUS
  <2>1. \A c \in Cpus : Range(runq[c]) \subseteq Threads
    BY QueuesHoldThreads DEF SchedInv
  <2>2. \A c \in Cpus : NoDuplicates(runq[c]) /\ \A t \in Range(runq[c]) : state[t] = "READY"
    BY DEF SchedInv, CoresOK, QueueOK
  <2>3. \A c, d \in Cpus : c # d => Range(runq[c]) \cap Range(runq[d]) = {}
    BY <2>1 DEF SchedInv, Exclusive, Holds
  <2> QED
    BY <2>1, <2>2, <2>3 DEF QueuedOnce, NoDuplicates
<1> QED
  BY <1>1, SchedInvariant, PTL

(* As long as nobody parks, a core finds the thread it runs running or     *)
(* dead: an unpark is the only other way to make it READY.                 *)
NobodyParks ==
  /\ \A t \in Threads : state[t] \notin {"PARKING", "PARKED"}
  /\ \A c \in Cpus :
       /\ pc[c] # "panic_state" /\ action[c] # "PARK"
       /\ pc[c] \in {"run", "schedule"} /\ current[c] \in Threads
            => state[current[c]] # "READY"

LEMMA SchedulerKeepsNobodyParks ==
  ASSUME ~CanPark, SchedInv, NobodyParks, NEW c \in Cpus, SchedulerStep(c) \/ WakeUp(c)
  PROVE  NobodyParks'
<1> USE SchedAssumption DEF NobodyParks, SchedInv, SchedTypeOK, AllThreads, Goto, Halt, At, objVars
<1>0. \A d \in Cpus : d # c /\ current[d] \in Threads => current[d] # current[c]
  BY DEF Exclusive, Holds
<1>1. CASE sched_start_per_core(c)
  BY <1>1 DEF sched_start_per_core, thread_bootstrap, Idles
<1>2. CASE scheduler_schedule(c)
  <2>1. state[current[c]] \in {"DEAD", "RUNNING"}
    <3>1. /\ pc[c] = "schedule" /\ CurrentOK(c) /\ IdleOK(c)
      BY <1>2 DEF scheduler_schedule, CoresOK
    <3>2. current[c] \in Threads \cup Idles
      BY <3>1 DEF CurrentOK
    <3>3. current[c] \in Idles => state[current[c]] = "RUNNING"
      BY <3>1 DEF CurrentOK, IdleOK
    <3>4. state[current[c]] \in {"RUNNING", "PARKING", "READY", "DEAD"}
      BY <3>1 DEF CurrentOK
    <3> QED
      BY <3>1, <3>2, <3>3, <3>4
  <2>2. /\ pc' = [pc EXCEPT ![c] = "select"] /\ current' = current
        /\ action' \in {action, [action EXCEPT ![c] = "PUT"]}
        /\ state' \in {state, [state EXCEPT ![current[c]] = "READY"]}
    BY <1>2, <2>1 DEF scheduler_schedule
  <2>3. \A t \in Threads : state'[t] \notin {"PARKING", "PARKED"}
    BY <2>2
  <2>4. ASSUME NEW d \in Cpus
        PROVE  /\ pc'[d] # "panic_state" /\ action'[d] # "PARK"
               /\ pc'[d] \in {"run", "schedule"} /\ current'[d] \in Threads
                    => state'[current'[d]] # "READY"
    <3>1. pc'[d] # "panic_state" /\ action'[d] # "PARK"
      BY <2>2
    <3>2. CASE d = c
      BY <2>2, <3>1, <3>2
    <3>3. CASE d # c
      BY <1>0, <2>2, <3>1, <3>3
    <3> QED
      BY <3>2, <3>3
  <2> QED
    BY <2>3, <2>4
<1>3. CASE SelectAndSwitch(c)
  BY <1>3 DEF SelectAndSwitch
<1>4. CASE scheduler_after_schedule(c)
  <2>1. \A t \in Threads : state'[t] \in {state[t], "NONE"}
    BY <1>4 DEF scheduler_after_schedule, Cleanup, ObjectPut
  <2>2. At(c, "after") /\ current' = current /\ action' = [action EXCEPT ![c] = "NONE"]
    BY <1>4 DEF scheduler_after_schedule
  <2>3. pc' = [pc EXCEPT ![c] = IF current[c] \in Threads THEN "run"
                                ELSE IF current[c] \in fresh THEN "schedule" ELSE "hlt"]
    BY <1>4 DEF scheduler_after_schedule, Resume
  <2>4. state[current[c]] = "RUNNING"
    BY <2>2 DEF CoresOK, CurrentOK
  <2> QED
    BY <2>1, <2>2, <2>3, <2>4
<1>5. CASE CleanupHalts(c)
  BY <1>5 DEF CleanupHalts, ObjectPutHalts
<1>6. CASE WakeUp(c)
  <2>1. current[c] \notin Threads
    BY <1>6 DEF WakeUp, CoresOK, CurrentOK, Idles
  <2> QED
    BY <1>6, <2>1 DEF WakeUp
<1> QED
  BY <1>1, <1>2, <1>3, <1>4, <1>5, <1>6 DEF SchedulerStep

LEMMA ThreadKeepsNobodyParks ==
  ASSUME ~CanPark, SchedInv, NobodyParks, NEW c \in Cpus, NEW t \in Threads, ThreadStep(c, t)
  PROVE  NobodyParks'
<1> USE SchedAssumption DEF NobodyParks, SchedInv, SchedTypeOK, AllThreads, Goto, Halt, At,
                            objVars, cpuVars, schedVars
<1>0. At(c, "run") /\ current[c] = t
  BY DEF ThreadStep, Runs
<1>1. ASSUME NEW u \in Threads, thread_create(c, u)
      PROVE  NobodyParks'
  BY <1>1 DEF thread_create
<1>2. ASSUME NEW u \in Threads, thread_start(c, u)
      PROVE  NobodyParks'
  <2>1. \A d \in Cpus : current[d] # u
    BY <1>2 DEF thread_start, Exclusive, Holds
  <2> QED
    BY <1>2, <2>1 DEF thread_start
<1>3. ASSUME NEW u \in Threads, thread_get(c, u) \/ thread_put(c, u)
      PROVE  NobodyParks'
  BY <1>3 DEF thread_get, thread_put, ObjectPut
<1>4. ASSUME NEW u \in Threads, PutHalts(c, u)
      PROVE  NobodyParks'
  BY <1>4 DEF PutHalts, ObjectPutHalts
<1>5. CASE CreateHalts(c)
  BY <1>5 DEF CreateHalts
<1>6. CASE thread_exit(c)
  BY <1>6 DEF thread_exit
<1>7. CASE thread_yield(c)
  BY <1>7 DEF thread_yield
<1>8. ~park_begin(c) /\ ~park_abort(c) /\ ~park_schedule(c)
  BY <1>0 DEF park_begin, park_abort, park_schedule
<1> QED
  BY <1>1, <1>2, <1>3, <1>4, <1>5, <1>6, <1>7, <1>8 DEF ThreadStep

(* sched.c:171: the assertion fails only on a READY thread, which was      *)
(* unparked before the load of scheduler_schedule, and never while nobody  *)
(* parks, which is how the tree stands.                                    *)
THEOREM SchedOnlyUnparkAsserts == SchedSpec => []OnlyUnparkAsserts
<1>1. SchedInv => (CanPark => OnlyUnparkAsserts)
  BY DEF SchedInv, CoresOK, CurrentOK, At, OnlyUnparkAsserts
<1>2. ASSUME ~CanPark PROVE SchedInit => NobodyParks
  BY SchedAssumption DEF SchedInit, NobodyParks
<1>3. ASSUME ~CanPark PROVE SchedInv /\ NobodyParks /\ [SchedNext]_schedVars => NobodyParks'
  <2>1. ASSUME NobodyParks, NEW c \in Cpus, NEW t \in Threads PROVE ~scheduler_try_unpark(c, t)
    BY <2>1 DEF NobodyParks, scheduler_try_unpark
  <2>2. NobodyParks /\ UNCHANGED schedVars => NobodyParks'
    BY DEF NobodyParks, schedVars, cpuVars
  <2> QED
    BY <1>3, <2>1, <2>2, SchedulerKeepsNobodyParks, ThreadKeepsNobodyParks DEF SchedNext
<1>4. NobodyParks => OnlyUnparkAsserts
  BY DEF NobodyParks, OnlyUnparkAsserts
<1>5. CASE CanPark
  BY <1>1, <1>5, SchedInvariant, PTL
<1>6. CASE ~CanPark
  BY <1>2, <1>3, <1>4, <1>6, SchedInvariant, PTL DEF SchedSpec
<1> QED
  BY <1>5, <1>6

(* No wakeup is lost between the read that opens scheduler_schedule and    *)
(* scheduler_finish_park: a READY thread that no core runs is in a queue   *)
(* or with the core that is about to queue it.  Before that read a thread  *)
(* is lost only by an unpark, in the assertion at sched.c:171.             *)
THEOREM SchedNoLostThread == SchedSpec => []NoLostThread
<1>1. SchedInv => KeptFromTheLoad
  BY DEF SchedInv, Kept, KeptBy, KeptFromTheLoad
<1> QED
  BY <1>1, SchedInvariant, SchedOnlyUnparkAsserts, PTL DEF NoLostThread

(* No core executes on an unmapped stack, and no cleanup works on a freed  *)
(* thread.                                                                 *)
THEOREM SchedStacksMapped == SchedSpec => []StacksMapped
<1>1. SchedInv => StacksMapped
  <2> SUFFICES ASSUME SchedInv, NEW c \in Cpus, NEW t \in Threads,
                      t = current[c] \/ (t = last[c] /\ action[c] # "NONE" /\ pc[c] # "halted")
               PROVE  stack[t] \in mapped
    BY DEF StacksMapped
  <2>1. state[t] # "NONE"
    BY DEF SchedInv, Exclusive, Holds, Cleans
  <2>2. Owned(t)
    BY <2>1 DEF SchedInv, CoresOK, CurrentOK, At, Owned
  <2> QED
    BY <2>1, <2>2 DEF SchedInv, RefOK, StackOK
<1> QED
  BY <1>1, SchedInvariant, PTL

(* The reference count of a thread is the scheduler's reference plus the   *)
(* handle's: no thread is freed under the scheduler and none is kept.      *)
THEOREM SchedThreadRefExact == SchedSpec => []ThreadRefExact
<1>1. SchedInv => ThreadRefExact
  BY DEF SchedInv, RefOK, Owned, ThreadRefExact
<1> QED
  BY <1>1, SchedInvariant, PTL
=============================================================================
