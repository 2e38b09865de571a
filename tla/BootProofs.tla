----------------------------- MODULE BootProofs -----------------------------
(***************************************************************************)
(* Proofs for RwLock and Boot, for every number of cores: the word of the  *)
(* rwlock says exactly who holds it, also when the cores that start up use *)
(* it, and every core loads its own TSS through the one descriptor.        *)
(***************************************************************************)
EXTENDS Boot, FiniteSetTheorems, TLAPS

(* The shapes of the lock's variables, and what a reader remembers between *)
(* its load and its compare and swap: a word without a writer.             *)
RwTypeOK ==
  /\ rw \in Nat
  /\ seen \in [Cpus -> Nat]
  /\ mode \in [Cpus -> Modes]
  /\ \A c \in Cpus : mode[c] = "loaded" => seen[c] # WRITER

RwInv == RwTypeOK /\ RwExact

(* The cores in one mode are finitely many. *)
LEMMA HoldersFinite ==
  \A m : IsFiniteSet(Holders(m)) /\ Cardinality(Holders(m)) \in Nat
<1> SUFFICES ASSUME NEW m PROVE IsFiniteSet(Holders(m)) /\ Cardinality(Holders(m)) \in Nat
  OBVIOUS
<1>1. Holders(m) \subseteq Cpus
  BY DEF Holders
<1>2. IsFiniteSet(Holders(m))
  BY <1>1, RwAssumption, FS_Subset
<1> QED
  BY <1>2, FS_CardinalityType

(* One core more in a mode is one more in the count of its holders. *)
LEMMA OneMore ==
  ASSUME NEW c \in Cpus, mode[c] # "shared", Holders("shared")' = Holders("shared") \cup {c}
  PROVE  Cardinality(Holders("shared")') = Cardinality(Holders("shared")) + 1
<1>1. c \notin Holders("shared")
  BY DEF Holders
<1> QED
  BY <1>1, HoldersFinite, FS_AddElement

LEMMA OneLess ==
  ASSUME NEW c \in Cpus, mode[c] = "shared", Holders("shared")' = Holders("shared") \ {c}
  PROVE  Cardinality(Holders("shared")') = Cardinality(Holders("shared")) - 1
<1>1. c \in Holders("shared")
  BY DEF Holders
<1> QED
  BY <1>1, HoldersFinite, FS_RemoveElement

(* A reader that holds the lock is counted. *)
LEMMA CountedReader ==
  ASSUME NEW c \in Cpus, mode[c] = "shared"
  PROVE  Cardinality(Holders("shared")) >= 1
<1>1. Holders("shared") # {}
  BY DEF Holders
<1> QED
  BY <1>1, HoldersFinite, FS_EmptySet

(* Every step on the lock keeps its word exact. *)
LEMMA RwStepKeepsInv ==
  ASSUME RwInv, NEW c \in Cpus, RwStep(c)
  PROVE  RwInv'
<1> USE DEF Enter, Modes, WRITER, READER
<1> DEFINE n == Cardinality(Holders("shared"))
<1>n. n \in Nat
  BY HoldersFinite
<1>t. RwTypeOK
  BY DEF RwInv
<1> HIDE DEF n
<1>1. CASE rwlock_lock_exclusive(c) /\ rw = 0
  <2>1. Holders("exclusive") = {} /\ n = 0
    BY <1>1, <1>n, RwInv DEF RwInv, RwExact, n
  <2>2. Holders("shared") = {}
    BY <2>1, HoldersFinite, FS_EmptySet DEF n
  <2>3. /\ rw' = WRITER /\ mode[c] = "out" /\ seen' = seen
        /\ mode' = [mode EXCEPT ![c] = "exclusive"]
    BY <1>1 DEF rwlock_lock_exclusive
  <2>4. Holders("exclusive")' = {c} /\ Holders("shared")' = {}
    BY <2>1, <2>2, <2>3, <1>t DEF Holders, RwTypeOK
  <2>5. RwTypeOK'
    BY <2>3, <1>t DEF RwTypeOK
  <2> QED
    BY <2>3, <2>4, <2>5 DEF RwInv, RwExact
<1>2. CASE rwlock_lock_exclusive(c) /\ rw # 0
  <2>1. /\ rw' = rw /\ seen' = seen /\ mode[c] = "out"
        /\ mode' = [mode EXCEPT ![c] = "halted"]
    BY <1>2 DEF rwlock_lock_exclusive
  <2>2. Holders("exclusive")' = Holders("exclusive") /\ Holders("shared")' = Holders("shared")
    BY <2>1, <1>t DEF Holders, RwTypeOK
  <2> QED
    BY <2>1, <2>2, <1>t, RwInv DEF RwInv, RwExact, RwTypeOK
<1>3. CASE rwlock_unlock_exclusive(c)
  <2>1. mode[c] = "exclusive" /\ seen' = seen
    BY <1>3 DEF rwlock_unlock_exclusive
  <2>2. c \in Holders("exclusive")
    BY <2>1 DEF Holders
  <2>3. Holders("exclusive") = {c} /\ Holders("shared") = {} /\ rw = WRITER
    BY <2>2, RwInv DEF RwInv, RwExact
  <2>4. rw' = 0 /\ mode' = [mode EXCEPT ![c] = "out"]
    BY <1>3, <2>3 DEF rwlock_unlock_exclusive
  <2>5. Holders("exclusive")' = {} /\ Holders("shared")' = {}
    BY <2>3, <2>4, <1>t DEF Holders, RwTypeOK
  <2>6. Cardinality(Holders("shared")') = 0
    BY <2>5, FS_EmptySet
  <2>7. RwTypeOK'
    BY <2>1, <2>4, <1>t DEF RwTypeOK
  <2> QED
    BY <2>4, <2>5, <2>6, <2>7 DEF RwInv, RwExact
<1>4. CASE SharedLoad(c)
  <2>1. /\ rw' = rw /\ seen' = [seen EXCEPT ![c] = rw] /\ mode[c] = "out"
        /\ \/ rw # WRITER /\ mode' = [mode EXCEPT ![c] = "loaded"]
           \/ rw = WRITER /\ mode' = [mode EXCEPT ![c] = "halted"]
    BY <1>4 DEF SharedLoad
  <2>2. Holders("exclusive")' = Holders("exclusive") /\ Holders("shared")' = Holders("shared")
    BY <2>1, <1>t DEF Holders, RwTypeOK
  <2>3. RwTypeOK'
    BY <2>1, <1>t DEF RwTypeOK
  <2> QED
    BY <2>1, <2>2, <2>3, RwInv DEF RwInv, RwExact
<1>5. CASE SharedCas(c) /\ rw = seen[c]
  <2>1. /\ rw' = rw + READER /\ seen' = [seen EXCEPT ![c] = 0] /\ mode[c] = "loaded"
        /\ mode' = [mode EXCEPT ![c] = "shared"]
    BY <1>5 DEF SharedCas
  <2>2. rw # WRITER
    BY <1>5, <2>1, <1>t DEF RwTypeOK
  <2>3. Holders("exclusive") = {} /\ rw = READER * n
    BY <2>2, RwInv DEF RwInv, RwExact, n
  <2>4. Holders("exclusive")' = {} /\ Holders("shared")' = Holders("shared") \cup {c}
    BY <2>1, <2>3, <1>t DEF Holders, RwTypeOK
  <2>5. Cardinality(Holders("shared")') = n + 1
    BY <2>1, <2>4, OneMore DEF n
  <2>6. rw' = READER * Cardinality(Holders("shared")')
    BY <2>1, <2>3, <2>5, <1>n
  <2>7. RwTypeOK'
    BY <2>1, <1>t DEF RwTypeOK
  <2> QED
    BY <2>4, <2>6, <2>7 DEF RwInv, RwExact
<1>6. CASE SharedCas(c) /\ rw # seen[c]
  <2>1. /\ rw' = rw /\ seen' = [seen EXCEPT ![c] = 0] /\ mode[c] = "loaded"
        /\ mode' = [mode EXCEPT ![c] = "halted"]
    BY <1>6 DEF SharedCas
  <2>2. Holders("exclusive")' = Holders("exclusive") /\ Holders("shared")' = Holders("shared")
    BY <2>1, <1>t DEF Holders, RwTypeOK
  <2> QED
    BY <2>1, <2>2, <1>t, RwInv DEF RwInv, RwExact, RwTypeOK
<1>7. CASE rwlock_unlock_shared(c)
  <2>1. /\ rw' = rw - READER /\ seen' = seen /\ mode[c] = "shared"
        /\ mode' = [mode EXCEPT ![c] = "out"]
    BY <1>7 DEF rwlock_unlock_shared
  <2>2. c \in Holders("shared") /\ n >= 1
    BY <2>1, CountedReader DEF Holders, n
  <2>3. Holders("exclusive") = {} /\ rw = READER * n
    BY <2>2, RwInv DEF RwInv, RwExact, n
  <2>4. Holders("exclusive")' = {} /\ Holders("shared")' = Holders("shared") \ {c}
    BY <2>1, <2>3, <1>t DEF Holders, RwTypeOK
  <2>5. Cardinality(Holders("shared")') = n - 1
    BY <2>1, <2>4, OneLess DEF n
  <2>6. rw' = READER * Cardinality(Holders("shared")') /\ rw' \in Nat
    BY <2>1, <2>2, <2>3, <2>5, <1>n
  <2>7. RwTypeOK'
    BY <2>1, <2>6, <1>t DEF RwTypeOK
  <2> QED
    BY <2>4, <2>6, <2>7 DEF RwInv, RwExact
<1> QED
  BY <1>1, <1>2, <1>3, <1>4, <1>5, <1>6, <1>7, RwStep(c) DEF RwStep

LEMMA RwInitInv == RwInit => RwInv
<1> SUFFICES ASSUME RwInit PROVE RwInv
  OBVIOUS
<1>1. Holders("exclusive") = {} /\ Holders("shared") = {}
  BY DEF RwInit, Holders
<1>2. Cardinality(Holders("shared")) = 0
  BY <1>1, FS_EmptySet
<1>3. RwTypeOK
  BY DEF RwInit, RwTypeOK, Modes
<1> QED
  BY <1>1, <1>2, <1>3 DEF RwInit, RwInv, RwExact, READER

LEMMA RwStutter == RwInv /\ UNCHANGED rwVars => RwInv'
BY DEF RwInv, RwTypeOK, RwExact, Holders, rwVars

(* The rwlock of sync/rwlock.h by itself: in every use by any number of    *)
(* cores, readers and writers exclude each other and the word is exact.    *)
THEOREM RwLockExact == RwSpec => []RwExact
<1>1. RwInit => RwInv
  BY RwInitInv
<1>2. RwInv /\ [RwNext]_rwVars => RwInv'
  BY RwStepKeepsInv, RwStutter DEF RwNext
<1>3. RwInv => RwExact
  BY DEF RwInv
<1> QED
  BY <1>1, <1>2, <1>3, PTL DEF RwSpec

-----------------------------------------------------------------------------
(* Start up *)

Places == {"start_cores", "sched_wait", "done", "off", "call", "tss", "ltr",
           "tss_unlock", "idle", "scheduling", "fault", "halted", "panic"}
InTss == {"tss", "ltr", "tss_unlock"}

(* The spinlock admits one core to the descriptor, which is that core's    *)
(* and not busy between the write and the ltr.                             *)
TssInv ==
  /\ pc \in [Cpus -> Places]
  /\ tr \in [Cpus -> Cpus \cup {None}]
  /\ tss \in [base : Cpus, busy : BOOLEAN]
  /\ \A c \in Cpus : pc[c] \in InTss => tssLock = TRUE
  /\ \A c, d \in Cpus : pc[c] \in InTss /\ pc[d] \in InTss => c = d
  /\ \A c \in Cpus : pc[c] = "ltr" => tss = [base |-> c, busy |-> FALSE]
  /\ OwnTss

BootInv == RwInv /\ TssInv

LEMMA BootInitInv == BootInit => BootInv
<1> SUFFICES ASSUME BootInit PROVE BootInv
  OBVIOUS
<1>1. RwInv
  BY RwInitInv DEF BootInit
<1>2. TssInv
  BY BootAssumption DEF BootInit, TssInv, OwnTss, Places, InTss, None
<1> QED
  BY <1>1, <1>2 DEF BootInv

(* A step of the work for the stacks is a step on the rwlock or leaves it, *)
(* and goes nowhere near the TSS.                                          *)
LEMMA CallStepSteps ==
  ASSUME NEW c \in Aps, CallStep(c)
  PROVE  /\ c \in Cpus /\ (RwStep(c) \/ UNCHANGED rwVars)
         /\ UNCHANGED <<tssLock, tss, tr>>
         /\ \/ pc' = pc
            \/ pc[c] = "call" /\ pc' = [pc EXCEPT ![c] = "halted"]
            \/ pc[c] = "call" /\ pc' = [pc EXCEPT ![c] = "panic"]
<1>1. PICK path : LockStep(c, Head(path)[1], Head(path)[2])
  BY DEF CallStep
<1> DEFINE step == Head(path)[1]
           l == Head(path)[2]
<1> HIDE DEF step, l
<1>2. LockStep(c, step, l)
  BY <1>1 DEF step, l
<1>3. RwStep(c) \/ UNCHANGED rwVars
  BY <1>2 DEF LockStep, mutex_lock, mutex_unlock, RwStep
<1>4. \/ pc' = pc
      \/ pc[c] = "call" /\ pc' = [pc EXCEPT ![c] = "halted"]
      \/ pc[c] = "call" /\ pc' = [pc EXCEPT ![c] = "panic"]
  BY <1>2 DEF LockStep, mutex_lock, mutex_unlock, Step
<1> QED
  BY <1>3, <1>4 DEF CallStep, Aps

LEMMA BootKeepsRwInv == ASSUME BootInv, [BootNext]_bootVars PROVE RwInv'
<1>1. CASE UNCHANGED rwVars
  BY <1>1, RwStutter DEF BootInv
<1>2. ASSUME NEW c \in Aps, CallStep(c) PROVE RwInv'
  BY <1>1, <1>2, CallStepSteps, RwStepKeepsInv DEF BootInv
<1> QED
  BY <1>1, <1>2 DEF BootNext, InitStep, CoreStep, LoopDone, sched_wait, ReleaseCore, TssLock,
     TssWrite, Ltr, TssUnlock, scheduler_idle_thread, lockVars, bootVars

LEMMA BootKeepsTssInv == ASSUME BootInv, [BootNext]_bootVars PROVE TssInv'
<1> USE DEF BootInv, TssInv, OwnTss, Places, InTss, Step
<1>1. CASE UNCHANGED <<tssLock, tss, tr, pc>>
  BY <1>1
<1>2. ASSUME NEW c \in Aps, ReleaseCore(c) PROVE TssInv'
  BY <1>2 DEF ReleaseCore, Aps
<1>3. CASE LoopDone
  BY <1>3, BootAssumption DEF LoopDone
<1>4. CASE sched_wait
  BY <1>4, BootAssumption DEF sched_wait
<1>5. ASSUME NEW c \in Aps, TssLock(c) PROVE TssInv'
  BY <1>5 DEF TssLock, Aps
<1>6. ASSUME NEW c \in Aps, TssWrite(c) PROVE TssInv'
  BY <1>6 DEF TssWrite, Aps
<1>7. ASSUME NEW c \in Aps, Ltr(c) PROVE TssInv'
  <2>1. c \in Cpus /\ pc[c] = "ltr"
    BY <1>7 DEF Ltr, Aps
  <2>2. tss.base = c /\ tss.busy = FALSE
    BY <2>1
  <2>3. /\ pc' = [pc EXCEPT ![c] = "tss_unlock"] /\ tr' = [tr EXCEPT ![c] = c]
        /\ tss' = [base |-> c, busy |-> TRUE] /\ tssLock' = tssLock
    BY <1>7, <2>2 DEF Ltr
  <2> QED
    BY <2>1, <2>3
<1>8. ASSUME NEW c \in Aps, TssUnlock(c) PROVE TssInv'
  BY <1>8 DEF TssUnlock, Aps
<1>9. ASSUME NEW c \in Aps, scheduler_idle_thread(c) PROVE TssInv'
  BY <1>9 DEF scheduler_idle_thread, Aps
<1>10. ASSUME NEW c \in Aps, CallStep(c) PROVE TssInv'
  BY <1>10, CallStepSteps
<1> QED
  BY <1>1, <1>2, <1>3, <1>4, <1>5, <1>6, <1>7, <1>8, <1>9, <1>10
  DEF BootNext, InitStep, CoreStep, bootVars

LEMMA BootInvariant == BootSpec => []BootInv
<1>1. BootInv /\ [BootNext]_bootVars => BootInv'
  BY BootKeepsRwInv, BootKeepsTssInv DEF BootInv
<1> QED
  BY <1>1, BootInitInv, PTL DEF BootSpec

(* m_vmar_lock stays exact while any number of cores start up at once. *)
THEOREM BootRwExact == BootSpec => []RwExact
<1>1. BootInv => RwExact
  BY DEF BootInv, RwInv
<1> QED
  BY <1>1, BootInvariant, PTL

(* Each of any number of cores loads its own TSS through the one           *)
(* descriptor they share, and no ltr faults.                               *)
THEOREM BootOwnTss == BootSpec => []OwnTss
<1>1. BootInv => OwnTss
  BY DEF BootInv, TssInv
<1> QED
  BY <1>1, BootInvariant, PTL
=============================================================================
