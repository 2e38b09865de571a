------------------------------- MODULE RwLock -------------------------------
(***************************************************************************)
(* sync/rwlock.h: the lock word and the steps its users take on it.  Each  *)
(* action is one atomic instruction: the shared lock is a load and a       *)
(* compare and swap with anything in between.                              *)
(*                                                                         *)
(* The slow paths (sync/rwlock.c) are assertions: a core that gets there   *)
(* halts.  Nothing sets the two parked bits, so they are left out of the   *)
(* word.  The count of readers is at most the number of cores, far below   *)
(* the overflow that rwlock_try_lock_shared_fast tests for.                *)
(***************************************************************************)
EXTENDS Integers, FiniteSets

CONSTANT Cpus     \* the cores

ASSUME RwAssumption == IsFiniteSet(Cpus)

WRITER == 4       \* RWLOCK_WRITER_BIT
READER == 8       \* RWLOCK_ONE_READER

VARIABLES
  rw,      \* rwlock_t.state
  seen,    \* per core, the state it loaded in rwlock_try_lock_shared_fast
  mode     \* per core, what it has of the lock

rwVars == <<rw, seen, mode>>

Modes == {"out", "loaded", "shared", "exclusive", "halted"}

RwInit ==
  /\ rw = 0
  /\ seen = [c \in Cpus |-> 0]
  /\ mode = [c \in Cpus |-> "out"]

Enter(c, from, to) == mode[c] = from /\ mode' = [mode EXCEPT ![c] = to]

-----------------------------------------------------------------------------
rwlock_lock_exclusive(c) ==
  /\ \/ rw = 0 /\ rw' = WRITER /\ Enter(c, "out", "exclusive")
     \/ rw # 0 /\ UNCHANGED rw /\ Enter(c, "out", "halted")
  /\ UNCHANGED seen

rwlock_unlock_exclusive(c) ==
  /\ \/ rw = WRITER /\ rw' = 0 /\ Enter(c, "exclusive", "out")
     \/ rw # WRITER /\ UNCHANGED rw /\ Enter(c, "exclusive", "halted")
  /\ UNCHANGED seen

(* rwlock_try_lock_shared_fast: the load and the test for a writer *)
SharedLoad(c) ==
  /\ seen' = [seen EXCEPT ![c] = rw]
  /\ \/ rw # WRITER /\ Enter(c, "out", "loaded")
     \/ rw = WRITER /\ Enter(c, "out", "halted")
  /\ UNCHANGED rw

(* The new state stored without a comparison *)
SharedStore(c) ==
  /\ Enter(c, "loaded", "shared")
  /\ rw' = seen[c] + READER
  /\ seen' = [seen EXCEPT ![c] = 0]

(* rwlock_try_lock_shared_fast: the compare and swap, after which the      *)
(* loaded word is no longer used                                           *)
SharedCas(c) ==
  /\ \/ rw = seen[c] /\ rw' = rw + READER /\ Enter(c, "loaded", "shared")
     \/ rw # seen[c] /\ UNCHANGED rw /\ Enter(c, "loaded", "halted")
  /\ seen' = [seen EXCEPT ![c] = 0]

rwlock_unlock_shared(c) ==
  /\ Enter(c, "shared", "out")
  /\ rw' = rw - READER
  /\ UNCHANGED seen

-----------------------------------------------------------------------------
RwStep(c) ==
  \/ rwlock_lock_exclusive(c) \/ rwlock_unlock_exclusive(c)
  \/ SharedLoad(c) \/ SharedCas(c) \/ rwlock_unlock_shared(c)

RwNext == \E c \in Cpus : RwStep(c)

RwSpec == RwInit /\ [][RwNext]_rwVars

-----------------------------------------------------------------------------
Holders(m) == {c \in Cpus : mode[c] = m}

(* Readers and writers exclude each other, and the word says exactly who   *)
(* holds the lock, whatever happened between the load and the compare and  *)
(* swap of a reader: a writer that came and went, or other readers.        *)
(* So the unlock of a writer never fails its compare and swap.             *)
RwExact ==
  \/ /\ \E w \in Cpus : Holders("exclusive") = {w}
     /\ Holders("shared") = {} /\ rw = WRITER
  \/ Holders("exclusive") = {} /\ rw = READER * Cardinality(Holders("shared"))
=============================================================================
