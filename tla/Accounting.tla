----------------------------- MODULE Accounting -----------------------------
(***************************************************************************)
(* mem/accounting.c: four relaxed atomic counters, shared by every core    *)
(* and protected by no lock.  Each operation of the code is a debit of one *)
(* counter followed by a credit of another, two separate atomic            *)
(* instructions, so cores observe each other half way.  A step of this     *)
(* module is one atomic instruction of one core.                           *)
(*                                                                         *)
(* A call is a frame of the core that makes it: the operation, its         *)
(* argument and the next instruction.  Callers keep their side of the      *)
(* contract in `held`: pages they have reserved, pages they have           *)
(* committed, and physical pages not yet handed to the OS ("outside").     *)
(***************************************************************************)
EXTENDS Integers, FiniteSums

CONSTANTS
  Cpus,         \* the cores
  MaxPages,     \* physical pages that exist
  WordModulus   \* a size_t counts modulo this (2^64 in the code)

ASSUME CpusAssumption == IsFiniteSet(Cpus)
ASSUME PagesAssumption == MaxPages \in Nat
ASSUME WordAssumption == WordModulus \in Nat /\ MaxPages < WordModulus

VARIABLES
  pages,   \* the four counters
  frame,   \* per core, the accounting call it is in
  held     \* what the callers own

acctVars == <<pages, frame, held>>

Word == 0..(WordModulus - 1)
Wrap(x) == IF x < 0 THEN x + WordModulus
           ELSE IF x >= WordModulus THEN x - WordModulus ELSE x

Counters == {"available", "total", "committed", "reserved"}
Owned == {"outside", "reserved", "committed"}

Ops == {"reserve", "unreserve", "add_total", "add_committed", "commit",
        "commit_reserved", "uncommit", "uncommit_to_reserved"}

(* Where each operation takes its pages from, and where it puts them. *)
Source(op) == CASE op \in {"reserve", "commit"}                -> "available"
                [] op \in {"unreserve", "commit_reserved"}     -> "reserved"
                [] op \in {"uncommit", "uncommit_to_reserved"} -> "committed"
                [] OTHER (* add_total, add_committed *)         -> "outside"

Target(op) == CASE op \in {"unreserve", "uncommit", "add_total"}   -> "available"
                [] op \in {"reserve", "uncommit_to_reserved"}      -> "reserved"
                [] OTHER (* commit, commit_reserved, add_committed *) -> "committed"

(* Mutant: fresh memory is made available without being counted. *)
FirstStepNoTotal(op) == CASE Source(op) = "available" -> "load"
                          [] Source(op) = "outside"   -> "credit"
                          [] OTHER                    -> "debit"

(* The first instruction of an operation. *)
FirstStep(op) == CASE Source(op) = "available" -> "load"
                   [] Source(op) = "outside"   -> "grow"
                   [] OTHER                    -> "debit"

Returned(ok) == [pc |-> "idle", op |-> "none", n |-> 0, seen |-> 0, ok |-> ok]

Frames == [pc : {"idle", "load", "cas", "debit", "grow", "credit", "panic"},
           op : Ops \cup {"none"}, n : Word, seen : Word, ok : BOOLEAN]

AcctInit == /\ pages = [k \in Counters |-> 0]
            /\ frame = [c \in Cpus |-> Returned(TRUE)]
            /\ held = [k \in Owned |-> IF k = "outside" THEN MaxPages ELSE 0]

-----------------------------------------------------------------------------
(* Calls.  The argument leaves the caller's hands when the call starts. *)
Call(c, op, n) ==
  /\ frame[c].pc = "idle"
  /\ frame' = [frame EXCEPT ![c] =
                 [pc |-> FirstStep(op), op |-> op, n |-> n, seen |-> 0, ok |-> TRUE]]
  /\ held' = [k \in Owned |-> IF k = Source(op) THEN held[k] - n ELSE held[k]]
  /\ UNCHANGED pages

(* The result of the operation reaches the caller. *)
Credited(op, n) ==
  [k \in Owned |-> IF k = Target(op) THEN held[k] + n ELSE held[k]]

-----------------------------------------------------------------------------
(* The instructions. *)

(* Mutant: no check that there are enough pages. *)
ExamineNothing(c, available) ==
  frame' = [frame EXCEPT ![c] = [@ EXCEPT !.pc = "cas", !.seen = available]]

(* mem_acct_take_available, given the value the core has just read: not    *)
(* enough pages and the caller sees a failure, otherwise try the exchange. *)
Examine(c, available) ==
  frame' = [frame EXCEPT ![c] =
              IF available < @.n THEN Returned(FALSE)
              ELSE [@ EXCEPT !.pc = "cas", !.seen = available]]

LoadAvailable(c) ==
  /\ frame[c].pc = "load"
  /\ Examine(c, pages["available"])
  /\ UNCHANGED <<pages, held>>

(* Mutant: a plain store in place of the exchange. *)
StoreAvailable(c) ==
  /\ frame[c].pc = "cas"
  /\ pages' = [pages EXCEPT !["available"] = frame[c].seen - frame[c].n]
  /\ frame' = [frame EXCEPT ![c].pc = "credit", ![c].seen = 0]
  /\ UNCHANGED held

CasAvailable(c) ==
  /\ frame[c].pc = "cas"
  /\ \/ /\ pages["available"] = frame[c].seen
        /\ pages' = [pages EXCEPT !["available"] = frame[c].seen - frame[c].n]
        /\ frame' = [frame EXCEPT ![c].pc = "credit", ![c].seen = 0]
     \/ /\ pages["available"] # frame[c].seen
        /\ Examine(c, pages["available"])
        /\ UNCHANGED pages
  /\ UNCHANGED held

(* checked_atomic_sub: the subtraction comes first, the assertion after. *)
Debit(c) ==
  /\ frame[c].pc = "debit"
  /\ LET k == Source(frame[c].op)
     IN  /\ pages' = [pages EXCEPT ![k] = Wrap(@ - frame[c].n)]
         /\ frame' = [frame EXCEPT ![c].pc =
                        IF pages[k] >= frame[c].n THEN "credit" ELSE "panic"]
  /\ UNCHANGED held

(* The first half of mem_acct_add_total and mem_acct_add_committed. *)
Grow(c) ==
  /\ frame[c].pc = "grow"
  /\ pages' = [pages EXCEPT !["total"] = Wrap(@ + frame[c].n)]
  /\ frame' = [frame EXCEPT ![c].pc = "credit"]
  /\ UNCHANGED held

(* Mutant: the pages reach the caller but not the counter. *)
CreditLost(c) ==
  /\ frame[c].pc = "credit"
  /\ frame' = [frame EXCEPT ![c] = Returned(TRUE)]
  /\ held' = Credited(frame[c].op, frame[c].n)
  /\ UNCHANGED pages

(* The second half of every operation, and its return. *)
Credit(c) ==
  /\ frame[c].pc = "credit"
  /\ pages' = [pages EXCEPT ![Target(frame[c].op)] = Wrap(@ + frame[c].n)]
  /\ frame' = [frame EXCEPT ![c] = Returned(TRUE)]
  /\ held' = Credited(frame[c].op, frame[c].n)

AcctStep(c) ==
  LoadAvailable(c) \/ CasAvailable(c) \/ Debit(c) \/ Grow(c) \/ Credit(c)

-----------------------------------------------------------------------------
(* The operations, called by a caller that gives back only what it holds. *)
Reserve(c, n)            == Call(c, "reserve", n)
Commit(c, n)             == Call(c, "commit", n)
Unreserve(c, n)          == n <= held["reserved"]  /\ Call(c, "unreserve", n)
CommitReserved(c, n)     == n <= held["reserved"]  /\ Call(c, "commit_reserved", n)
Uncommit(c, n)           == n <= held["committed"] /\ Call(c, "uncommit", n)
UncommitToReserved(c, n) ==
  n <= held["committed"] /\ Call(c, "uncommit_to_reserved", n)
AddTotal(c, n)           == n <= held["outside"]   /\ Call(c, "add_total", n)
AddCommitted(c, n)       == n <= held["outside"]   /\ Call(c, "add_committed", n)

AcctNext ==
  \E c \in Cpus :
    \/ AcctStep(c)
    \/ \E n \in Word :
         \/ Reserve(c, n) \/ Unreserve(c, n)
         \/ Commit(c, n) \/ CommitReserved(c, n)
         \/ Uncommit(c, n) \/ UncommitToReserved(c, n)
         \/ AddTotal(c, n) \/ AddCommitted(c, n)

AcctSpec == AcctInit /\ [][AcctNext]_acctVars

-----------------------------------------------------------------------------
(* Pages between two instructions, per core and summed over the cores. *)
DebitOf(k)  == [c \in Cpus |-> IF frame[c].pc = "debit" /\ Source(frame[c].op) = k
                               THEN frame[c].n ELSE 0]
CreditOf(k) == [c \in Cpus |-> IF frame[c].pc = "credit" /\ Target(frame[c].op) = k
                               THEN frame[c].n ELSE 0]
GrowthOf    == [c \in Cpus |-> IF frame[c].pc = "grow" THEN frame[c].n ELSE 0]

Debiting(k)  == SumOver(DebitOf(k))
Crediting(k) == SumOver(CreditOf(k))
Growing      == SumOver(GrowthOf)

(* Type invariant: the counters stay machine words that count real pages.  *)
AcctTypeOK ==
  /\ pages \in [Counters -> 0..MaxPages]
  /\ frame \in [Cpus -> Frames]
  /\ held \in [Owned -> 0..MaxPages]

(* The assertion of checked_atomic_sub (accounting.c:47) never fails: no   *)
(* interleaving of half-done operations makes a counter go below zero.     *)
NoUnderflow == \A c \in Cpus : frame[c].pc # "panic"

(* accounting.c:9-10: available never below zero is "what keeps committed  *)
(* + reserved <= total", also while cores are between debit and credit.    *)
CommittedWithinTotal ==
  pages["committed"] + pages["reserved"] <= pages["total"]

(* Every page is counted once: in a counter or on its way to one. *)
Conservation ==
  pages["available"] + pages["reserved"] + pages["committed"]
    + Crediting("available") + Crediting("reserved") + Crediting("committed")
  = pages["total"]

(* A counter holds what callers hold plus what they are giving back. *)
Backed ==
  /\ \A k \in {"reserved", "committed"} : pages[k] = held[k] + Debiting(k)
  /\ pages["total"] + held["outside"] + Growing = MaxPages

(* Nothing is lost or made up, however many operations are half done:      *)
(* every page is in one counter or on its way to one, and each counter     *)
(* covers what the callers of mem_acct_* hold.                             *)
EveryPageCounted == Conservation /\ Backed

(* Abstractly a transfer takes effect at its first instruction: pages on   *)
(* their way to an account are already in it.                              *)
L == INSTANCE Ledger WITH
       account <- [k \in {"available", "reserved", "committed"} |->
                     pages[k] + Crediting(k)],
       total <- pages["total"]

(* The interleaved counters implement the atomic ledger: no overdraft, no  *)
(* page lost or created, whatever the cores do half way (accounting.c).    *)
ImplementsLedger == L!LedgerSpec
=============================================================================
