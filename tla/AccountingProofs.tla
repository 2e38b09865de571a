-------------------------- MODULE AccountingProofs --------------------------
(***************************************************************************)
(* The page accounting is right for any number of cores, any amount of     *)
(* memory and any interleaving of its atomic instructions.                 *)
(***************************************************************************)
EXTENDS Accounting, FiniteSetTheorems, TLAPS

(* What SumOver satisfies, for functions on any finite set with values     *)
(* below a common bound.  The proofs go through the set of tokens.         *)

(* The tokens of one element of the domain number f[x]. *)
LEMMA RowCardinality ==
  ASSUME NEW x, NEW n \in Nat
  PROVE  /\ IsFiniteSet({x} \X (1..n))
         /\ Cardinality({x} \X (1..n)) = n
<1>1. IsFiniteSet(1..n) /\ Cardinality(1..n) = n
  BY FS_Interval
<1>2. IsFiniteSet({x}) /\ Cardinality({x}) = 1
  BY FS_Singleton
<1>3. /\ IsFiniteSet({x} \X (1..n))
      /\ Cardinality({x} \X (1..n)) = 1 * n
  BY <1>1, <1>2, FS_Product
<1>. QED  BY <1>3

(* A sum over a finite set is a natural number. *)
LEMMA SumType ==
  ASSUME NEW S, IsFiniteSet(S), NEW b \in Nat, NEW f \in [S -> 0..b]
  PROVE  IsFiniteSet(Tokens(f)) /\ SumOver(f) \in Nat
<1>0. IsFiniteSet(1..b)
  BY FS_Interval
<1>1. IsFiniteSet(S \X (1..b))
  BY <1>0, FS_Product
<1>2. Tokens(f) \in SUBSET (S \X (1..b))
  BY DEF Tokens
<1>3. IsFiniteSet(Tokens(f))
  BY <1>1, <1>2, FS_Subset
<1>. QED  BY <1>3, FS_CardinalityType DEF SumOver

(* One term split off from the others. *)
LEMMA SumSplit ==
  ASSUME NEW S, IsFiniteSet(S), NEW b \in Nat, NEW f \in [S -> 0..b], NEW x \in S
  PROVE  LET rest == {t \in Tokens(f) : t[1] # x}
         IN  /\ IsFiniteSet(rest)
             /\ SumOver(f) = Cardinality(rest) + f[x]
<1>. DEFINE rest == {t \in Tokens(f) : t[1] # x}
            row == {x} \X (1..f[x])
<1>1. IsFiniteSet(row) /\ Cardinality(row) = f[x]
  <2>1. f[x] \in Nat
    OBVIOUS
  <2>. QED  BY <2>1, RowCardinality
<1>2. IsFiniteSet(rest) /\ Cardinality(rest) \in Nat
  <2>1. rest \in SUBSET Tokens(f)
    OBVIOUS
  <2>. QED  BY <2>1, SumType, FS_Subset, FS_CardinalityType
<1>3. Tokens(f) = rest \cup row
  BY DEF Tokens
<1>4. rest \cap row = {}
  OBVIOUS
<1>5. Cardinality(rest \cap row) = 0
  BY <1>4, FS_EmptySet
<1>6. Cardinality(Tokens(f)) = Cardinality(rest) + f[x]
  <2>. HIDE DEF rest, row
  <2>1. Cardinality(rest \cup row)
          = Cardinality(rest) + Cardinality(row) - Cardinality(rest \cap row)
    BY <1>1, <1>2, FS_Union
  <2>2. f[x] \in Nat
    OBVIOUS
  <2>. QED  BY <1>1, <1>2, <1>3, <1>5, <2>1, <2>2
<1>. QED  BY <1>2, <1>6 DEF SumOver

(* Changing one term changes the sum by the difference. *)
LEMMA SumUpdate ==
  ASSUME NEW S, IsFiniteSet(S), NEW b \in Nat,
         NEW f \in [S -> 0..b], NEW g \in [S -> 0..b],
         NEW x \in S, \A y \in S \ {x} : g[y] = f[y]
  PROVE  SumOver(g) = SumOver(f) - f[x] + g[x]
<1>. DEFINE restf == {t \in Tokens(f) : t[1] # x}
            restg == {t \in Tokens(g) : t[1] # x}
<1>1. restf = restg
  BY DEF Tokens
<1>2. IsFiniteSet(restf) /\ SumOver(f) = Cardinality(restf) + f[x]
  BY SumSplit
<1>3. SumOver(g) = Cardinality(restg) + g[x]
  BY SumSplit
<1>4. Cardinality(restf) \in Nat
  BY <1>2, FS_CardinalityType
<1>. QED
  <2>. HIDE DEF restf, restg
  <2>. QED  BY <1>1, <1>2, <1>3, <1>4

(* No term is larger than the sum. *)
LEMMA SumAtLeastTerm ==
  ASSUME NEW S, IsFiniteSet(S), NEW b \in Nat, NEW f \in [S -> 0..b], NEW x \in S
  PROVE  f[x] <= SumOver(f)
<1>. DEFINE rest == {t \in Tokens(f) : t[1] # x}
<1>1. IsFiniteSet(rest) /\ SumOver(f) = Cardinality(rest) + f[x]
  BY SumSplit
<1>2. Cardinality(rest) \in Nat
  BY <1>1, FS_CardinalityType
<1>. QED
  <2>. HIDE DEF rest
  <2>. QED  BY <1>1, <1>2

(* A sum of zeros is zero. *)
LEMMA SumOfZeros ==
  ASSUME NEW S, NEW f, f = [x \in S |-> 0]
  PROVE  SumOver(f) = 0
<1>1. Tokens(f) = {}
  BY DEF Tokens
<1>. QED  BY <1>1, FS_EmptySet DEF SumOver

-----------------------------------------------------------------------------
(* The accounting *)

(* A frame is where its operation can be. *)
FrameOK(f) ==
  /\ f.pc \in {"load", "cas"} => f.op \in {"reserve", "commit"}
  /\ f.pc = "cas" => f.n <= f.seen
  /\ f.pc = "debit" => f.op \in {"unreserve", "commit_reserved", "uncommit",
                                 "uncommit_to_reserved"}
  /\ f.pc = "grow" => f.op \in {"add_total", "add_committed"}
  /\ f.pc = "credit" => f.op \in Ops

Types ==
  /\ pages \in [Counters -> Nat]
  /\ frame \in [Cpus -> Frames]
  /\ held \in [Owned -> Nat]

(* The inductive invariant: the counters alone say nothing of the cores    *)
(* half way, Conservation and Backed account for them.                     *)
AcctInv == /\ Types
           /\ \A c \in Cpus : FrameOK(frame[c])
           /\ NoUnderflow
           /\ Conservation
           /\ Backed

(* An account of the ledger: the counter and what is on its way to it. *)
Bar(k) == pages[k] + Crediting(k)

Accts == {"available", "reserved", "committed"}

(* The three effects a step can have on the ledger. *)
SameLedger == /\ \A k \in Accts : Bar(k)' = Bar(k)
              /\ pages'["total"] = pages["total"]
Transferred(from, to, n) ==
  /\ from \in Accts /\ to \in Accts \ {from} /\ n \in 0..MaxPages /\ n <= Bar(from)
  /\ \A k \in Accts : Bar(k)' = IF k = from THEN Bar(k) - n
                                ELSE IF k = to THEN Bar(k) + n ELSE Bar(k)
  /\ pages'["total"] = pages["total"]
Deposited(to, n) ==
  /\ to \in {"available", "committed"} /\ n \in 0..MaxPages
  /\ pages["total"] + n <= MaxPages
  /\ \A k \in Accts : Bar(k)' = IF k = to THEN Bar(k) + n ELSE Bar(k)
  /\ pages'["total"] = pages["total"] + n

LedgerStep == \/ SameLedger
              \/ \E from, to, n : Transferred(from, to, n)
              \/ \E to, n : Deposited(to, n)

(* The sums over the cores are naturals, bounded below by each core's term. *)
LEMMA SumsType ==
  ASSUME frame \in [Cpus -> Frames]
  PROVE  /\ \A k : /\ DebitOf(k) \in [Cpus -> Word] /\ CreditOf(k) \in [Cpus -> Word]
                   /\ Debiting(k) \in Nat /\ Crediting(k) \in Nat
         /\ GrowthOf \in [Cpus -> Word] /\ Growing \in Nat
         /\ \A c \in Cpus : /\ \A k : /\ DebitOf(k)[c] <= Debiting(k)
                                      /\ CreditOf(k)[c] <= Crediting(k)
                            /\ GrowthOf[c] <= Growing
<1>. DEFINE b == WordModulus - 1
<1>1. b \in Nat /\ Word = 0..b
  BY WordAssumption, PagesAssumption DEF Word
<1>2. /\ \A k : DebitOf(k) \in [Cpus -> Word] /\ CreditOf(k) \in [Cpus -> Word]
      /\ GrowthOf \in [Cpus -> Word]
  BY <1>1 DEF DebitOf, CreditOf, GrowthOf, Frames
<1>. HIDE DEF b
<1>3. ASSUME NEW f \in [Cpus -> Word]
      PROVE  /\ SumOver(f) \in Nat
             /\ \A c \in Cpus : f[c] <= SumOver(f)
  BY <1>1, CpusAssumption, SumType, SumAtLeastTerm
<1>. QED  BY <1>2, <1>3 DEF Debiting, Crediting, Growing

(* A step of one core changes only that core's term of each sum. *)
LEMMA SumsStep ==
  ASSUME frame \in [Cpus -> Frames], frame' \in [Cpus -> Frames],
         NEW c \in Cpus, \A d \in Cpus \ {c} : frame'[d] = frame[d]
  PROVE  /\ \A k : /\ Debiting(k)' = Debiting(k) - DebitOf(k)[c] + DebitOf(k)'[c]
                   /\ Crediting(k)' = Crediting(k) - CreditOf(k)[c] + CreditOf(k)'[c]
         /\ Growing' = Growing - GrowthOf[c] + GrowthOf'[c]
<1>. DEFINE b == WordModulus - 1
<1>1. b \in Nat /\ Word = 0..b
  BY WordAssumption, PagesAssumption DEF Word
<1>2. /\ \A k : DebitOf(k) \in [Cpus -> Word] /\ CreditOf(k) \in [Cpus -> Word]
      /\ GrowthOf \in [Cpus -> Word]
  BY <1>1 DEF DebitOf, CreditOf, GrowthOf, Frames
<1>3. /\ \A k : DebitOf(k)' \in [Cpus -> Word] /\ CreditOf(k)' \in [Cpus -> Word]
      /\ GrowthOf' \in [Cpus -> Word]
  BY <1>1 DEF DebitOf, CreditOf, GrowthOf, Frames
<1>4. \A d \in Cpus \ {c} :
        /\ \A k : DebitOf(k)'[d] = DebitOf(k)[d] /\ CreditOf(k)'[d] = CreditOf(k)[d]
        /\ GrowthOf'[d] = GrowthOf[d]
  BY DEF DebitOf, CreditOf, GrowthOf
<1>. HIDE DEF b
<1>5. ASSUME NEW f \in [Cpus -> Word], NEW g \in [Cpus -> Word],
             \A d \in Cpus \ {c} : g[d] = f[d]
      PROVE  SumOver(g) = SumOver(f) - f[c] + g[c]
  <2>1. f \in [Cpus -> 0..b] /\ g \in [Cpus -> 0..b]
    BY <1>1
  <2>. HIDE <1>1
  <2>2. b \in Nat
    BY <1>1
  <2>. QED  BY <1>5, <2>1, <2>2, CpusAssumption, SumUpdate
<1>. QED  BY <1>2, <1>3, <1>4, <1>5 DEF Debiting, Crediting, Growing

(* What the sums are, term by term, for a core c before and after a step. *)
LEMMA Terms ==
  ASSUME frame \in [Cpus -> Frames], NEW c \in Cpus
  PROVE  /\ \A k : /\ DebitOf(k)[c] = IF frame[c].pc = "debit" /\ Source(frame[c].op) = k
                                     THEN frame[c].n ELSE 0
                   /\ CreditOf(k)[c] = IF frame[c].pc = "credit" /\ Target(frame[c].op) = k
                                      THEN frame[c].n ELSE 0
         /\ GrowthOf[c] = IF frame[c].pc = "grow" THEN frame[c].n ELSE 0
BY DEF DebitOf, CreditOf, GrowthOf

(* The counters never exceed the memory of the machine. *)
LEMMA Bounds ==
  ASSUME AcctInv
  PROVE  /\ AcctTypeOK
         /\ CommittedWithinTotal
         /\ \A c \in Cpus :
              /\ frame[c].pc = "debit" =>
                   /\ pages[Source(frame[c].op)] >= frame[c].n
                   /\ Source(frame[c].op) \in {"reserved", "committed"}
              /\ frame[c].pc = "grow" => pages["total"] + frame[c].n <= MaxPages
              /\ frame[c].pc = "credit" =>
                   /\ pages[Target(frame[c].op)] + frame[c].n <= MaxPages
                   /\ Target(frame[c].op) \in {"available", "reserved", "committed"}
<1>. USE DEF AcctInv, Types
<1>1. /\ pages["available"] \in Nat /\ pages["reserved"] \in Nat
      /\ pages["committed"] \in Nat /\ pages["total"] \in Nat
      /\ held["outside"] \in Nat /\ held["reserved"] \in Nat /\ held["committed"] \in Nat
  BY DEF Counters, Owned
<1>2. /\ Debiting("reserved") \in Nat /\ Debiting("committed") \in Nat
      /\ Crediting("available") \in Nat /\ Crediting("reserved") \in Nat
      /\ Crediting("committed") \in Nat /\ Growing \in Nat
  BY SumsType
<1>3. /\ pages["total"] <= MaxPages /\ pages["available"] <= MaxPages
      /\ pages["reserved"] <= MaxPages /\ pages["committed"] <= MaxPages
      /\ held["outside"] <= MaxPages /\ held["reserved"] <= MaxPages
      /\ held["committed"] <= MaxPages
      /\ pages["committed"] + pages["reserved"] <= pages["total"]
  BY <1>1, <1>2, PagesAssumption DEF Conservation, Backed
<1>4. AcctTypeOK
  BY <1>1, <1>3, PagesAssumption DEF AcctTypeOK, Counters, Owned
<1>5. ASSUME NEW c \in Cpus, frame[c].pc = "debit"
      PROVE  /\ pages[Source(frame[c].op)] >= frame[c].n
             /\ Source(frame[c].op) \in {"reserved", "committed"}
  <2>1. Source(frame[c].op) \in {"reserved", "committed"}
    BY <1>5 DEF FrameOK, Source
  <2>2. frame[c].n = DebitOf(Source(frame[c].op))[c]
    BY <1>5, Terms
  <2>3. frame[c].n <= Debiting(Source(frame[c].op))
    BY <2>2, SumsType
  <2>4. frame[c].n \in Int
    BY DEF Frames, Word
  <2>. QED  BY <2>1, <2>3, <2>4, <1>1, <1>2 DEF Backed
<1>6. ASSUME NEW c \in Cpus, frame[c].pc = "grow"
      PROVE  pages["total"] + frame[c].n <= MaxPages
  <2>1. frame[c].n <= Growing
    BY <1>6, Terms, SumsType
  <2>2. frame[c].n \in Int
    BY DEF Frames, Word
  <2>. QED  BY <2>1, <2>2, <1>1, <1>2, PagesAssumption DEF Backed
<1>7. ASSUME NEW c \in Cpus, frame[c].pc = "credit"
      PROVE  /\ pages[Target(frame[c].op)] + frame[c].n <= MaxPages
             /\ Target(frame[c].op) \in {"available", "reserved", "committed"}
  <2>1. Target(frame[c].op) \in {"available", "reserved", "committed"}
    BY <1>7 DEF FrameOK, Target, Ops
  <2>2. frame[c].n = CreditOf(Target(frame[c].op))[c]
    BY <1>7, Terms
  <2>3. frame[c].n <= Crediting(Target(frame[c].op))
    BY <2>2, SumsType
  <2>4. frame[c].n \in Int
    BY DEF Frames, Word
  <2>. QED  BY <2>1, <2>3, <2>4, <1>1, <1>2, <1>3, PagesAssumption DEF Conservation
<1>. QED  BY <1>3, <1>4, <1>5, <1>6, <1>7 DEF CommittedWithinTotal

LEMMA AcctInvInit == AcctInit => AcctInv
<1>. SUFFICES ASSUME AcctInit PROVE AcctInv
  OBVIOUS
<1>1. 0 \in Word
  BY WordAssumption, PagesAssumption DEF Word
<1>2. Types
  BY <1>1, PagesAssumption
  DEF AcctInit, Types, Frames, Returned, Counters, Owned
<1>3. \A c \in Cpus : frame[c].pc = "idle"
  BY DEF AcctInit, Returned
<1>4. /\ \A k : DebitOf(k) = [c \in Cpus |-> 0] /\ CreditOf(k) = [c \in Cpus |-> 0]
      /\ GrowthOf = [c \in Cpus |-> 0]
  BY <1>3 DEF DebitOf, CreditOf, GrowthOf
<1>5. (\A k : Debiting(k) = 0 /\ Crediting(k) = 0) /\ Growing = 0
  BY <1>4, SumOfZeros DEF Debiting, Crediting, Growing
<1>6. Conservation /\ Backed
  BY <1>5, PagesAssumption DEF AcctInit, Conservation, Backed, Counters, Owned
<1>. QED  BY <1>2, <1>3, <1>6 DEF AcctInv, FrameOK, NoUnderflow

(* A call by a caller that holds what it gives back. *)
LEMMA CallPreserves ==
  ASSUME AcctInv, NEW c \in Cpus, NEW op \in Ops, NEW n \in Word,
         Source(op) \in Owned => n <= held[Source(op)],
         Call(c, op, n)
  PROVE  AcctInv' /\ LedgerStep
<1>. USE DEF AcctInv
<1>0. Word \subseteq Nat /\ 0 \in Word
  BY WordAssumption, PagesAssumption DEF Word
<1>1. /\ frame[c].pc = "idle"
      /\ frame'[c] = [pc |-> FirstStep(op), op |-> op, n |-> n, seen |-> 0, ok |-> TRUE]
      /\ \A d \in Cpus \ {c} : frame'[d] = frame[d]
      /\ frame' \in [Cpus -> Frames]
  BY <1>0 DEF Call, Types, Frames, FirstStep
<1>2. Types'
  BY <1>0, <1>1 DEF Call, Types, Owned
<1>3. \A d \in Cpus : FrameOK(frame'[d]) /\ frame'[d].pc # "panic"
  BY <1>1 DEF FrameOK, FirstStep, Source, Ops, NoUnderflow
<1>4. /\ \A k : Crediting(k)' = Crediting(k)
      /\ \A k : Debiting(k)' =
             Debiting(k) + (IF FirstStep(op) = "debit" /\ Source(op) = k THEN n ELSE 0)
      /\ Growing' = Growing + (IF FirstStep(op) = "grow" THEN n ELSE 0)
  <2>1. /\ \A k : /\ DebitOf(k)[c] = 0 /\ CreditOf(k)[c] = 0
                  /\ CreditOf(k)'[c] = 0
                  /\ DebitOf(k)'[c] =
                       IF FirstStep(op) = "debit" /\ Source(op) = k THEN n ELSE 0
        /\ GrowthOf[c] = 0
        /\ GrowthOf'[c] = IF FirstStep(op) = "grow" THEN n ELSE 0
    BY <1>1 DEF DebitOf, CreditOf, GrowthOf, FirstStep, Types
  <2>2. /\ \A k : /\ Debiting(k)' = Debiting(k) - DebitOf(k)[c] + DebitOf(k)'[c]
                  /\ Crediting(k)' = Crediting(k) - CreditOf(k)[c] + CreditOf(k)'[c]
        /\ Growing' = Growing - GrowthOf[c] + GrowthOf'[c]
    BY <1>1, SumsStep DEF Types
  <2>3. (\A k : Debiting(k) \in Nat /\ Crediting(k) \in Nat) /\ Growing \in Nat
    BY SumsType DEF Types
  <2>. QED  BY <2>1, <2>2, <2>3, <1>0
<1>5. /\ pages' = pages
      /\ held' = [k \in Owned |-> IF k = Source(op) THEN held[k] - n ELSE held[k]]
  BY DEF Call
<1>6. Conservation'
  BY <1>4, <1>5 DEF Conservation
<1>7. Backed'
  <2>1. (\A k : Debiting(k) \in Nat) /\ Growing \in Nat
    BY SumsType DEF Types
  <2>2. /\ held["outside"] \in Nat /\ held["reserved"] \in Nat
        /\ held["committed"] \in Nat /\ n \in Nat
        /\ pages["total"] \in Nat
    BY <1>0 DEF Types, Owned, Counters
  <2>3. /\ FirstStep(op) = "grow" <=> Source(op) = "outside"
        /\ Source(op) \in {"reserved", "committed"} => FirstStep(op) = "debit"
        /\ Source(op) = "outside" => FirstStep(op) # "debit"
    BY DEF FirstStep, Source, Ops
  <2>4. \A k \in {"reserved", "committed"} : pages'[k] = held'[k] + Debiting(k)'
    BY <1>4, <1>5, <2>1, <2>2, <2>3 DEF Backed, Owned
  <2>5. pages'["total"] + held'["outside"] + Growing' = MaxPages
    BY <1>4, <1>5, <2>1, <2>2, <2>3 DEF Backed, Owned
  <2>. QED  BY <2>4, <2>5 DEF Backed
<1>8. SameLedger
  BY <1>4, <1>5 DEF SameLedger, Bar
<1>. QED  BY <1>2, <1>3, <1>6, <1>7, <1>8 DEF NoUnderflow, LedgerStep

(* mem_acct_take_available: a failed take changes no counter, a successful *)
(* exchange puts exactly the pages it removed in flight.                   *)
LEMMA TakePreserves ==
  ASSUME AcctInv, NEW c \in Cpus, LoadAvailable(c) \/ CasAvailable(c)
  PROVE  AcctInv' /\ LedgerStep
<1>. USE DEF AcctInv
<1>. DEFINE f == frame[c]
<1>0. /\ Word \subseteq Nat /\ 0 \in Word /\ 0..MaxPages \subseteq Word
      /\ pages["available"] \in 0..MaxPages
      /\ f.n \in Nat /\ f \in Frames
  BY WordAssumption, PagesAssumption, Bounds DEF Word, AcctTypeOK, Counters, Types, Frames
<1>1. CASE \/ LoadAvailable(c)
           \/ CasAvailable(c) /\ pages["available"] # f.seen
  <2>1. /\ f.pc \in {"load", "cas"} /\ Examine(c, pages["available"])
        /\ UNCHANGED <<pages, held>>
    BY <1>1 DEF LoadAvailable, CasAvailable
  <2>2. /\ \A d \in Cpus \ {c} : frame'[d] = frame[d]
        /\ frame'[c] = IF pages["available"] < f.n THEN Returned(FALSE)
                       ELSE [f EXCEPT !.pc = "cas", !.seen = pages["available"]]
        /\ frame' \in [Cpus -> Frames]
    BY <2>1, <1>0 DEF Examine, Types, Frames, Returned
  <2>3. \/ frame'[c].pc = "idle"
        \/ /\ frame'[c].pc = "cas" /\ frame'[c].op = f.op
           /\ frame'[c].n <= frame'[c].seen
    <3>1. CASE pages["available"] < f.n
      BY <2>2, <3>1 DEF Returned
    <3>2. CASE ~(pages["available"] < f.n)
      BY <2>2, <3>2, <1>0 DEF Frames
    <3>. QED  BY <3>1, <3>2
  <2>4. /\ Types' /\ (\A d \in Cpus : FrameOK(frame'[d]) /\ frame'[d].pc # "panic")
        /\ \A k : DebitOf(k)[c] = 0 /\ CreditOf(k)[c] = 0
        /\ \A k : DebitOf(k)'[c] = 0 /\ CreditOf(k)'[c] = 0
        /\ GrowthOf[c] = 0 /\ GrowthOf'[c] = 0
    <3>1. Types'
      BY <2>1, <2>2 DEF Types
    <3>2. ASSUME NEW d \in Cpus PROVE FrameOK(frame'[d]) /\ frame'[d].pc # "panic"
      BY <2>1, <2>2, <2>3 DEF FrameOK, NoUnderflow
    <3>3. /\ \A k : DebitOf(k)[c] = 0 /\ CreditOf(k)[c] = 0
          /\ GrowthOf[c] = 0
      BY <2>1 DEF DebitOf, CreditOf, GrowthOf
    <3>4. /\ \A k : DebitOf(k)'[c] = 0 /\ CreditOf(k)'[c] = 0
          /\ GrowthOf'[c] = 0
      BY <2>3 DEF DebitOf, CreditOf, GrowthOf
    <3>. QED  BY <3>1, <3>2, <3>3, <3>4
  <2>5. /\ \A k : Debiting(k)' = Debiting(k) /\ Crediting(k)' = Crediting(k)
        /\ Growing' = Growing
    BY <2>2, <2>4, SumsStep, SumsType DEF Types
  <2>6. SameLedger
    BY <2>1, <2>5 DEF SameLedger, Bar
  <2>. QED  BY <2>1, <2>4, <2>5, <2>6 DEF Conservation, Backed, NoUnderflow, LedgerStep
<1>2. CASE CasAvailable(c) /\ pages["available"] = f.seen
  <2>1. /\ f.pc = "cas" /\ UNCHANGED held
        /\ pages' = [pages EXCEPT !["available"] = f.seen - f.n]
        /\ frame' = [frame EXCEPT ![c].pc = "credit", ![c].seen = 0]
    BY <1>2 DEF CasAvailable
  <2>2. /\ f.op \in {"reserve", "commit"} /\ f.n <= pages["available"]
        /\ Target(f.op) \in {"reserved", "committed"}
    BY <1>2, <2>1 DEF FrameOK, Target
  <2>3. /\ \A d \in Cpus \ {c} : frame'[d] = frame[d]
        /\ frame'[c] = [f EXCEPT !.pc = "credit", !.seen = 0]
        /\ frame' \in [Cpus -> Frames]
    BY <2>1, <1>0 DEF Types, Frames
  <2>4. Types' /\ (\A d \in Cpus : FrameOK(frame'[d]) /\ frame'[d].pc # "panic")
    BY <1>0, <1>2, <2>1, <2>2, <2>3 DEF Types, FrameOK, NoUnderflow, Frames, Ops, Counters
  <2>5. /\ \A k : DebitOf(k)[c] = 0 /\ CreditOf(k)[c] = 0
        /\ \A k : /\ DebitOf(k)'[c] = 0
                  /\ CreditOf(k)'[c] = IF Target(f.op) = k THEN f.n ELSE 0
        /\ GrowthOf[c] = 0 /\ GrowthOf'[c] = 0
    BY <2>1, <2>3 DEF DebitOf, CreditOf, GrowthOf, Types, Frames
  <2>6. /\ \A k : /\ Debiting(k)' = Debiting(k)
                  /\ Crediting(k)' = Crediting(k) + (IF Target(f.op) = k THEN f.n ELSE 0)
        /\ Growing' = Growing
    BY <2>3, <2>5, <1>0, SumsStep, SumsType DEF Types
  <2>7. /\ pages'["available"] = pages["available"] - f.n
        /\ \A k \in {"reserved", "committed", "total"} : pages'[k] = pages[k]
    BY <1>2, <2>1 DEF Types, Counters
  <2>8. \A k : Crediting(k) \in Nat
    BY SumsType DEF Types
  <2>9. \A k \in Counters : pages[k] \in Nat
    BY DEF Types
  <2>10. Conservation'
    BY <1>0, <2>2, <2>6, <2>7, <2>8, <2>9 DEF Conservation, Counters
  <2>11. Backed'
    BY <2>1, <2>6, <2>7 DEF Backed
  <2>12. Transferred("available", Target(f.op), f.n)
    BY <1>0, <2>2, <2>6, <2>7, <2>8, <2>9, PagesAssumption
    DEF Transferred, Bar, Accts, Counters
  <2>. QED  BY <2>4, <2>10, <2>11, <2>12 DEF NoUnderflow, LedgerStep
<1>. QED  BY <1>1, <1>2

(* checked_atomic_sub: Backed says that the counter covers the debit. *)
LEMMA DebitPreserves ==
  ASSUME AcctInv, NEW c \in Cpus, Debit(c)
  PROVE  AcctInv' /\ LedgerStep
<1>. USE DEF AcctInv
<1>. DEFINE f == frame[c]
            k0 == Source(f.op)
<1>0. /\ f.pc = "debit" /\ f.n \in Nat /\ f \in Frames
      /\ k0 \in {"reserved", "committed"} /\ pages[k0] >= f.n
      /\ pages[k0] \in Nat /\ f.op \in Ops
      /\ \A k \in Counters : pages[k] \in Nat
  BY Bounds DEF Debit, Types, Frames, Word, Counters, FrameOK, Ops
<1>1. /\ pages' = [pages EXCEPT ![k0] = pages[k0] - f.n]
      /\ frame' = [frame EXCEPT ![c].pc = "credit"]
      /\ held' = held
  <2>1. Wrap(pages[k0] - f.n) = pages[k0] - f.n
    <3>1. pages[k0] < WordModulus
      BY <1>0, Bounds, WordAssumption, PagesAssumption DEF AcctTypeOK, Counters
    <3>. QED  BY <1>0, <3>1, WordAssumption DEF Wrap
  <2>. QED  BY <1>0, <2>1 DEF Debit
<1>2. /\ \A d \in Cpus \ {c} : frame'[d] = frame[d]
      /\ frame'[c] = [f EXCEPT !.pc = "credit"]
      /\ frame' \in [Cpus -> Frames]
  BY <1>0, <1>1 DEF Types, Frames
<1>. HIDE DEF k0
<1>3. Types' /\ (\A d \in Cpus : FrameOK(frame'[d]) /\ frame'[d].pc # "panic")
  <2>1. Types'
    BY <1>0, <1>1, <1>2 DEF Types, Counters
  <2>2. ASSUME NEW d \in Cpus PROVE FrameOK(frame'[d]) /\ frame'[d].pc # "panic"
    BY <1>0, <1>2 DEF FrameOK, NoUnderflow, Frames
  <2>. QED  BY <2>1, <2>2
<1>4. /\ \A k : /\ DebitOf(k)[c] = (IF k0 = k THEN f.n ELSE 0) /\ DebitOf(k)'[c] = 0
                /\ CreditOf(k)[c] = 0
                /\ CreditOf(k)'[c] = IF Target(f.op) = k THEN f.n ELSE 0
      /\ GrowthOf[c] = 0 /\ GrowthOf'[c] = 0
  BY <1>0, <1>2 DEF DebitOf, CreditOf, GrowthOf, Types, Frames, k0
<1>5. /\ \A k : /\ Debiting(k)' = Debiting(k) - (IF k0 = k THEN f.n ELSE 0)
                /\ Crediting(k)' = Crediting(k) + (IF Target(f.op) = k THEN f.n ELSE 0)
      /\ Growing' = Growing
  BY <1>0, <1>2, <1>4, SumsStep, SumsType DEF Types
<1>6. /\ \A k \in Counters : pages'[k] = IF k = k0 THEN pages[k] - f.n ELSE pages[k]
      /\ Target(f.op) \in {"available", "reserved", "committed"}
  BY <1>0, <1>1 DEF Types, Target
<1>7. \A k : Crediting(k) \in Nat /\ Debiting(k) \in Nat
  BY SumsType DEF Types
<1>8. Conservation'
  BY <1>0, <1>5, <1>6, <1>7 DEF Conservation, Counters
<1>9. Backed'
  BY <1>0, <1>1, <1>5, <1>6, <1>7 DEF Backed, Counters, Types, Owned
<1>10. Target(f.op) # k0 /\ f.n <= MaxPages
  <2>1. Target(f.op) # k0
    BY <1>0 DEF Target, Source, k0, Ops, FrameOK
  <2>2. pages[k0] <= MaxPages
    BY <1>0, Bounds, PagesAssumption DEF AcctTypeOK, Counters
  <2>. QED  BY <1>0, <2>1, <2>2, PagesAssumption
<1>11. Transferred(k0, Target(f.op), f.n)
  BY <1>0, <1>5, <1>6, <1>7, <1>10, PagesAssumption DEF Transferred, Bar, Accts, Counters
<1>. QED  BY <1>3, <1>8, <1>9, <1>11 DEF NoUnderflow, LedgerStep

(* mem_acct_add_total and mem_acct_add_committed, first half. *)
LEMMA GrowPreserves ==
  ASSUME AcctInv, NEW c \in Cpus, Grow(c)
  PROVE  AcctInv' /\ LedgerStep
<1>. USE DEF AcctInv
<1>. DEFINE f == frame[c]
<1>0. /\ f.pc = "grow" /\ f.n \in Nat /\ f \in Frames
      /\ pages["total"] + f.n <= MaxPages
      /\ f.op \in Ops
      /\ \A k \in Counters : pages[k] \in Nat
  BY Bounds DEF Grow, Types, Frames, Word, Counters, FrameOK, Ops
<1>1. /\ pages' = [pages EXCEPT !["total"] = pages["total"] + f.n]
      /\ frame' = [frame EXCEPT ![c].pc = "credit"]
      /\ held' = held
  <2>1. Wrap(pages["total"] + f.n) = pages["total"] + f.n
    BY <1>0, WordAssumption, PagesAssumption DEF Wrap, Counters
  <2>. QED  BY <2>1 DEF Grow
<1>2. /\ \A d \in Cpus \ {c} : frame'[d] = frame[d]
      /\ frame'[c] = [f EXCEPT !.pc = "credit"]
      /\ frame' \in [Cpus -> Frames]
  BY <1>0, <1>1 DEF Types, Frames
<1>3. Types' /\ (\A d \in Cpus : FrameOK(frame'[d]) /\ frame'[d].pc # "panic")
  <2>1. Types'
    BY <1>0, <1>1, <1>2 DEF Types, Counters
  <2>2. ASSUME NEW d \in Cpus PROVE FrameOK(frame'[d]) /\ frame'[d].pc # "panic"
    BY <1>0, <1>2 DEF FrameOK, NoUnderflow, Frames
  <2>. QED  BY <2>1, <2>2
<1>4. /\ \A k : /\ DebitOf(k)[c] = 0 /\ DebitOf(k)'[c] = 0
                /\ CreditOf(k)[c] = 0
                /\ CreditOf(k)'[c] = IF Target(f.op) = k THEN f.n ELSE 0
      /\ GrowthOf[c] = f.n /\ GrowthOf'[c] = 0
  BY <1>0, <1>2 DEF DebitOf, CreditOf, GrowthOf, Types, Frames
<1>5. /\ \A k : /\ Debiting(k)' = Debiting(k)
                /\ Crediting(k)' = Crediting(k) + (IF Target(f.op) = k THEN f.n ELSE 0)
      /\ Growing' = Growing - f.n
  BY <1>0, <1>2, <1>4, SumsStep, SumsType DEF Types
<1>6. /\ \A k \in Counters : pages'[k] = IF k = "total" THEN pages[k] + f.n ELSE pages[k]
      /\ Target(f.op) \in {"available", "reserved", "committed"}
  BY <1>0, <1>1 DEF Types, Target
<1>7. (\A k : Crediting(k) \in Nat /\ Debiting(k) \in Nat) /\ Growing \in Nat
  BY SumsType DEF Types
<1>8. Conservation'
  BY <1>0, <1>5, <1>6, <1>7 DEF Conservation, Counters
<1>9. Backed'
  BY <1>0, <1>1, <1>5, <1>6, <1>7 DEF Backed, Counters, Types, Owned
<1>10. Target(f.op) \in {"available", "committed"}
  BY <1>0 DEF Target, FrameOK
<1>11. Deposited(Target(f.op), f.n)
  BY <1>0, <1>5, <1>6, <1>7, <1>10, PagesAssumption DEF Deposited, Bar, Accts, Counters
<1>. QED  BY <1>3, <1>8, <1>9, <1>11 DEF NoUnderflow, LedgerStep

(* The second half of every operation. *)
LEMMA CreditPreserves ==
  ASSUME AcctInv, NEW c \in Cpus, Credit(c)
  PROVE  AcctInv' /\ LedgerStep
<1>. USE DEF AcctInv
<1>. DEFINE f == frame[c]
            k1 == Target(f.op)
<1>0. /\ f.pc = "credit" /\ f.n \in Nat /\ f \in Frames
      /\ k1 \in {"available", "reserved", "committed"}
      /\ pages[k1] + f.n <= MaxPages
      /\ \A k \in Counters : pages[k] \in Nat
      /\ \A k \in Owned : held[k] \in Nat
      /\ 0 \in Word
  BY Bounds, WordAssumption, PagesAssumption DEF Credit, Types, Frames, Word, Counters
<1>1. /\ pages' = [pages EXCEPT ![k1] = pages[k1] + f.n]
      /\ frame' = [frame EXCEPT ![c] = Returned(TRUE)]
      /\ held' = [k \in Owned |-> IF k = k1 THEN held[k] + f.n ELSE held[k]]
  <2>1. Wrap(pages[k1] + f.n) = pages[k1] + f.n
    BY <1>0, WordAssumption, PagesAssumption DEF Wrap, Counters
  <2>. QED  BY <2>1 DEF Credit, Credited
<1>2. /\ \A d \in Cpus \ {c} : frame'[d] = frame[d]
      /\ frame'[c] = Returned(TRUE)
      /\ frame' \in [Cpus -> Frames]
  BY <1>0, <1>1 DEF Types, Frames, Returned
<1>. HIDE DEF k1
<1>3. Types' /\ (\A d \in Cpus : FrameOK(frame'[d]) /\ frame'[d].pc # "panic")
  <2>1. Types'
    <3>1. pages' \in [Counters -> Nat]
      <4>1. pages[k1] + f.n \in Nat
        BY <1>0 DEF Counters
      <4>. QED  BY <1>1, <4>1 DEF Types
    <3>2. held' \in [Owned -> Nat]
      BY <1>0, <1>1
    <3>. QED  BY <1>2, <3>1, <3>2 DEF Types
  <2>2. ASSUME NEW d \in Cpus PROVE FrameOK(frame'[d]) /\ frame'[d].pc # "panic"
    BY <1>0, <1>2 DEF FrameOK, NoUnderflow, Returned
  <2>. QED  BY <2>1, <2>2
<1>4. /\ \A k : /\ DebitOf(k)[c] = 0 /\ DebitOf(k)'[c] = 0
                /\ CreditOf(k)[c] = (IF k1 = k THEN f.n ELSE 0) /\ CreditOf(k)'[c] = 0
      /\ GrowthOf[c] = 0 /\ GrowthOf'[c] = 0
  BY <1>0, <1>2 DEF DebitOf, CreditOf, GrowthOf, Types, Returned, k1
<1>5. /\ \A k : /\ Debiting(k)' = Debiting(k)
                /\ Crediting(k)' = Crediting(k) - (IF k1 = k THEN f.n ELSE 0)
      /\ Growing' = Growing
  BY <1>0, <1>2, <1>4, SumsStep, SumsType DEF Types
<1>6. \A k \in Counters : pages'[k] = IF k = k1 THEN pages[k] + f.n ELSE pages[k]
  BY <1>0, <1>1 DEF Types
<1>7. (\A k : Crediting(k) \in Nat /\ Debiting(k) \in Nat) /\ Growing \in Nat
  BY SumsType DEF Types
<1>8. Conservation'
  BY <1>0, <1>5, <1>6, <1>7 DEF Conservation, Counters
<1>9. Backed'
  BY <1>0, <1>1, <1>5, <1>6, <1>7 DEF Backed, Counters, Owned
<1>10. SameLedger
  BY <1>0, <1>5, <1>6, <1>7 DEF SameLedger, Bar, Accts, Counters
<1>. QED  BY <1>3, <1>8, <1>9, <1>10 DEF NoUnderflow, LedgerStep

(* The invariant is inductive: one case per instruction, one for all calls. *)
LEMMA AcctInvStep == AcctInv /\ [AcctNext]_acctVars => AcctInv' /\ LedgerStep
<1>1. ASSUME AcctInv, UNCHANGED acctVars PROVE AcctInv' /\ LedgerStep
  <2>1. /\ \A k : DebitOf(k)' = DebitOf(k) /\ CreditOf(k)' = CreditOf(k)
        /\ GrowthOf' = GrowthOf
    BY <1>1 DEF acctVars, DebitOf, CreditOf, GrowthOf
  <2>2. /\ \A k : Debiting(k)' = Debiting(k) /\ Crediting(k)' = Crediting(k)
        /\ Growing' = Growing
    BY <2>1 DEF Debiting, Crediting, Growing
  <2>3. SameLedger
    BY <1>1, <2>2 DEF acctVars, SameLedger, Bar
  <2>4. AcctInv'
    BY <1>1, <2>2 DEF acctVars, AcctInv, Types, NoUnderflow, Conservation, Backed
  <2>. QED  BY <2>3, <2>4 DEF LedgerStep
<1>2. ASSUME AcctInv, NEW c \in Cpus, AcctStep(c) PROVE AcctInv' /\ LedgerStep
  BY <1>2, TakePreserves, DebitPreserves, GrowPreserves, CreditPreserves DEF AcctStep
<1>3. ASSUME AcctInv, NEW c \in Cpus, NEW n \in Word,
             \/ Reserve(c, n) \/ Unreserve(c, n)
             \/ Commit(c, n) \/ CommitReserved(c, n)
             \/ Uncommit(c, n) \/ UncommitToReserved(c, n)
             \/ AddTotal(c, n) \/ AddCommitted(c, n)
      PROVE  AcctInv' /\ LedgerStep
  <2>1. PICK op \in Ops : /\ Call(c, op, n)
                          /\ Source(op) \in Owned => n <= held[Source(op)]
    BY <1>3 DEF Reserve, Unreserve, Commit, CommitReserved, Uncommit,
                UncommitToReserved, AddTotal, AddCommitted, Source, Owned, Ops
  <2>. QED  BY <1>3, <2>1, CallPreserves
<1>. QED  BY <1>1, <1>2, <1>3 DEF AcctNext

(* The accounting invariant, for every number of cores. *)
THEOREM AcctInvariant == AcctSpec => []AcctInv
<1>. QED  BY AcctInvInit, AcctInvStep, PTL DEF AcctSpec

(* Type correctness: the counters never exceed the memory of the machine,  *)
(* so they never wrap.                                                     *)
THEOREM AcctTypeCorrect == AcctSpec => []AcctTypeOK
<1>1. AcctInv => AcctTypeOK
  BY Bounds
<1>. QED  BY <1>1, AcctInvariant, PTL

(* checked_atomic_sub never asserts (accounting.c:47). *)
THEOREM AcctNoUnderflow == AcctSpec => []NoUnderflow
<1>1. AcctInv => NoUnderflow
  BY DEF AcctInv
<1>. QED  BY <1>1, AcctInvariant, PTL

(* committed + reserved <= total at every instruction (accounting.c:9-10). *)
THEOREM AcctWithinTotal == AcctSpec => []CommittedWithinTotal
<1>1. AcctInv => CommittedWithinTotal
  BY Bounds
<1>. QED  BY <1>1, AcctInvariant, PTL

(* No page is lost or counted twice between the two updates of a transfer, *)
(* and every pending debit is covered.                                     *)
THEOREM AcctEveryPageCounted == AcctSpec => []EveryPageCounted
<1>1. AcctInv => EveryPageCounted
  BY DEF AcctInv, EveryPageCounted
<1>. QED  BY <1>1, AcctInvariant, PTL

(* The interleaved counters implement the atomic ledger. *)
THEOREM AcctImplementsLedger == AcctSpec => ImplementsLedger
<1>1. AcctInit => L!LedgerInit
  <2>. SUFFICES ASSUME AcctInit PROVE L!LedgerInit
    OBVIOUS
  <2>1. \A k : CreditOf(k) = [c \in Cpus |-> 0]
    BY DEF AcctInit, Returned, CreditOf
  <2>2. \A k : Crediting(k) = 0
    BY <2>1, SumOfZeros DEF Crediting
  <2>. QED  BY <2>2 DEF AcctInit, L!LedgerInit, L!Accounts, Counters
<1>2. AcctInv /\ [AcctNext]_acctVars => [L!LedgerNext]_(L!ledgerVars)
  <2>. SUFFICES ASSUME AcctInv, [AcctNext]_acctVars
                PROVE  [L!LedgerNext]_(L!ledgerVars)
    OBVIOUS
  <2>. DEFINE acc == [k \in {"available", "reserved", "committed"} |->
                        pages[k] + Crediting(k)]
  <2>0. LedgerStep
    BY AcctInvStep
  <2>1. /\ acc = [k \in Accts |-> Bar(k)]
        /\ acc' = [k \in Accts |-> Bar(k)']
    BY DEF Bar, Accts
  <2>2. CASE SameLedger
    BY <2>2 DEF SameLedger, L!ledgerVars, Bar, Accts
  <2>3. ASSUME NEW from, NEW to, NEW n, Transferred(from, to, n)
        PROVE  L!LedgerNext
    <3>1. /\ from \in L!Accounts /\ to \in L!Accounts \ {from} /\ n \in 0..MaxPages
          /\ n <= acc[from] /\ pages'["total"] = pages["total"]
      BY <2>3 DEF Transferred, L!Accounts, Accts, Bar
    <3>2. acc' = [acc EXCEPT ![from] = @ - n, ![to] = @ + n]
      BY <2>1, <2>3 DEF Transferred, Accts
    <3>3. L!Transfer(from, to, n)
      BY <3>1, <3>2 DEF L!Transfer
    <3>. QED  BY <3>1, <3>3 DEF L!LedgerNext
  <2>4. ASSUME NEW to, NEW n, Deposited(to, n)
        PROVE  L!LedgerNext
    <3>1. /\ to \in {"available", "committed"} /\ n \in 0..MaxPages
          /\ pages["total"] + n <= MaxPages /\ pages'["total"] = pages["total"] + n
      BY <2>4 DEF Deposited
    <3>2. acc' = [acc EXCEPT ![to] = @ + n]
      BY <2>1, <2>4 DEF Deposited, Accts
    <3>3. L!Deposit(to, n)
      BY <3>1, <3>2 DEF L!Deposit
    <3>. QED  BY <3>1, <3>3 DEF L!LedgerNext
  <2>. QED  BY <2>0, <2>2, <2>3, <2>4 DEF LedgerStep
<1>. QED  BY <1>1, <1>2, AcctInvariant, PTL DEF AcctSpec, L!LedgerSpec, ImplementsLedger
=============================================================================
