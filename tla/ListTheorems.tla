---------------------------- MODULE ListTheorems ----------------------------
(***************************************************************************)
(* The kernel's intrusive lists are sequences in the models.  What they    *)
(* satisfy, in terms of the set of linked entries: Range(s) says which     *)
(* entries are linked, NoDuplicates(s) that each of them is linked once.   *)
(***************************************************************************)
EXTENDS Integers, Sequences, SequencesExt, FiniteSetTheorems, TLAPS

NoDuplicates(s) == \A i, j \in DOMAIN s : i # j => s[i] # s[j]

(* list_add: an entry put in front *)
LEMMA PutFront ==
  ASSUME NEW S, NEW s \in Seq(S), NEW x \in S
  PROVE  /\ <<x>> \o s \in Seq(S)
         /\ Range(<<x>> \o s) = Range(s) \cup {x}
         /\ NoDuplicates(s) /\ x \notin Range(s) => NoDuplicates(<<x>> \o s)
<1> DEFINE t == <<x>> \o s
<1>1. /\ t \in Seq(S) /\ Len(t) = Len(s) + 1 /\ DOMAIN t = 1..(Len(s) + 1)
      /\ t[1] = x /\ \A i \in 1..Len(s) : t[i + 1] = s[i]
      /\ DOMAIN s = 1..Len(s) /\ Len(s) \in Nat
  OBVIOUS
<1>2. \A i \in 2..(Len(s) + 1) : i - 1 \in 1..Len(s) /\ t[i] = s[i - 1]
  BY <1>1
<1> HIDE DEF t
<1>3. Range(t) = Range(s) \cup {x}
  <2>1. ASSUME NEW y \in Range(t) PROVE y \in Range(s) \cup {x}
    <3>1. PICK i \in 1..(Len(s) + 1) : y = t[i]
      BY <1>1, <2>1 DEF Range
    <3>2. i = 1 \/ i \in 2..(Len(s) + 1)
      BY <1>1
    <3> QED
      BY <1>1, <1>2, <3>1, <3>2 DEF Range
  <2>2. ASSUME NEW y \in Range(s) PROVE y \in Range(t)
    <3>1. PICK i \in 1..Len(s) : y = s[i]
      BY <1>1, <2>2 DEF Range
    <3>2. i + 1 \in DOMAIN t /\ t[i + 1] = y
      BY <1>1, <3>1
    <3> QED
      BY <3>2 DEF Range
  <2>3. x \in Range(t)
    <3>1. 1 \in DOMAIN t /\ t[1] = x
      BY <1>1
    <3> QED
      BY <3>1 DEF Range
  <2> QED
    BY <2>1, <2>2, <2>3
<1>4. ASSUME NoDuplicates(s), x \notin Range(s) PROVE NoDuplicates(t)
  <2> SUFFICES ASSUME NEW i \in 1..(Len(s) + 1), NEW j \in 1..(Len(s) + 1), i < j
               PROVE  t[i] # t[j]
    BY <1>1 DEF NoDuplicates
  <2>1. j - 1 \in DOMAIN s /\ t[j] = s[j - 1]
    BY <1>1, <1>2
  <2>2. CASE i = 1
    BY <1>1, <1>4, <2>1, <2>2 DEF Range
  <2>3. CASE i # 1
    <3>1. i - 1 \in DOMAIN s /\ t[i] = s[i - 1] /\ i - 1 # j - 1
      BY <1>1, <1>2, <2>3
    <3> QED
      BY <1>4, <2>1, <3>1 DEF NoDuplicates
  <2> QED
    BY <2>2, <2>3
<1> QED
  BY <1>1, <1>3, <1>4 DEF t

(* list_add_tail: an entry put at the end *)
LEMMA PutBack ==
  ASSUME NEW S, NEW s \in Seq(S), NEW x \in S
  PROVE  /\ Append(s, x) \in Seq(S)
         /\ Range(Append(s, x)) = Range(s) \cup {x}
         /\ NoDuplicates(s) /\ x \notin Range(s) => NoDuplicates(Append(s, x))
<1> DEFINE t == Append(s, x)
<1>1. /\ t \in Seq(S) /\ Len(t) = Len(s) + 1 /\ DOMAIN t = 1..(Len(s) + 1)
      /\ t[Len(s) + 1] = x /\ \A i \in 1..Len(s) : t[i] = s[i]
      /\ DOMAIN s = 1..Len(s) /\ Len(s) \in Nat
  OBVIOUS
<1> HIDE DEF t
<1>2. \A i \in 1..(Len(s) + 1) : i \in 1..Len(s) \/ i = Len(s) + 1
  BY <1>1
<1>3. Range(t) = Range(s) \cup {x}
  <2>1. ASSUME NEW y \in Range(t) PROVE y \in Range(s) \cup {x}
    BY <1>1, <1>2, <2>1 DEF Range
  <2>2. ASSUME NEW y \in Range(s) PROVE y \in Range(t)
    <3>1. PICK i \in 1..Len(s) : y = s[i]
      BY <1>1, <2>2 DEF Range
    <3>2. i \in DOMAIN t /\ t[i] = y
      BY <1>1, <3>1
    <3> QED
      BY <3>2 DEF Range
  <2>3. x \in Range(t)
    <3>1. Len(s) + 1 \in DOMAIN t /\ t[Len(s) + 1] = x
      BY <1>1
    <3> QED
      BY <3>1 DEF Range
  <2> QED
    BY <2>1, <2>2, <2>3
<1>4. ASSUME NoDuplicates(s), x \notin Range(s) PROVE NoDuplicates(t)
  <2> SUFFICES ASSUME NEW i \in 1..(Len(s) + 1), NEW j \in 1..(Len(s) + 1), i < j
               PROVE  t[i] # t[j]
    BY <1>1 DEF NoDuplicates
  <2>1. i \in DOMAIN s /\ t[i] = s[i]
    BY <1>1
  <2>2. CASE j = Len(s) + 1
    BY <1>1, <1>4, <2>1, <2>2 DEF Range
  <2>3. CASE j \in 1..Len(s)
    BY <1>1, <1>4, <2>1, <2>3 DEF NoDuplicates
  <2> QED
    BY <1>2, <2>2, <2>3
<1> QED
  BY <1>1, <1>3, <1>4 DEF t

(* The first entry taken off *)
LEMMA TakeFront ==
  ASSUME NEW S, NEW s \in Seq(S), s # <<>>
  PROVE  /\ Tail(s) \in Seq(S) /\ Head(s) \in S /\ Head(s) \in Range(s)
         /\ Range(s) = Range(Tail(s)) \cup {Head(s)}
         /\ NoDuplicates(s) => NoDuplicates(Tail(s)) /\ Head(s) \notin Range(Tail(s))
<1> DEFINE t == Tail(s)
<1>1. /\ t \in Seq(S) /\ Len(s) \in Nat \ {0} /\ Len(t) = Len(s) - 1 /\ DOMAIN t = 1..(Len(s) - 1)
      /\ Head(s) = s[1] /\ Head(s) \in S /\ \A i \in 1..(Len(s) - 1) : t[i] = s[i + 1]
      /\ DOMAIN s = 1..Len(s)
  OBVIOUS
<1> HIDE DEF t
<1>2. 1 \in DOMAIN s /\ Head(s) \in Range(s)
  <2>1. 1 \in DOMAIN s
    BY <1>1
  <2> QED
    BY <1>1, <2>1 DEF Range
<1>3. \A i \in DOMAIN t : i + 1 \in DOMAIN s /\ t[i] = s[i + 1] /\ i + 1 # 1
  BY <1>1
<1>4. \A i \in DOMAIN s : i = 1 \/ (i - 1 \in DOMAIN t /\ s[i] = t[i - 1])
  BY <1>1
<1>5. Range(s) = Range(t) \cup {Head(s)}
  <2>1. ASSUME NEW y \in Range(t) PROVE y \in Range(s)
    BY <1>3 DEF Range
  <2>2. ASSUME NEW y \in Range(s) PROVE y \in Range(t) \cup {Head(s)}
    BY <1>1, <1>4 DEF Range
  <2> QED
    BY <1>2, <2>1, <2>2
<1>6. ASSUME NoDuplicates(s) PROVE NoDuplicates(t) /\ Head(s) \notin Range(t)
  <2>1. Head(s) \notin Range(t)
    BY <1>1, <1>2, <1>3, <1>6 DEF NoDuplicates, Range
  <2>2. ASSUME NEW i \in DOMAIN t, NEW j \in DOMAIN t, i # j PROVE t[i] # t[j]
    <3>1. i + 1 # j + 1
      BY <1>1, <2>2
    <3> QED
      BY <1>3, <1>6, <3>1 DEF NoDuplicates
  <2> QED
    BY <2>1, <2>2 DEF NoDuplicates
<1> QED
  BY <1>1, <1>2, <1>5, <1>6 DEF t

(* list_del: an entry taken out, wherever it is linked *)
LEMMA Unlink ==
  ASSUME NEW S, NEW s \in Seq(S), NEW x, NoDuplicates(s)
  PROVE  /\ RemoveFirst(s, x) \in Seq(S)
         /\ Range(RemoveFirst(s, x)) = Range(s) \ {x}
         /\ NoDuplicates(RemoveFirst(s, x))
<1>1. CASE ~ \E i \in 1..Len(s) : s[i] = x
  <2>1. RemoveFirst(s, x) = s
    BY <1>1 DEF RemoveFirst
  <2>2. x \notin Range(s)
    BY <1>1 DEF Range
  <2> QED
    BY <2>1, <2>2
<1>2. CASE \E i \in 1..Len(s) : s[i] = x
  <2>1. PICK k \in 1..Len(s) : s[k] = x
    BY <1>2
  <2>2. {i \in 1..Len(s) : s[i] = x} = {k}
    BY <2>1 DEF NoDuplicates
  <2>3. Min({k}) = k
    BY DEF Min
  <2>4. RemoveFirst(s, x) = SubSeq(s, 1, k - 1) \o SubSeq(s, k + 1, Len(s))
    BY <1>2, <2>2, <2>3 DEF RemoveFirst, RemoveAt, SelectInSeq
  <2> DEFINE before == SubSeq(s, 1, k - 1)
             after == SubSeq(s, k + 1, Len(s))
             t == before \o after
  <2>5. /\ t \in Seq(S) /\ Len(s) \in Nat /\ DOMAIN s = 1..Len(s) /\ DOMAIN t = 1..(Len(s) - 1)
        /\ \A i \in 1..(k - 1) : t[i] = s[i]
        /\ \A i \in k..(Len(s) - 1) : t[i] = s[i + 1]
    <3>1. before \in Seq(S) /\ Len(before) = k - 1 /\ \A i \in 1..(k - 1) : before[i] = s[i]
      OBVIOUS
    <3>2. after \in Seq(S) /\ Len(after) = Len(s) - k /\ \A i \in 1..(Len(s) - k) : after[i] = s[i + k]
      OBVIOUS
    <3> HIDE DEF before, after
    <3>3. /\ t \in Seq(S) /\ Len(t) = Len(s) - 1
          /\ \A i \in 1..(k - 1) : t[i] = before[i]
          /\ \A i \in k..(Len(s) - 1) : t[i] = after[i - (k - 1)]
      <4>1. \A a, b \in Seq(S) : /\ a \o b \in Seq(S) /\ Len(a \o b) = Len(a) + Len(b)
                                 /\ Len(a) \in Nat /\ Len(b) \in Nat
        OBVIOUS
      <4>2. \A a, b \in Seq(S) : \A i \in 1..(Len(a) + Len(b)) :
              (a \o b)[i] = IF i <= Len(a) THEN a[i] ELSE b[i - Len(a)]
        OBVIOUS
      <4>3. /\ t \in Seq(S) /\ Len(t) = Len(before) + Len(after)
            /\ \A i \in 1..(Len(before) + Len(after)) :
                 t[i] = IF i <= Len(before) THEN before[i] ELSE after[i - Len(before)]
        BY <3>1, <3>2, <4>1, <4>2, Zenon
      <4>4. Len(s) \in Nat /\ Len(before) = k - 1 /\ Len(after) = Len(s) - k
        BY <3>1, <3>2
      <4> HIDE DEF t
      <4>5. /\ \A i \in 1..(k - 1) : i \in 1..(Len(before) + Len(after)) /\ i <= Len(before)
            /\ \A i \in k..(Len(s) - 1) : /\ i \in 1..(Len(before) + Len(after)) /\ ~(i <= Len(before))
                                          /\ i - Len(before) = i - (k - 1)
        BY <4>4
      <4>6. Len(t) = Len(s) - 1
        BY <4>3, <4>4
      <4>7. ASSUME NEW i \in 1..(k - 1) PROVE t[i] = before[i]
        BY <4>3, <4>5
      <4>8. ASSUME NEW i \in k..(Len(s) - 1) PROVE t[i] = after[i - (k - 1)]
        BY <4>3, <4>5, Zenon
      <4> QED
        BY <4>3, <4>6, <4>7, <4>8
    <3> HIDE DEF t
    <3>4. \A i \in k..(Len(s) - 1) : i - (k - 1) \in 1..(Len(s) - k) /\ i - (k - 1) + k = i + 1
      OBVIOUS
    <3> QED
      BY <3>1, <3>2, <3>3, <3>4
  <2> HIDE DEF t
  <2>6. \A i \in DOMAIN t : \/ i < k /\ i \in DOMAIN s /\ t[i] = s[i]
                            \/ i >= k /\ i + 1 \in DOMAIN s /\ t[i] = s[i + 1]
    BY <2>5
  <2>7. Range(t) = Range(s) \ {x}
    <3>1. ASSUME NEW y \in Range(t) PROVE y \in Range(s) \ {x}
      <4>1. PICK i \in DOMAIN t : t[i] = y
        BY <3>1 DEF Range
      <4>2. PICK j \in DOMAIN s : j # k /\ s[j] = y
        BY <2>5, <2>6, <4>1
      <4> QED
        BY <2>1, <2>5, <4>2 DEF Range, NoDuplicates
    <3>2. ASSUME NEW y \in Range(s), y # x PROVE y \in Range(t)
      <4>1. PICK i \in DOMAIN s : s[i] = y /\ i # k
        BY <2>1, <3>2 DEF Range
      <4>2. CASE i < k
        <5>1. i \in DOMAIN t /\ t[i] = y
          BY <2>5, <4>1, <4>2
        <5> QED
          BY <5>1 DEF Range
      <4>3. CASE i > k
        <5>1. i - 1 \in DOMAIN t /\ t[i - 1] = y
          BY <2>5, <4>1, <4>3
        <5> QED
          BY <5>1 DEF Range
      <4> QED
        BY <2>5, <4>1, <4>2, <4>3
    <3> QED
      BY <3>1, <3>2
  <2>8. NoDuplicates(t)
    <3> SUFFICES ASSUME NEW i \in DOMAIN t, NEW j \in DOMAIN t, i < j PROVE t[i] # t[j]
      BY <2>5 DEF NoDuplicates
    <3>1. PICK m, n \in DOMAIN s : m < n /\ t[i] = s[m] /\ t[j] = s[n]
      BY <2>5, <2>6
    <3> QED
      BY <2>5, <3>1 DEF NoDuplicates
  <2> QED
    BY <2>4, <2>5, <2>7, <2>8 DEF t
<1> QED
  BY <1>1, <1>2

(* A list in which every entry is linked once is as long as it has entries. *)
LEMMA LengthCounts ==
  ASSUME NEW S, NEW s \in Seq(S), NoDuplicates(s)
  PROVE  IsFiniteSet(Range(s)) /\ Cardinality(Range(s)) = Len(s)
<1>1. Len(s) \in Nat /\ DOMAIN s = 1..Len(s) /\ s \in [1..Len(s) -> S]
  OBVIOUS
<1>2. IsFiniteSet(1..Len(s)) /\ Cardinality(1..Len(s)) = Len(s)
  BY <1>1, FS_Interval
<1>3. s \in [1..Len(s) -> Range(s)]
  BY <1>1 DEF Range
<1>4. s \in Bijection(1..Len(s), Range(s))
  BY <1>1, <1>3, NoDuplicates(s) DEF NoDuplicates, Range, Bijection, Injection, Surjection, IsInjective
<1>5. ExistsBijection(1..Len(s), Range(s))
  BY <1>4 DEF ExistsBijection
<1> QED
  BY <1>2, <1>5, FS_Bijection
=============================================================================
