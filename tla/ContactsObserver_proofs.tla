------------------------ MODULE ContactsObserver_proofs ------------------------
(* What ContactsObserver promises for every book: any number of contacts,   *)
(* lists and memberships, any contents, any number of handlers and edits.   *)
EXTENDS ContactsObserver, FiniteSetTheorems, SequenceTheorems, WellFoundedInduction, TLAPS

-----------------------------------------------------------------------------
(* Numbers and sequences                                                    *)

(* A set of numbers has a least one.                                        *)
LEMMA Least ==
  ASSUME NEW T \in SUBSET Nat, T # {}
  PROVE  \E x \in T : \A y \in T : x <= y
PROOF
<1> DEFINE R == {p \in Nat \X Nat : p[1] < p[2]}
<1>1. IsWellFoundedOn(R, Nat)
  BY NatLessThanWellFounded DEF OpToRel
<1> HIDE DEF R
<1>2. PICK x \in T : \A y \in T : ~ (<<y, x>> \in R)
  BY <1>1, WFMin
<1>3. ASSUME NEW y \in T PROVE x <= y
  <2>1. ~(<<y, x>> \in R)
    BY <1>2
  <2> QED BY <2>1 DEF R
<1> QED BY <1>3

(* What holds at 0, and from each number on at the next, holds up to N.     *)
LEMMA Climb ==
  ASSUME NEW N \in Nat, NEW T \in SUBSET (0..N), 0 \in T,
         \A n \in 0..N : n + 1 \in 0..N /\ n \in T => n + 1 \in T
  PROVE  T = 0..N
PROOF
<1> DEFINE Bad == (0..N) \ T
<1>1. SUFFICES ASSUME Bad # {} PROVE FALSE
  OBVIOUS
<1>2. Bad \in SUBSET Nat
  OBVIOUS
<1> HIDE DEF Bad
<1>3. PICK x \in Bad : \A y \in Bad : x <= y
  BY <1>1, <1>2, Least
<1>4. x \in 0..N /\ x \notin T /\ x # 0
  BY <1>3 DEF Bad
<1>5. x - 1 \in 0..N /\ ~(x <= x - 1) /\ (x - 1) + 1 = x
  BY <1>4
<1>6. x - 1 \in T
  BY <1>3, <1>5 DEF Bad
<1> QED BY <1>4, <1>5, <1>6

LEMMA SeqFacts ==
  ASSUME NEW S, NEW q \in Seq(S)
  PROVE  /\ Len(q) \in Nat /\ DOMAIN q = 1..Len(q)
         /\ \A k \in DOMAIN q : q[k] \in S
         /\ Range(q) = {q[k] : k \in DOMAIN q}
         /\ Range(q) \in SUBSET S
PROOF
<1>1. Len(q) \in Nat /\ DOMAIN q = 1..Len(q) /\ \A k \in DOMAIN q : q[k] \in S
  OBVIOUS
<1> QED BY <1>1 DEF Range

LEMMA AppendFacts ==
  ASSUME NEW S, NEW q \in Seq(S), NEW r \in S
  PROVE  /\ Append(q, r) \in Seq(S) /\ Len(Append(q, r)) = Len(q) + 1
         /\ \A k \in 1..Len(q) : Append(q, r)[k] = q[k]
         /\ Append(q, r)[Len(q) + 1] = r
         /\ Range(Append(q, r)) = Range(q) \cup {r}
PROOF
<1>1. /\ Append(q, r) \in Seq(S) /\ Len(Append(q, r)) = Len(q) + 1
      /\ \A k \in 1..Len(q) : Append(q, r)[k] = q[k]
      /\ Append(q, r)[Len(q) + 1] = r /\ Len(q) \in Nat
  OBVIOUS
<1>2. DOMAIN Append(q, r) = 1..(Len(q) + 1) /\ DOMAIN q = 1..Len(q)
  BY <1>1, SeqFacts
<1>3. ASSUME NEW x PROVE x \in Range(Append(q, r)) <=> x \in Range(q) \cup {r}
  <2>1. x \in Range(Append(q, r)) <=> \E k \in 1..(Len(q) + 1) : Append(q, r)[k] = x
    BY <1>2 DEF Range
  <2>2. x \in Range(q) <=> \E k \in 1..Len(q) : q[k] = x
    BY <1>2 DEF Range
  <2>3. \A k \in 1..(Len(q) + 1) : k \in 1..Len(q) \/ k = Len(q) + 1
    BY <1>1
  <2>4. Len(q) + 1 \in 1..(Len(q) + 1) /\ \A k \in 1..Len(q) : k \in 1..(Len(q) + 1)
    BY <1>1
  <2> QED BY <1>1, <2>1, <2>2, <2>3, <2>4
<1>4. Range(Append(q, r)) = Range(q) \cup {r}
  BY <1>3
<1> QED BY <1>1, <1>4

(* No two entries at different places are equal.                            *)
Distinct(q) == \A j, k \in DOMAIN q : q[j] = q[k] => j = k

LEMMA RemoveAtFacts ==
  ASSUME NEW S, NEW q \in Seq(S), NEW k \in DOMAIN q
  PROVE  /\ RemoveAt(q, k) \in Seq(S)
         /\ Len(RemoveAt(q, k)) = Len(q) - 1
         /\ \A j \in 1..(Len(q) - 1) :
              RemoveAt(q, k)[j] = q[IF j < k THEN j ELSE j + 1]
         /\ Distinct(q) => Range(RemoveAt(q, k)) = Range(q) \ {q[k]}
PROOF
<1> DEFINE a == SubSeq(q, 1, k - 1)
           b == SubSeq(q, k + 1, Len(q))
<1>0. Len(q) \in Nat /\ k \in 1..Len(q) /\ DOMAIN q = 1..Len(q)
  BY SeqFacts
<1>1. /\ a \in Seq(S) /\ Len(a) = k - 1 /\ \A j \in 1..(k - 1) : a[j] = q[j]
  BY <1>0
<1>2. /\ b \in Seq(S) /\ Len(b) = Len(q) - k
      /\ \A j \in 1..(Len(q) - k) : b[j] = q[k + j]
  BY <1>0
<1> HIDE DEF a, b
<1>3. RemoveAt(q, k) = a \o b
  BY DEF RemoveAt, a, b
<1>8. /\ a \o b \in Seq(S) /\ Len(a \o b) = Len(a) + Len(b)
      /\ \A i \in 1..Len(a) + Len(b) :
           (a \o b)[i] = IF i <= Len(a) THEN a[i] ELSE b[i - Len(a)]
  BY <1>1, <1>2, ConcatProperties
<1>4. RemoveAt(q, k) \in Seq(S) /\ Len(RemoveAt(q, k)) = Len(q) - 1
  <2>1. Len(a) + Len(b) = Len(q) - 1
    BY <1>0, <1>1, <1>2
  <2> QED BY <1>3, <1>8, <2>1
<1>5. ASSUME NEW j \in 1..(Len(q) - 1)
      PROVE  RemoveAt(q, k)[j] = q[IF j < k THEN j ELSE j + 1]
  <2>1. CASE j < k
    <3>1. j \in 1..(k - 1) /\ j \in 1..Len(a)
      BY <1>0, <1>1, <2>1
    <3>2. (a \o b)[j] = a[j]
      BY <1>0, <1>1, <1>2, <1>8, <3>1
    <3> QED BY <1>1, <1>3, <2>1, <3>1, <3>2
  <2>2. CASE ~(j < k)
    <3>1. j - (k - 1) \in 1..(Len(q) - k) /\ j \in (Len(a) + 1)..(Len(a) + Len(b))
          /\ k + (j - (k - 1)) = j + 1 /\ ~(j <= Len(a)) /\ j \in 1..(Len(a) + Len(b))
      BY <1>0, <1>1, <1>2, <2>2
    <3>2. (a \o b)[j] = b[j - (k - 1)]
      BY <1>1, <1>8, <3>1
    <3> QED BY <1>2, <1>3, <2>2, <3>1, <3>2
  <2> QED BY <2>1, <2>2
<1>6. ASSUME Distinct(q), NEW x
      PROVE  x \in Range(RemoveAt(q, k)) <=> x \in Range(q) \ {q[k]}
  <2>0. DOMAIN RemoveAt(q, k) = 1..(Len(q) - 1)
    BY <1>4, SeqFacts
  <2>1. ASSUME x \in Range(RemoveAt(q, k)) PROVE x \in Range(q) \ {q[k]}
    <3>1. PICK j \in 1..(Len(q) - 1) : RemoveAt(q, k)[j] = x
      BY <2>0, <2>1 DEF Range
    <3> DEFINE m == IF j < k THEN j ELSE j + 1
    <3>2. m \in 1..Len(q) /\ m # k
      BY <1>0
    <3>3. x = q[m]
      BY <1>5, <3>1
    <3> HIDE DEF m
    <3> QED BY <1>0, <1>6, <3>2, <3>3 DEF Distinct, Range
  <2>2. ASSUME x \in Range(q) \ {q[k]} PROVE x \in Range(RemoveAt(q, k))
    <3>1. PICK m \in 1..Len(q) : q[m] = x
      BY <1>0, <2>2 DEF Range
    <3>2. m # k
      BY <2>2, <3>1
    <3> DEFINE j == IF m < k THEN m ELSE m - 1
    <3>3. j \in 1..(Len(q) - 1) /\ (IF j < k THEN j ELSE j + 1) = m
      BY <1>0, <3>2
    <3> HIDE DEF j
    <3>4. RemoveAt(q, k)[j] = x
      BY <1>5, <3>1, <3>3
    <3> QED BY <2>0, <3>3, <3>4 DEF Range
  <2> QED BY <2>1, <2>2
<1>7. Distinct(q) => Range(RemoveAt(q, k)) = Range(q) \ {q[k]}
  BY <1>6
<1> QED BY <1>4, <1>5, <1>7

-----------------------------------------------------------------------------
(* What is kept of a sequence                                               *)

KeepStep(q, P, f, k) ==
  IF k = 0 THEN <<>> ELSE IF k \in P THEN Append(f[k - 1], q[k]) ELSE f[k - 1]
Kept(q, P) == CHOOSE f : f = [k \in 0..Len(q) |-> KeepStep(q, P, f, k)]

LEMMA KeepingKept ==
  ASSUME NEW q, NEW P
  PROVE  Keeping(q, P) = Kept(q, P)[Len(q)]
PROOF
  BY DEF Keeping, Kept, KeepStep

LEMMA KeptSteps ==
  ASSUME NEW S, NEW q \in Seq(S), NEW P
  PROVE  Kept(q, P) = [k \in 0..Len(q) |-> KeepStep(q, P, Kept(q, P), k)]
PROOF
<1> DEFINE Good(n) == \E f : f = [k \in 0..n |-> KeepStep(q, P, f, k)]
           T == {n \in 0..Len(q) : Good(n)}
<1>0. Len(q) \in Nat
  OBVIOUS
<1>1. Good(0)
  <2> DEFINE f == [k \in 0..0 |-> <<>>]
  <2>1. \A k \in 0..0 : k = 0
    OBVIOUS
  <2>2. f = [k \in 0..0 |-> KeepStep(q, P, f, k)]
    BY <2>1 DEF KeepStep
  <2> HIDE DEF f
  <2> QED BY <2>2
<1>2. ASSUME NEW n \in 0..Len(q), n + 1 \in 0..Len(q), Good(n)
      PROVE  Good(n + 1)
  <2>1. PICK f : f = [k \in 0..n |-> KeepStep(q, P, f, k)]
    BY <1>2
  <2> DEFINE g == [k \in 0..(n + 1) |-> KeepStep(q, P, f, k)]
  <2>2. n \in Nat
    BY <1>0
  <2>3. ASSUME NEW k \in 0..(n + 1) PROVE KeepStep(q, P, g, k) = KeepStep(q, P, f, k)
    <3>1. CASE k = 0
      BY <3>1 DEF KeepStep
    <3>2. CASE k # 0
      <4>1. k - 1 \in 0..n /\ k - 1 \in 0..(n + 1)
        BY <2>2, <3>2
      <4>2. g[k - 1] = KeepStep(q, P, f, k - 1)
        BY <4>1
      <4>3. f[k - 1] = KeepStep(q, P, f, k - 1)
        BY <2>1, <4>1
      <4> HIDE DEF g
      <4> QED BY <4>2, <4>3, <3>2 DEF KeepStep
    <3> QED BY <3>1, <3>2
  <2>4. g = [k \in 0..(n + 1) |-> KeepStep(q, P, g, k)]
    <3>1. g = [k \in 0..(n + 1) |-> KeepStep(q, P, f, k)]
      OBVIOUS
    <3> HIDE DEF g
    <3> QED BY <2>3, <3>1
  <2> HIDE DEF g
  <2> QED BY <2>4
<1>3. Good(Len(q))
  <2> HIDE DEF Good
  <2>1. T \in SUBSET (0..Len(q)) /\ 0 \in T
    BY <1>0, <1>1
  <2>2. \A n \in 0..Len(q) : n + 1 \in 0..Len(q) /\ n \in T => n + 1 \in T
    BY <1>2
  <2> HIDE DEF T
  <2>3. T = 0..Len(q)
    BY <1>0, <2>1, <2>2, Climb
  <2>4. Len(q) \in T
    BY <1>0, <2>3
  <2> QED BY <2>4 DEF T
<1> QED BY <1>3 DEF Kept

(* s is the entries of q at the places P: its entries come from increasing  *)
(* places of P, and every place of P has its entry in s.                    *)
Places(q, P, s, f) ==
  /\ f \in [1..Len(s) -> P]
  /\ \A m \in 1..Len(s) : s[m] = q[f[m]]
  /\ \A m, n \in 1..Len(s) : m < n => f[m] < f[n]
  /\ \A p \in P : \E m \in 1..Len(s) : f[m] = p

LEMMA KeptPlaces ==
  ASSUME NEW S, NEW q \in Seq(S), NEW P \in SUBSET (DOMAIN q)
  PROVE  Keeping(q, P) \in Seq(S) /\ \E f : Places(q, P, Keeping(q, P), f)
PROOF
<1> DEFINE F == Kept(q, P)
           Good(n) == F[n] \in Seq(S) /\ \E f : Places(q, P \cap (1..n), F[n], f)
           T == {n \in 0..Len(q) : Good(n)}
<1>0. Len(q) \in Nat /\ DOMAIN q = 1..Len(q) /\ \A k \in 1..Len(q) : q[k] \in S
  BY SeqFacts
<1>1. \A k \in 0..Len(q) : F[k] = KeepStep(q, P, F, k)
  BY KeptSteps
<1> HIDE DEF F
<1>2. Good(0)
  <2>1. F[0] = <<>>
    BY <1>0, <1>1 DEF KeepStep
  <2>2. P \cap (1..0) = {} /\ Len(<<>>) = 0 /\ <<>> \in Seq(S)
    OBVIOUS
  <2>3. Places(q, {}, <<>>, [m \in 1..0 |-> 0])
    BY <2>2 DEF Places
  <2> QED BY <2>1, <2>2, <2>3
<1>3. ASSUME NEW n \in 0..Len(q), n + 1 \in 0..Len(q), Good(n)
      PROVE  Good(n + 1)
  <2>0. n \in Nat /\ n + 1 # 0 /\ (n + 1) - 1 = n /\ n + 1 \in 1..Len(q)
    BY <1>0, <1>3
  <2>1. PICK f : Places(q, P \cap (1..n), F[n], f)
    BY <1>3
  <2>2. F[n] \in Seq(S) /\ Len(F[n]) \in Nat
    BY <1>3
  <2>3. F[n + 1] = IF n + 1 \in P THEN Append(F[n], q[n + 1]) ELSE F[n]
    BY <1>1, <1>3, <2>0 DEF KeepStep
  <2>4. CASE n + 1 \notin P
    <3>1. P \cap (1..(n + 1)) = P \cap (1..n)
      BY <2>0, <2>4
    <3> QED BY <2>1, <2>2, <2>3, <2>4, <3>1
  <2>5. CASE n + 1 \in P
    <3> DEFINE L == Len(F[n])
               s == F[n + 1]
               g == [m \in 1..(L + 1) |-> IF m = L + 1 THEN n + 1 ELSE f[m]]
               Q == P \cap (1..n)
    <3>1. /\ s \in Seq(S) /\ Len(s) = L + 1 /\ s[L + 1] = q[n + 1]
          /\ \A m \in 1..L : s[m] = F[n][m]
      BY <1>0, <2>0, <2>2, <2>3, <2>5, AppendFacts
    <3>2. /\ f \in [1..L -> Q]
          /\ \A m \in 1..L : F[n][m] = q[f[m]]
          /\ \A m, k \in 1..L : m < k => f[m] < f[k]
          /\ \A p \in Q : \E m \in 1..L : f[m] = p
      BY <2>1 DEF Places
    <3>3. L \in Nat
      BY <2>2
    <3> HIDE DEF L, s
    <3>4. \A p : p \in P \cap (1..(n + 1)) <=> p \in Q \/ p = n + 1
      BY <2>0, <2>5
    <3>5. \A m \in 1..(L + 1) : m \in 1..L \/ m = L + 1
      BY <3>3
    <3>6. g \in [1..(L + 1) -> P \cap (1..(n + 1))]
      BY <3>2, <3>4, <3>5
    <3>7. \A m \in 1..(L + 1) : s[m] = q[g[m]]
      BY <3>1, <3>2, <3>3, <3>5
    <3>8. ASSUME NEW m \in 1..(L + 1), NEW k \in 1..(L + 1), m < k PROVE g[m] < g[k]
      <4>1. m \in 1..L /\ m # L + 1
        BY <3>3, <3>8
      <4>2. f[m] \in 1..n /\ f[m] < n + 1
        BY <2>0, <3>2, <4>1
      <4>3. CASE k = L + 1
        BY <4>1, <4>2, <4>3
      <4>4. CASE k \in 1..L
        <5>1. k # L + 1
          BY <3>3, <4>4
        <5> QED BY <3>2, <3>8, <4>1, <4>4, <5>1
      <4> QED BY <3>5, <4>3, <4>4
    <3>9. ASSUME NEW p \in P \cap (1..(n + 1)) PROVE \E m \in 1..(L + 1) : g[m] = p
      <4>1. CASE p = n + 1
        <5>1. L + 1 \in 1..(L + 1)
          BY <3>3
        <5> QED BY <4>1, <5>1
      <4>2. CASE p \in Q
        <5>1. PICK m \in 1..L : f[m] = p
          BY <3>2, <4>2
        <5>2. m \in 1..(L + 1) /\ m # L + 1
          BY <3>3
        <5> QED BY <5>1, <5>2
      <4> QED BY <3>4, <4>1, <4>2
    <3> HIDE DEF g
    <3>10. Places(q, P \cap (1..(n + 1)), s, g)
      BY <3>1, <3>6, <3>7, <3>8, <3>9 DEF Places
    <3> QED BY <3>1, <3>10 DEF s
  <2> QED BY <2>4, <2>5
<1>4. Good(Len(q))
  <2> HIDE DEF Good
  <2>1. T \in SUBSET (0..Len(q)) /\ 0 \in T
    BY <1>0, <1>2
  <2>2. \A n \in 0..Len(q) : n + 1 \in 0..Len(q) /\ n \in T => n + 1 \in T
    BY <1>3
  <2> HIDE DEF T
  <2>3. T = 0..Len(q)
    BY <1>0, <2>1, <2>2, Climb
  <2>4. Len(q) \in T
    BY <1>0, <2>3
  <2> QED BY <2>4 DEF T
<1>5. P \cap (1..Len(q)) = P /\ Keeping(q, P) = F[Len(q)]
  BY <1>0, KeepingKept DEF F
<1> QED BY <1>4, <1>5

LEMMA KeepingFacts ==
  ASSUME NEW S, NEW q \in Seq(S), NEW P \in SUBSET (DOMAIN q)
  PROVE  /\ Keeping(q, P) \in Seq(S)
         /\ Range(Keeping(q, P)) = {q[p] : p \in P}
         /\ Distinct(q) => Distinct(Keeping(q, P))
         /\ Len(Keeping(q, P)) = Cardinality(P) /\ IsFiniteSet(P)
PROOF
<1> DEFINE s == Keeping(q, P)
<1>1. s \in Seq(S)
  BY KeptPlaces
<1>2. PICK f : Places(q, P, s, f)
  BY KeptPlaces
<1>3. Len(s) \in Nat /\ DOMAIN s = 1..Len(s) /\ DOMAIN q = 1..Len(q) /\ Len(q) \in Nat
  BY <1>1, SeqFacts
<1> HIDE DEF s
<1>4. ASSUME NEW m \in 1..Len(s), NEW n \in 1..Len(s), f[m] = f[n] PROVE m = n
  <2>1. f[m] \in Nat
    BY <1>2, <1>3 DEF Places
  <2>2. m < n \/ m = n \/ n < m
    BY <1>3
  <2> QED BY <1>2, <1>4, <2>1, <2>2 DEF Places
<1>5. ASSUME NEW x PROVE x \in Range(s) <=> x \in {q[p] : p \in P}
  BY <1>2, <1>3 DEF Places, Range
<1>6. ASSUME Distinct(q) PROVE Distinct(s)
  <2>1. ASSUME NEW m \in 1..Len(s), NEW n \in 1..Len(s), s[m] = s[n] PROVE m = n
    <3>1. f[m] \in DOMAIN q /\ f[n] \in DOMAIN q /\ q[f[m]] = q[f[n]]
      BY <1>2, <2>1 DEF Places
    <3>2. f[m] = f[n]
      BY <1>6, <3>1 DEF Distinct
    <3> QED BY <1>4, <3>2
  <2> QED BY <1>3, <2>1 DEF Distinct
<1>7. IsFiniteSet(P)
  <2>1. IsFiniteSet(1..Len(q))
    BY <1>3, FS_Interval
  <2> QED BY <1>3, <2>1, FS_Subset
<1>8. Len(s) = Cardinality(P)
  <2>1. f \in Bijection(1..Len(s), P)
    <3>1. f \in [1..Len(s) -> P] /\ \A p \in P : \E m \in 1..Len(s) : f[m] = p
      BY <1>2 DEF Places
    <3>2. f \in Injection(1..Len(s), P)
      BY <1>4, <3>1 DEF Injection, IsInjective
    <3>3. f \in Surjection(1..Len(s), P)
      BY <3>1 DEF Surjection
    <3> QED BY <3>2, <3>3 DEF Bijection
  <2>2. ExistsBijection(1..Len(s), P)
    BY <2>1 DEF ExistsBijection
  <2> QED BY <1>3, <1>7, <2>2, FS_CountingElements
<1>9. Range(s) = {q[p] : p \in P}
  BY <1>5
<1> QED BY <1>1, <1>6, <1>7, <1>8, <1>9 DEF s

-----------------------------------------------------------------------------
(* Ids and rows                                                             *)

IdSet == [parent : {Book} \cup Lists, item : Contacts \cup Lists,
          kind : {"contact", "list", "membership", "list-by-name"}]
KeyOf(r) == [parent |-> r.parent, item |-> r.item, kind |-> r.kind]

(* All the ids under which something may be queued about the item.          *)
Ids(i) == {TagId(i, op) : op \in Ops}

LEMMA IdFacts ==
  ASSUME NEW i \in Items
  PROVE  /\ Id(i) \in IdSet
         /\ i \in Contacts => Id(i) = [parent |-> Book, item |-> i, kind |-> "contact"]
         /\ i \in Lists => Id(i) = [parent |-> Book, item |-> i, kind |-> "list"]
         /\ i \in Memberships => Id(i) = [parent |-> i[1], item |-> i[2], kind |-> "membership"]
PROOF
<1>1. CASE i \in Contacts
  <2>1. i \notin Lists /\ i \notin Memberships
    BY <1>1, ObserverAssumption
  <2>2. Id(i) = [parent |-> Book, item |-> i, kind |-> "contact"]
    BY <1>1, <2>1 DEF Id
  <2> QED BY <1>1, <2>1, <2>2 DEF IdSet
<1>2. CASE i \in Lists
  <2>1. i \notin Contacts /\ i \notin Memberships
    BY <1>2, ObserverAssumption
  <2>2. Id(i) = [parent |-> Book, item |-> i, kind |-> "list"]
    BY <1>2, <2>1 DEF Id
  <2> QED BY <1>2, <2>1, <2>2 DEF IdSet
<1>3. CASE i \in Memberships
  <2>1. i \notin Contacts /\ i \notin Lists
    BY <1>3, ObserverAssumption
  <2>2. Id(i) = [parent |-> i[1], item |-> i[2], kind |-> "membership"]
    BY <1>3, <2>1 DEF Id
  <2>3. i[1] \in Lists /\ i[2] \in Contacts
    BY <1>3, ObserverAssumption
  <2> QED BY <1>3, <2>1, <2>2, <2>3 DEF IdSet
<1> QED BY <1>1, <1>2, <1>3 DEF Items

LEMMA TagIdFacts ==
  ASSUME NEW i \in Items, NEW op \in Ops
  PROVE  /\ TagId(i, op) \in IdSet /\ TagId(i, op) \in Ids(i)
         /\ ~(i \in Lists /\ op = "created") => TagId(i, op) = Id(i)
         /\ i \in Lists /\ op = "created" =>
              TagId(i, op) = [parent |-> Book, item |-> i, kind |-> "list-by-name"]
         /\ Id(i) \in Ids(i)
PROOF
<1>1. CASE i \in Lists /\ op = "created"
  BY <1>1, IdFacts DEF TagId, IdSet, Ids, Ops
<1>2. CASE ~(i \in Lists /\ op = "created")
  BY <1>2, IdFacts DEF TagId, Ids
<1>3. TagId(i, "updated") = Id(i) /\ "updated" \in Ops
  BY DEF TagId, Ops
<1>4. Id(i) \in Ids(i)
  BY <1>3 DEF Ids
<1> QED BY <1>1, <1>2, <1>4

(* An id is of one item only.                                               *)
LEMMA IdsApart ==
  ASSUME NEW i \in Items, NEW j \in Items, NEW d \in Ids(i), d \in Ids(j)
  PROVE  i = j
PROOF
<1>1. PICK o \in Ops : d = TagId(i, o)
  BY DEF Ids
<1>2. PICK p \in Ops : d = TagId(j, p)
  BY DEF Ids
<1>3. d.kind = "list-by-name" \/ d = Id(i)
  BY <1>1, TagIdFacts
<1>4. d.kind = "list-by-name" \/ d = Id(j)
  BY <1>2, TagIdFacts
<1>5. Id(i).kind # "list-by-name" /\ Id(j).kind # "list-by-name"
  BY IdFacts DEF Items
<1>6. CASE d.kind = "list-by-name"
  <2>1. i \in Lists /\ o = "created" /\ j \in Lists /\ p = "created"
    BY <1>1, <1>2, <1>5, <1>6, TagIdFacts
  <2>2. d = [parent |-> Book, item |-> i, kind |-> "list-by-name"]
    BY <1>1, <2>1, TagIdFacts
  <2>3. d = [parent |-> Book, item |-> j, kind |-> "list-by-name"]
    BY <1>2, <2>1, TagIdFacts
  <2> QED BY <2>2, <2>3
<1>7. CASE d = Id(i) /\ d = Id(j)
  <2>0. /\ i \in Contacts => d = [parent |-> Book, item |-> i, kind |-> "contact"]
        /\ i \in Lists => d = [parent |-> Book, item |-> i, kind |-> "list"]
        /\ i \in Memberships => d = [parent |-> i[1], item |-> i[2], kind |-> "membership"]
    BY <1>7, IdFacts
  <2>01. /\ j \in Contacts => d = [parent |-> Book, item |-> j, kind |-> "contact"]
         /\ j \in Lists => d = [parent |-> Book, item |-> j, kind |-> "list"]
         /\ j \in Memberships => d = [parent |-> j[1], item |-> j[2], kind |-> "membership"]
    BY <1>7, IdFacts
  <2>02. /\ i \in Contacts => d.kind = "contact" /\ d.item = i
         /\ i \in Lists => d.kind = "list" /\ d.item = i
         /\ i \in Memberships => d.kind = "membership" /\ d.parent = i[1] /\ d.item = i[2]
    BY <2>0
  <2>03. /\ j \in Contacts => d.kind = "contact" /\ d.item = j
         /\ j \in Lists => d.kind = "list" /\ d.item = j
         /\ j \in Memberships => d.kind = "membership" /\ d.parent = j[1] /\ d.item = j[2]
    BY <2>01
  <2>1. CASE i \in Contacts
    BY <2>1, <2>02, <2>03 DEF Items
  <2>2. CASE i \in Lists
    BY <2>2, <2>02, <2>03 DEF Items
  <2>3. CASE i \in Memberships
    <3>1. j \in Memberships
      BY <2>3, <2>02, <2>03 DEF Items
    <3>2. i = <<i[1], i[2]>> /\ j = <<j[1], j[2]>>
      BY <2>3, <3>1, ObserverAssumption
    <3> QED BY <2>3, <2>02, <2>03, <3>1, <3>2
  <2> QED BY <2>1, <2>2, <2>3 DEF Items
<1> QED BY <1>3, <1>4, <1>6, <1>7

LEMMA FamilyFacts ==
  ASSUME NEW s \in Statuses
  PROVE  /\ familyOf(s) = BY_USER <=> s \in UserStatuses
         /\ familyOf(s) = BY_SERVER <=> s \in SERVER_TAG_STATUSES
         /\ ~(s \in UserStatuses /\ s \in SERVER_TAG_STATUSES)
PROOF
  BY DEF familyOf, Statuses, UserStatuses, SERVER_TAG_STATUSES, SENDMAIL_STATUSES,
         BY_USER, BY_SERVER, FOR_SENDMAIL

LEMMA RowFacts ==
  ASSUME NEW r \in Rows, NEW d \in IdSet
  PROVE  /\ KeyOf(r) \in IdSet /\ r.status \in Statuses /\ r.fresh \in BOOLEAN
         /\ \A f : sameRow(r, d, f) <=> KeyOf(r) = d /\ familyOf(r.status) = f
         /\ sameRow(r, d, BY_USER) <=> KeyOf(r) = d /\ r.status \in UserStatuses
         /\ sameRow(r, d, BY_SERVER) <=> KeyOf(r) = d /\ r.status \in SERVER_TAG_STATUSES
PROOF
<1>1. KeyOf(r) \in IdSet /\ r.status \in Statuses /\ r.fresh \in BOOLEAN
  BY DEF Rows, KeyOf, IdSet
<1>2. KeyOf(r) = d <=> r.parent = d.parent /\ r.item = d.item /\ r.kind = d.kind
  BY DEF KeyOf, IdSet
<1>3. ASSUME NEW f PROVE sameRow(r, d, f) <=> KeyOf(r) = d /\ familyOf(r.status) = f
  BY <1>2 DEF sameRow
<1> QED BY <1>1, <1>3, FamilyFacts

LEMMA RowMade ==
  ASSUME NEW d \in IdSet, NEW s \in Statuses, NEW b \in BOOLEAN
  PROVE  /\ Row(d, s, b, NoDetail) \in Rows /\ KeyOf(Row(d, s, b, NoDetail)) = d
         /\ Row(d, s, b, NoDetail).status = s /\ Row(d, s, b, NoDetail).fresh = b
PROOF
  BY DEF Row, Rows, KeyOf, IdSet

SameKey(r, s) == KeyOf(r) = KeyOf(s) /\ familyOf(r.status) = familyOf(s.status)
OneEach(q) == \A j, k \in DOMAIN q : SameKey(q[j], q[k]) => j = k
Lone(R) == \A r, s \in R : SameKey(r, s) => r = s

(* A queue of rows, one for each item and family.                           *)
Neat(q) == q \in Seq(Rows) /\ Distinct(q) /\ Lone(Range(q))

LEMMA NeatIs ==
  ASSUME NEW q \in Seq(Rows)
  PROVE  Neat(q) <=> OneEach(q)
PROOF
<1>1. ASSUME OneEach(q) PROVE Neat(q)
  BY <1>1 DEF OneEach, Neat, Distinct, Lone, SameKey, Range
<1>2. ASSUME Neat(q) PROVE OneEach(q)
  <2>1. ASSUME NEW j \in DOMAIN q, NEW k \in DOMAIN q, SameKey(q[j], q[k]) PROVE j = k
    <3>1. q[j] \in Range(q) /\ q[k] \in Range(q)
      BY DEF Range
    <3> QED BY <1>2, <2>1, <3>1 DEF Neat, Lone, Distinct
  <2> QED BY <2>1 DEF OneEach
<1> QED BY <1>1, <1>2

(* What is queued about an item.                                            *)
About(q, i) == {r \in Range(q) : KeyOf(r) \in Ids(i)}
UserRows(q, i) == {r \in About(q, i) : KeyOf(r) = Id(i) /\ r.status \in UserStatuses}
FreshTags(q, i) == {r \in About(q, i) : r.fresh /\ r.status \in SERVER_TAG_STATUSES}
ExactTag(q, i) == {r \in About(q, i) : KeyOf(r) = Id(i) /\ r.status \in SERVER_TAG_STATUSES}
FreshOnes(q) == \A r \in Range(q) : r.fresh => r.status \in SERVER_TAG_STATUSES

(* A set of places has a first.                                             *)
LEMMA FirstPlace ==
  ASSUME NEW S, NEW q \in Seq(S), NEW T \in SUBSET (1..Len(q))
  PROVE  /\ T # {} => Min(T) \in T
         /\ (IF T # {} THEN Min(T) ELSE 0) \in T \cup {0}
         /\ (IF T # {} THEN Min(T) ELSE 0) = 0 <=> T = {}
PROOF
<1>1. T \in SUBSET Nat /\ 0 \notin T
  OBVIOUS
<1>2. ASSUME T # {} PROVE Min(T) \in T
  <2>1. \E x \in T : \A y \in T : x <= y
    BY <1>1, <1>2, Least
  <2> QED BY <2>1 DEF Min
<1> QED BY <1>1, <1>2

LEMMA IndexFacts ==
  ASSUME NEW q \in Seq(Rows), NEW d, NEW f
  PROVE  /\ IndexOfRow(q, d, f) \in DOMAIN q \cup {0} /\ 0 \notin DOMAIN q
         /\ IndexOfRow(q, d, f) # 0 => sameRow(q[IndexOfRow(q, d, f)], d, f)
         /\ IndexOfRow(q, d, f) = 0 => \A r \in Range(q) : ~sameRow(r, d, f)
PROOF
<1> DEFINE T == {k \in 1..Len(q) : sameRow(q[k], d, f)}
<1>1. IndexOfRow(q, d, f) = IF T # {} THEN Min(T) ELSE 0
  BY DEF IndexOfRow, SelectInSeq
<1>2. DOMAIN q = 1..Len(q) /\ T \in SUBSET (1..Len(q))
  OBVIOUS
<1>3. \A k \in T : sameRow(q[k], d, f)
  OBVIOUS
<1>4. T = {} => \A r \in Range(q) : ~sameRow(r, d, f)
  BY <1>2 DEF Range
<1> HIDE DEF T
<1>5. PICK x : x = IF T # {} THEN Min(T) ELSE 0
  OBVIOUS
<1>6. x \in T \cup {0} /\ (x = 0 <=> T = {})
  BY <1>2, <1>5, FirstPlace
<1>7. IndexOfRow(q, d, f) = x
  BY <1>1, <1>5
<1> QED BY <1>2, <1>3, <1>4, <1>6, <1>7

NamedPlace(q, d, n) == SelectInSeq(q, LAMBDA r : AnnouncedByName(r, d, n))

LEMMA NamedFacts ==
  ASSUME NEW q \in Seq(Rows), NEW d, NEW n, NEW k, k = NamedPlace(q, d, n)
  PROVE  /\ k \in DOMAIN q \cup {0} /\ 0 \notin DOMAIN q
         /\ k # 0 => AnnouncedByName(q[k], d, n)
         /\ k = 0 => \A r \in Range(q) : ~AnnouncedByName(r, d, n)
PROOF
<1> DEFINE T == {m \in 1..Len(q) : AnnouncedByName(q[m], d, n)}
<1>1. k = IF T # {} THEN Min(T) ELSE 0
  BY DEF SelectInSeq, NamedPlace
<1>2. DOMAIN q = 1..Len(q) /\ T \in SUBSET (1..Len(q))
  OBVIOUS
<1>3. \A m \in T : AnnouncedByName(q[m], d, n)
  OBVIOUS
<1>4. T = {} => \A r \in Range(q) : ~AnnouncedByName(r, d, n)
  BY <1>2 DEF Range
<1> HIDE DEF T
<1>5. PICK x : x = IF T # {} THEN Min(T) ELSE 0
  OBVIOUS
<1>6. x \in T \cup {0} /\ (x = 0 <=> T = {})
  BY <1>2, <1>5, FirstPlace
<1>7. k = x
  BY <1>1, <1>5
<1> QED BY <1>2, <1>3, <1>4, <1>6, <1>7

LEMMA ConsumableFacts ==
  ASSUME NEW q \in Seq(Rows), NEW d, NEW op,
         NEW k, k = findConsumableServerTag(q, d, op)
  PROVE  /\ k \in DOMAIN q \cup {0} /\ 0 \notin DOMAIN q
         /\ k # 0 => sameRow(q[k], d, BY_SERVER) /\ OP_FOR_TAG[q[k].status] = op
         /\ k = 0 => \A r \in Range(q) :
                       ~(sameRow(r, d, BY_SERVER) /\ OP_FOR_TAG[r.status] = op)
PROOF
<1> DEFINE T == {m \in 1..Len(q) : /\ sameRow(q[m], d, BY_SERVER)
                                  /\ OP_FOR_TAG[q[m].status] = op}
<1>1. k = IF T # {} THEN Min(T) ELSE 0
  BY DEF SelectInSeq, findConsumableServerTag
<1>2. DOMAIN q = 1..Len(q) /\ T \in SUBSET (1..Len(q))
  OBVIOUS
<1>3. \A m \in T : sameRow(q[m], d, BY_SERVER) /\ OP_FOR_TAG[q[m].status] = op
  OBVIOUS
<1>4. T = {} => \A r \in Range(q) :
                  ~(sameRow(r, d, BY_SERVER) /\ OP_FOR_TAG[r.status] = op)
  BY <1>2 DEF Range
<1> HIDE DEF T
<1>5. PICK x : x = IF T # {} THEN Min(T) ELSE 0
  OBVIOUS
<1>6. x \in T \cup {0} /\ (x = 0 <=> T = {})
  BY <1>2, <1>5, FirstPlace
<1>7. k = x
  BY <1>1, <1>5
<1> QED BY <1>2, <1>3, <1>4, <1>6, <1>7

(* The status of an item's user row is that of its one user row.            *)
LEMMA StatusFacts ==
  ASSUME NEW q, Neat(q), NEW d \in IdSet
  PROVE  /\ UserStatus(q, d) \in UserStatuses \cup {NoStatus} /\ NoStatus \notin UserStatuses
         /\ \A r \in Range(q) : KeyOf(r) = d /\ r.status \in UserStatuses
                                 => UserStatus(q, d) = r.status
         /\ UserStatus(q, d) # NoStatus =>
              \E r \in Range(q) : KeyOf(r) = d /\ r.status \in UserStatuses
PROOF
<1>0. q \in Seq(Rows) /\ Lone(Range(q)) /\ NoStatus \notin UserStatuses
  BY DEF Neat, NoStatus, UserStatuses
<1>1. PICK k : k = IndexOfRow(q, d, BY_USER)
  OBVIOUS
<1>2. /\ k \in DOMAIN q \cup {0} /\ 0 \notin DOMAIN q
      /\ k # 0 => sameRow(q[k], d, BY_USER)
      /\ k = 0 => \A r \in Range(q) : ~sameRow(r, d, BY_USER)
  BY <1>0, <1>1, IndexFacts
<1>3. UserStatus(q, d) = IF k = 0 THEN NoStatus ELSE q[k].status
  BY <1>1 DEF UserStatus
<1>4. \A r \in Range(q) : r \in Rows /\
                           (sameRow(r, d, BY_USER) <=> KeyOf(r) = d /\ r.status \in UserStatuses)
  BY <1>0, SeqFacts, RowFacts
<1>5. CASE k = 0
  BY <1>0, <1>2, <1>3, <1>4, <1>5
<1>6. CASE k # 0
  <2>1. q[k] \in Range(q) /\ KeyOf(q[k]) = d /\ q[k].status \in UserStatuses
    BY <1>2, <1>4, <1>6 DEF Range
  <2>2. ASSUME NEW r \in Range(q), KeyOf(r) = d, r.status \in UserStatuses
        PROVE  r.status = q[k].status
    <3>1. familyOf(r.status) = BY_USER /\ familyOf(q[k].status) = BY_USER
      BY <2>1, <2>2, FamilyFacts DEF Statuses
    <3> QED BY <1>0, <2>1, <2>2, <3>1 DEF Lone, SameKey
  <2> QED BY <1>0, <1>3, <1>6, <2>1, <2>2
<1> QED BY <1>5, <1>6

(* What is queued about an item says what its user row is.                  *)
LEMMA SameStatus ==
  ASSUME NEW q, Neat(q), NEW p, Neat(p), NEW i \in Items, UserRows(q, i) = UserRows(p, i)
  PROVE  UserStatus(q, Id(i)) = UserStatus(p, Id(i))
PROOF
<1>1. Id(i) \in IdSet /\ Id(i) \in Ids(i)
  BY IdFacts, TagIdFacts DEF Ops
<1>2. \A r : r \in Range(q) /\ KeyOf(r) = Id(i) /\ r.status \in UserStatuses
            <=> r \in Range(p) /\ KeyOf(r) = Id(i) /\ r.status \in UserStatuses
  BY <1>1 DEF UserRows, About
<1> QED BY <1>1, <1>2, StatusFacts

LEMMA SameAbout ==
  ASSUME NEW q, Neat(q), NEW p, Neat(p), NEW i \in Items, About(q, i) = About(p, i)
  PROVE  /\ UserStatus(q, Id(i)) = UserStatus(p, Id(i))
         /\ FreshTags(q, i) = FreshTags(p, i) /\ ExactTag(q, i) = ExactTag(p, i)
PROOF
<1>1. UserRows(q, i) = UserRows(p, i)
  BY DEF UserRows
<1> QED BY <1>1, SameStatus DEF FreshTags, ExactTag

-----------------------------------------------------------------------------
(* What the updaters make of a neat queue                                   *)

LEMMA DropFacts ==
  ASSUME NEW q, Neat(q), NEW d, NEW f
  PROVE  /\ Neat(Drop(q, d, f))
         /\ Range(Drop(q, d, f)) = {r \in Range(q) : ~sameRow(r, d, f)}
PROOF
<1> DEFINE P == {k \in DOMAIN q : ~sameRow(q[k], d, f)}
<1>1. q \in Seq(Rows) /\ Distinct(q) /\ Lone(Range(q))
  BY DEF Neat
<1>2. Drop(q, d, f) = Keeping(q, P)
  BY DEF Drop
<1>3. /\ Keeping(q, P) \in Seq(Rows) /\ Range(Keeping(q, P)) = {q[p] : p \in P}
      /\ Distinct(Keeping(q, P))
  BY <1>1, KeepingFacts
<1>4. {q[p] : p \in P} = {r \in Range(q) : ~sameRow(r, d, f)}
  BY DEF Range
<1> QED BY <1>1, <1>2, <1>3, <1>4 DEF Neat, Lone

LEMMA AddFacts ==
  ASSUME NEW q, Neat(q), NEW r \in Rows, \A s \in Range(q) : ~SameKey(s, r)
  PROVE  Neat(Append(q, r)) /\ Range(Append(q, r)) = Range(q) \cup {r}
PROOF
<1>1. q \in Seq(Rows) /\ Distinct(q) /\ Lone(Range(q))
  BY DEF Neat
<1>2. /\ Append(q, r) \in Seq(Rows) /\ Len(Append(q, r)) = Len(q) + 1
      /\ \A k \in 1..Len(q) : Append(q, r)[k] = q[k]
      /\ Append(q, r)[Len(q) + 1] = r
      /\ Range(Append(q, r)) = Range(q) \cup {r}
  BY <1>1, AppendFacts
<1>3. Len(q) \in Nat /\ DOMAIN q = 1..Len(q) /\ DOMAIN Append(q, r) = 1..(Len(q) + 1)
  BY <1>1, <1>2, SeqFacts
<1>4. r \notin Range(q)
  BY DEF SameKey
<1>5. Distinct(Append(q, r))
  <2>1. ASSUME NEW j \in 1..(Len(q) + 1), NEW k \in 1..(Len(q) + 1),
               Append(q, r)[j] = Append(q, r)[k], j # k
        PROVE  FALSE
    <3>1. (j \in 1..Len(q) \/ j = Len(q) + 1) /\ (k \in 1..Len(q) \/ k = Len(q) + 1)
      BY <1>3
    <3>2. \A m \in 1..Len(q) : q[m] \in Range(q)
      BY <1>3 DEF Range
    <3> QED BY <1>1, <1>2, <1>3, <1>4, <2>1, <3>1, <3>2 DEF Distinct
  <2> QED BY <1>3, <2>1 DEF Distinct
<1>6. Lone(Range(q) \cup {r})
  BY <1>1 DEF Lone, SameKey
<1> QED BY <1>2, <1>5, <1>6 DEF Neat

LEMMA TakeFacts ==
  ASSUME NEW q, Neat(q), NEW k \in DOMAIN q
  PROVE  Neat(RemoveAt(q, k)) /\ Range(RemoveAt(q, k)) = Range(q) \ {q[k]}
PROOF
<1>1. q \in Seq(Rows) /\ Distinct(q) /\ Lone(Range(q))
  BY DEF Neat
<1>2. /\ RemoveAt(q, k) \in Seq(Rows) /\ Len(RemoveAt(q, k)) = Len(q) - 1
      /\ \A j \in 1..(Len(q) - 1) : RemoveAt(q, k)[j] = q[IF j < k THEN j ELSE j + 1]
      /\ Range(RemoveAt(q, k)) = Range(q) \ {q[k]}
  BY <1>1, RemoveAtFacts
<1>3. Len(q) \in Nat /\ k \in 1..Len(q) /\ DOMAIN q = 1..Len(q)
      /\ DOMAIN RemoveAt(q, k) = 1..(Len(q) - 1)
  BY <1>1, <1>2, SeqFacts
<1>4. Distinct(RemoveAt(q, k))
  <2>1. ASSUME NEW i \in 1..(Len(q) - 1), NEW j \in 1..(Len(q) - 1),
               RemoveAt(q, k)[i] = RemoveAt(q, k)[j]
        PROVE  i = j
    <3>1. (IF i < k THEN i ELSE i + 1) \in 1..Len(q) /\ (IF j < k THEN j ELSE j + 1) \in 1..Len(q)
      BY <1>3
    <3>2. q[IF i < k THEN i ELSE i + 1] = q[IF j < k THEN j ELSE j + 1]
      BY <1>2, <2>1
    <3>3. (IF i < k THEN i ELSE i + 1) = (IF j < k THEN j ELSE j + 1)
      BY <1>1, <1>3, <3>1, <3>2 DEF Distinct
    <3> QED BY <1>3, <3>3
  <2> QED BY <1>3, <2>1 DEF Distinct
<1>5. Lone(Range(q) \ {q[k]})
  BY <1>1 DEF Lone
<1> QED BY <1>2, <1>4, <1>5 DEF Neat

(* A pre-tag grows stale where it is.                                       *)
LEMMA StaleFacts ==
  ASSUME NEW q, Neat(q), NEW k \in DOMAIN q
  PROVE  /\ Neat([q EXCEPT ![k].fresh = FALSE])
         /\ Range([q EXCEPT ![k].fresh = FALSE])
              = (Range(q) \ {q[k]}) \cup {[q[k] EXCEPT !.fresh = FALSE]}
         /\ DOMAIN [q EXCEPT ![k].fresh = FALSE] = DOMAIN q
         /\ \A m \in DOMAIN q : [q EXCEPT ![k].fresh = FALSE][m].status = q[m].status
PROOF
<1> DEFINE p == [q EXCEPT ![k].fresh = FALSE]
           s == [q[k] EXCEPT !.fresh = FALSE]
<1>1. q \in Seq(Rows) /\ Distinct(q) /\ Lone(Range(q)) /\ OneEach(q)
  BY NeatIs DEF Neat
<1>2. Len(q) \in Nat /\ DOMAIN q = 1..Len(q) /\ q[k] \in Rows
  BY <1>1, SeqFacts
<1>3. /\ s \in Rows /\ KeyOf(s) = KeyOf(q[k]) /\ s.status = q[k].status
  BY <1>2 DEF Rows, KeyOf
<1>4. p = [q EXCEPT ![k] = s]
  OBVIOUS
<1> HIDE DEF s
<1>5. p \in Seq(Rows) /\ DOMAIN p = DOMAIN q /\ p[k] = s
      /\ \A m \in DOMAIN q : m # k => p[m] = q[m]
  <2>1. q \in [1..Len(q) -> Rows] /\ k \in 1..Len(q)
    BY <1>1, <1>2
  <2>2. p \in [1..Len(q) -> Rows] /\ p[k] = s /\ \A m \in 1..Len(q) : m # k => p[m] = q[m]
    BY <1>3, <1>4, <2>1
  <2>3. p \in Seq(Rows)
    BY <1>2, <2>2
  <2> QED BY <1>2, <2>2, <2>3
<1> HIDE DEF p
<1>6. \A m \in DOMAIN q : p[m].status = q[m].status /\ KeyOf(p[m]) = KeyOf(q[m])
  BY <1>3, <1>5
<1>7. OneEach(p)
  BY <1>1, <1>5, <1>6 DEF OneEach, SameKey
<1>8. Range(p) = (Range(q) \ {q[k]}) \cup {s}
  BY <1>1, <1>5 DEF Range, Distinct
<1>9. Neat(p)
  BY <1>5, <1>7, NeatIs
<1> QED BY <1>5, <1>6, <1>8, <1>9 DEF p, s

LEMMA ConcatFacts ==
  ASSUME NEW S, NEW a \in Seq(S), NEW b \in Seq(S), Distinct(a), Distinct(b),
         Range(a) \cap Range(b) = {}
  PROVE  a \o b \in Seq(S) /\ Distinct(a \o b) /\ Range(a \o b) = Range(a) \cup Range(b)
PROOF
<1>1. /\ a \o b \in Seq(S) /\ Len(a \o b) = Len(a) + Len(b)
      /\ \A i \in 1..Len(a) + Len(b) :
           (a \o b)[i] = IF i <= Len(a) THEN a[i] ELSE b[i - Len(a)]
  BY ConcatProperties
<1>2. Len(a) \in Nat /\ Len(b) \in Nat /\ DOMAIN a = 1..Len(a) /\ DOMAIN b = 1..Len(b)
      /\ DOMAIN (a \o b) = 1..(Len(a) + Len(b))
  BY <1>1, SeqFacts
<1> DEFINE c == a \o b
<1>3. \A i \in 1..(Len(a) + Len(b)) :
        c[i] = IF i <= Len(a) THEN a[i] ELSE b[i - Len(a)]
  BY <1>1
<1>4. DOMAIN c = 1..(Len(a) + Len(b)) /\ c \in Seq(S)
  BY <1>1, <1>2
<1> HIDE DEF c
<1>5. ASSUME NEW i \in 1..(Len(a) + Len(b))
      PROVE  \/ i \in 1..Len(a) /\ c[i] = a[i] /\ a[i] \in Range(a)
             \/ i - Len(a) \in 1..Len(b) /\ c[i] = b[i - Len(a)] /\ b[i - Len(a)] \in Range(b)
  <2>1. CASE i <= Len(a)
    BY <1>2, <1>3, <2>1 DEF Range
  <2>2. CASE ~(i <= Len(a))
    <3>1. i - Len(a) \in 1..Len(b)
      BY <1>2, <2>2
    <3> QED BY <1>2, <1>3, <2>2, <3>1 DEF Range
  <2> QED BY <2>1, <2>2
<1>6. \A i \in 1..Len(a) : i \in 1..(Len(a) + Len(b)) /\ c[i] = a[i]
  BY <1>2, <1>3
<1>7. ASSUME NEW i \in 1..Len(b)
      PROVE  i + Len(a) \in 1..(Len(a) + Len(b)) /\ c[i + Len(a)] = b[i]
  <2>1. i + Len(a) \in 1..(Len(a) + Len(b)) /\ ~(i + Len(a) <= Len(a)) /\ (i + Len(a)) - Len(a) = i
    BY <1>2
  <2> QED BY <1>3, <2>1
<1>8. Distinct(c)
  <2>1. ASSUME NEW i \in 1..(Len(a) + Len(b)), NEW j \in 1..(Len(a) + Len(b)), c[i] = c[j]
        PROVE  i = j
    <3>1. CASE i \in 1..Len(a) /\ c[i] = a[i] /\ j \in 1..Len(a) /\ c[j] = a[j]
      BY <1>2, <2>1, <3>1 DEF Distinct
    <3>2. CASE /\ i - Len(a) \in 1..Len(b) /\ c[i] = b[i - Len(a)]
               /\ j - Len(a) \in 1..Len(b) /\ c[j] = b[j - Len(a)]
      <4>1. i - Len(a) = j - Len(a)
        BY <1>2, <2>1, <3>2 DEF Distinct
      <4> QED BY <1>2, <4>1
    <3> QED BY <1>5, <2>1, <3>1, <3>2
  <2> QED BY <1>4, <2>1 DEF Distinct
<1>9. ASSUME NEW x PROVE x \in Range(c) <=> x \in Range(a) \cup Range(b)
  <2>1. ASSUME x \in Range(c) PROVE x \in Range(a) \cup Range(b)
    <3>1. PICK i \in 1..(Len(a) + Len(b)) : c[i] = x
      BY <1>4, <2>1 DEF Range
    <3> QED BY <1>5, <3>1
  <2>2. ASSUME x \in Range(a) PROVE x \in Range(c)
    BY <1>2, <1>4, <1>6, <2>2 DEF Range
  <2>3. ASSUME x \in Range(b) PROVE x \in Range(c)
    <3>1. PICK i \in 1..Len(b) : b[i] = x
      BY <1>2, <2>3 DEF Range
    <3>2. i + Len(a) \in DOMAIN c /\ c[i + Len(a)] = x
      BY <1>4, <1>7, <3>1
    <3> QED BY <3>2 DEF Range
  <2> QED BY <2>1, <2>2, <2>3
<1>10. Range(c) = Range(a) \cup Range(b)
  BY <1>9
<1> QED BY <1>4, <1>8, <1>10 DEF c

LEMMA TailFacts ==
  ASSUME NEW q, Neat(q), NEW ids
  PROVE  Neat(moveToTailUpdater(q, ids)) /\ Range(moveToTailUpdater(q, ids)) = Range(q)
PROOF
<1> DEFINE B == {k \in DOMAIN q : \E id \in ids : sameRow(q[k], id, BY_USER)}
           A == DOMAIN q \ B
<1>1. q \in Seq(Rows) /\ Distinct(q) /\ Lone(Range(q))
  BY DEF Neat
<1>2. moveToTailUpdater(q, ids) = Keeping(q, A) \o Keeping(q, B)
  BY DEF moveToTailUpdater
<1>3. A \in SUBSET (DOMAIN q) /\ B \in SUBSET (DOMAIN q) /\ A \cap B = {} /\ A \cup B = DOMAIN q
  OBVIOUS
<1> HIDE DEF A, B
<1>4. /\ Keeping(q, A) \in Seq(Rows) /\ Range(Keeping(q, A)) = {q[p] : p \in A}
      /\ Distinct(Keeping(q, A))
  BY <1>1, <1>3, KeepingFacts
<1>5. /\ Keeping(q, B) \in Seq(Rows) /\ Range(Keeping(q, B)) = {q[p] : p \in B}
      /\ Distinct(Keeping(q, B))
  BY <1>1, <1>3, KeepingFacts
<1>6. {q[p] : p \in A} \cap {q[p] : p \in B} = {}
  BY <1>1, <1>3 DEF Distinct
<1>7. {q[p] : p \in A} \cup {q[p] : p \in B} = Range(q)
  BY <1>3 DEF Range
<1>8. /\ moveToTailUpdater(q, ids) \in Seq(Rows) /\ Distinct(moveToTailUpdater(q, ids))
      /\ Range(moveToTailUpdater(q, ids)) = Range(Keeping(q, A)) \cup Range(Keeping(q, B))
  <2>1. PICK a : a = Keeping(q, A)
    OBVIOUS
  <2>2. PICK b : b = Keeping(q, B)
    OBVIOUS
  <2>3. /\ a \in Seq(Rows) /\ Distinct(a) /\ b \in Seq(Rows) /\ Distinct(b)
        /\ Range(a) \cap Range(b) = {}
    BY <1>4, <1>5, <1>6, <2>1, <2>2
  <2>4. a \o b \in Seq(Rows) /\ Distinct(a \o b) /\ Range(a \o b) = Range(a) \cup Range(b)
    BY <2>3, ConcatFacts
  <2> QED BY <1>2, <2>1, <2>2, <2>4
<1> QED BY <1>1, <1>4, <1>5, <1>7, <1>8 DEF Neat

(* How many rows of the user there are.                                     *)
LEMMA CountFacts ==
  ASSUME NEW q, Neat(q)
  PROVE  /\ Len(UserEntries(q)) \in Nat
         /\ Len(UserEntries(q)) = Cardinality({k \in DOMAIN q : q[k].status \in UserStatuses})
         /\ Len(UserEntries(q)) = Cardinality({r \in Range(q) : r.status \in UserStatuses})
PROOF
<1> DEFINE P == {k \in DOMAIN q : q[k].status \in UserStatuses}
           s == Keeping(q, P)
<1>1. q \in Seq(Rows) /\ Distinct(q) /\ Lone(Range(q))
  BY DEF Neat
<1>2. \A k \in DOMAIN q : q[k] \in Rows /\ (isUserEntry(q[k]) <=> q[k].status \in UserStatuses)
  <2>1. \A k \in DOMAIN q : q[k] \in Rows
    BY <1>1, SeqFacts
  <2>2. \A r \in Rows : r.status \in Statuses
    BY DEF Rows
  <2> QED BY <2>1, <2>2, FamilyFacts DEF isUserEntry
<1>3. {k \in DOMAIN q : isUserEntry(q[k])} = P
  BY <1>2
<1>4. UserEntries(q) = s
  BY <1>3 DEF UserEntries
<1>5. /\ s \in Seq(Rows) /\ Range(s) = {q[p] : p \in P}
      /\ Distinct(s) /\ Len(s) = Cardinality(P)
  BY <1>1, KeepingFacts
<1>6. {q[p] : p \in P} = {r \in Range(q) : r.status \in UserStatuses}
  BY DEF Range
<1> HIDE DEF s
<1>7. Len(s) \in Nat /\ DOMAIN s = 1..Len(s)
  BY <1>5
<1>8. ExistsBijection(1..Len(s), Range(s))
  <2>1. s \in [1..Len(s) -> Range(s)]
    <3>0. s \in Seq(Rows)
      BY <1>5
    <3>1. s \in [1..Len(s) -> Rows]
      BY <3>0
    <3>2. \A m \in 1..Len(s) : s[m] \in Range(s)
      BY <1>7 DEF Range
    <3> QED BY <3>1, <3>2
  <2>2. s \in Injection(1..Len(s), Range(s))
    BY <1>5, <1>7, <2>1 DEF Injection, IsInjective, Distinct
  <2>3. s \in Surjection(1..Len(s), Range(s))
    BY <1>7, <2>1 DEF Surjection, Range
  <2> QED BY <2>2, <2>3 DEF ExistsBijection, Bijection
<1>9. Cardinality(Range(s)) = Len(s)
  BY <1>7, <1>8, FS_CountingElements
<1> QED BY <1>4, <1>5, <1>6, <1>7, <1>9

(* If the user does not see a difference, there are as many rows as before. *)
LEMMA SameFacing ==
  ASSUME NEW q, Neat(q), NEW p, Neat(p), ~userFacingDiffers(q, p)
  PROVE  Len(UserEntries(q)) = Len(UserEntries(p))
PROOF
<1>1. /\ UserEntries(q) \in Seq(Rows) /\ UserEntries(p) \in Seq(Rows)
      /\ DOMAIN UserEntries(q) = 1..Len(UserEntries(q))
      /\ DOMAIN UserEntries(p) = 1..Len(UserEntries(p))
  <2>1. q \in Seq(Rows) /\ p \in Seq(Rows)
    BY DEF Neat
  <2>2. UserEntries(q) \in Seq(Rows) /\ UserEntries(p) \in Seq(Rows)
    BY <2>1, KeepingFacts DEF UserEntries
  <2> HIDE DEF UserEntries
  <2> QED BY <2>2, SeqFacts
<1>2. DOMAIN UserFacing(q) = DOMAIN UserEntries(q) /\ DOMAIN UserFacing(p) = DOMAIN UserEntries(p)
  BY DEF UserFacing
<1>3. UserFacing(q) = UserFacing(p)
  BY DEF userFacingDiffers
<1>4. 1..Len(UserEntries(q)) = 1..Len(UserEntries(p))
  BY <1>1, <1>2, <1>3
<1>5. Len(UserEntries(q)) \in Nat /\ Len(UserEntries(p)) \in Nat
  BY <1>1
<1> HIDE DEF UserEntries
<1> QED BY <1>4, <1>5

-----------------------------------------------------------------------------
(* What an event, an announcement and a push change about an item           *)

Tells(r, i, op) == r.fresh /\ KeyOf(r) = TagId(i, op) /\ r.status = TagFor(op)

(* The event is announced, and nothing else is.                             *)
Expected(q, i, op) ==
  /\ \E r \in FreshTags(q, i) : Tells(r, i, op)
  /\ \A r \in FreshTags(q, i) : Tells(r, i, op)
  /\ i \in Lists /\ op = "created" => ExactTag(q, i) = {}

(* The status of the user row after an edit that is recorded.               *)
After(op, s) ==
  LET n == decideUserStatus(op, s)
  IN IF n = "skip" THEN s ELSE IF n = "drop" THEN NoStatus ELSE n

LEMMA OnlyAbout ==
  ASSUME NEW q, NEW p, NEW i \in Items,
         \A r \in Range(q) : r \notin Range(p) => KeyOf(r) \in Ids(i),
         \A r \in Range(p) : r \notin Range(q) => KeyOf(r) \in Ids(i)
  PROVE  \A j \in Items : j # i => About(p, j) = About(q, j)
PROOF
<1>1. ASSUME NEW j \in Items, j # i, NEW r, KeyOf(r) \in Ids(j)
      PROVE  r \in Range(p) <=> r \in Range(q)
  <2>1. KeyOf(r) \notin Ids(i)
    BY <1>1, IdsApart
  <2> QED BY <2>1
<1> QED BY <1>1 DEF About

LEMMA TagForFacts ==
  ASSUME NEW op \in Ops
  PROVE  /\ TagFor(op) \in SERVER_TAG_STATUSES /\ OP_FOR_TAG[TagFor(op)] = op
         /\ \A s \in SERVER_TAG_STATUSES : OP_FOR_TAG[s] = op => s = TagFor(op)
PROOF
<1>1. /\ OP_FOR_TAG["added_by_server"] = "created"
      /\ OP_FOR_TAG["modified_by_server"] = "updated"
      /\ OP_FOR_TAG["deleted_by_server"] = "deleted"
  BY DEF OP_FOR_TAG
<1>2. \E s \in SERVER_TAG_STATUSES : OP_FOR_TAG[s] = op
  BY <1>1 DEF SERVER_TAG_STATUSES, Ops
<1>3. TagFor(op) \in SERVER_TAG_STATUSES /\ OP_FOR_TAG[TagFor(op)] = op
  BY <1>2 DEF TagFor
<1>4. \A s, t \in SERVER_TAG_STATUSES : OP_FOR_TAG[s] = OP_FOR_TAG[t] => s = t
  BY <1>1 DEF SERVER_TAG_STATUSES
<1> QED BY <1>3, <1>4

LEMMA NextFacts ==
  ASSUME NEW op \in Ops, NEW s \in UserStatuses \cup {NoStatus}
  PROVE  /\ decideUserStatus(op, s) \in UserStatuses \cup {"skip", "drop"}
         /\ "skip" \notin UserStatuses /\ "drop" \notin UserStatuses
PROOF
  BY DEF Ops, decideUserStatus, UserStatuses, NoStatus

(* An edit of the user changes no announcement.                             *)
LEMMA TransitionFacts ==
  ASSUME NEW q, Neat(q), NEW i \in Items, NEW op \in Ops,
         NEW s, s = UserStatus(q, Id(i)),
         NEW p, p = applyUserTransition(q, Id(i), op, s)
  PROVE  /\ Neat(p)
         /\ \A r \in Range(p) : r \notin Range(q) =>
              KeyOf(r) = Id(i) /\ ~r.fresh /\ r.status \in UserStatuses
         /\ \A r \in Range(q) : r \notin Range(p) =>
              KeyOf(r) = Id(i) /\ r.status \notin SERVER_TAG_STATUSES
         /\ UserStatus(p, Id(i)) = After(op, s)
PROOF
<1> DEFINE n == decideUserStatus(op, s)
           a == Drop(q, Id(i), BY_USER)
           b == dropSendMailOnDelete(a, Id(i), op)
<1>1. /\ Id(i) \in IdSet /\ s \in UserStatuses \cup {NoStatus}
      /\ n \in UserStatuses \cup {"skip", "drop"}
      /\ "skip" \notin UserStatuses /\ "drop" \notin UserStatuses
  BY IdFacts, StatusFacts, NextFacts
<1>2. \A r \in Range(q) : r \in Rows
  BY SeqFacts DEF Neat
<1>3. Neat(a) /\ Range(a) = {r \in Range(q) : ~sameRow(r, Id(i), BY_USER)}
  BY DropFacts
<1> HIDE DEF n, a
<1>4. b = a \/ b = Drop(a, Id(i), FOR_SENDMAIL)
  BY DEF dropSendMailOnDelete, removeSendMailUpdater
<1>5. /\ Neat(b)
      /\ Range(b) = Range(a) \/ Range(b) = {r \in Range(a) : ~sameRow(r, Id(i), FOR_SENDMAIL)}
  BY <1>3, <1>4, DropFacts
<1>6. p = IF n = "skip" THEN q
          ELSE IF n = "drop" THEN b ELSE Append(b, Row(Id(i), n, FALSE, NoDetail))
  BY DEF applyUserTransition, Restated, n, a
<1>7. After(op, s) = IF n = "skip" THEN s ELSE IF n = "drop" THEN NoStatus ELSE n
  BY DEF After, n
<1> HIDE DEF b
<1>8. Range(b) \subseteq Range(q)
  BY <1>3, <1>5
<1>9. ASSUME NEW r \in Range(q), r \notin Range(b)
      PROVE  KeyOf(r) = Id(i) /\ r.status \notin SERVER_TAG_STATUSES
  <2>1. sameRow(r, Id(i), BY_USER) \/ sameRow(r, Id(i), FOR_SENDMAIL)
    BY <1>3, <1>5, <1>9
  <2>2. KeyOf(r) = Id(i) /\ familyOf(r.status) \in {BY_USER, FOR_SENDMAIL} /\ r.status \in Statuses
    BY <1>1, <1>2, <2>1, RowFacts
  <2>3. familyOf(r.status) # BY_SERVER
    BY <2>2 DEF BY_USER, BY_SERVER, FOR_SENDMAIL
  <2> QED BY <2>2, <2>3, FamilyFacts
<1>10. \A r \in Range(b) : ~(KeyOf(r) = Id(i) /\ r.status \in UserStatuses)
  <2>1. \A r \in Range(b) : r \in Range(q) /\ ~sameRow(r, Id(i), BY_USER)
    BY <1>3, <1>5
  <2> QED BY <1>1, <1>2, <2>1, RowFacts
<1>11. CASE n = "skip"
  BY <1>6, <1>7, <1>11
<1>12. CASE n = "drop"
  <2>1. p = b /\ After(op, s) = NoStatus
    BY <1>6, <1>7, <1>12
  <2>2. UserStatus(b, Id(i)) = NoStatus
    BY <1>1, <1>5, <1>10, StatusFacts
  <2> QED BY <1>5, <1>8, <1>9, <2>1, <2>2
<1>13. CASE n \in UserStatuses
  <2> DEFINE r0 == Row(Id(i), n, FALSE, NoDetail)
  <2>1. p = Append(b, r0) /\ After(op, s) = n
    BY <1>1, <1>6, <1>7, <1>13
  <2>2. n \in Statuses
    BY <1>13 DEF Statuses
  <2>3. r0 \in Rows /\ KeyOf(r0) = Id(i) /\ r0.status = n /\ r0.fresh = FALSE
    BY <1>1, <2>2, RowMade
  <2> HIDE DEF r0
  <2>4. ASSUME NEW r \in Range(b), SameKey(r, r0) PROVE FALSE
    <3>1. r \in Rows /\ r.status \in Statuses
      BY <1>2, <1>8 DEF Rows
    <3>2. KeyOf(r) = Id(i) /\ familyOf(r.status) = BY_USER
      BY <1>13, <2>2, <2>3, <2>4, FamilyFacts DEF SameKey
    <3> QED BY <1>10, <3>1, <3>2, FamilyFacts
  <2>5. Neat(p) /\ Range(p) = Range(b) \cup {r0}
    BY <1>5, <2>1, <2>3, <2>4, AddFacts
  <2>6. UserStatus(p, Id(i)) = n
    <3>1. r0 \in Range(p) /\ KeyOf(r0) = Id(i) /\ r0.status \in UserStatuses
      BY <1>13, <2>3, <2>5
    <3>2. UserStatus(p, Id(i)) = r0.status
      BY <1>1, <2>5, <3>1, StatusFacts
    <3> QED BY <2>3, <3>2
  <2> QED BY <1>8, <1>9, <1>13, <2>1, <2>3, <2>5, <2>6
<1> QED BY <1>1, <1>11, <1>12, <1>13

(* A pre-tag that is taken out.                                             *)
LEMMA UntagFacts ==
  ASSUME NEW q, Neat(q), FreshOnes(q), NEW i \in Items, NEW k \in DOMAIN q,
         KeyOf(q[k]) \in Ids(i), q[k].status \in SERVER_TAG_STATUSES,
         NEW p, p = RemoveAt(q, k)
  PROVE  /\ Neat(p) /\ FreshOnes(p) /\ Range(p) = Range(q) \ {q[k]}
         /\ \A j \in Items : j # i => About(p, j) = About(q, j)
         /\ FreshTags(p, i) = FreshTags(q, i) \ {q[k]}
         /\ ExactTag(p, i) \in SUBSET ExactTag(q, i)
         /\ UserStatus(p, Id(i)) = UserStatus(q, Id(i))
         /\ Len(UserEntries(p)) = Len(UserEntries(q))
PROOF
<1>1. Neat(p) /\ Range(p) = Range(q) \ {q[k]}
  BY TakeFacts
<1>2. q[k].status \notin UserStatuses
  BY DEF UserStatuses, SERVER_TAG_STATUSES
<1>3. \A j \in Items : j # i => About(p, j) = About(q, j)
  BY <1>1, OnlyAbout
<1>4. UserRows(p, i) = UserRows(q, i)
  BY <1>1, <1>2 DEF UserRows, About
<1>5. UserStatus(p, Id(i)) = UserStatus(q, Id(i))
  BY <1>1, <1>4, SameStatus
<1>6. {r \in Range(p) : r.status \in UserStatuses} = {r \in Range(q) : r.status \in UserStatuses}
  BY <1>1, <1>2
<1>7. Len(UserEntries(p)) = Len(UserEntries(q))
  BY <1>1, <1>6, CountFacts
<1>8. FreshTags(p, i) = FreshTags(q, i) \ {q[k]} /\ ExactTag(p, i) \in SUBSET ExactTag(q, i)
  BY <1>1 DEF FreshTags, ExactTag, About
<1> QED BY <1>1, <1>3, <1>5, <1>7, <1>8 DEF FreshOnes

LEMMA TagPlace ==
  ASSUME NEW q, Neat(q), NEW i \in Items, NEW op,
         NEW k, k = findConsumableServerTag(q, Id(i), op), k # 0
  PROVE  /\ k \in DOMAIN q /\ KeyOf(q[k]) = Id(i) /\ KeyOf(q[k]) \in Ids(i)
         /\ q[k].status \in SERVER_TAG_STATUSES /\ OP_FOR_TAG[q[k].status] = op
PROOF
<1>1. q \in Seq(Rows) /\ \A m \in DOMAIN q : q[m] \in Rows
  BY SeqFacts DEF Neat
<1>2. Id(i) \in IdSet /\ Id(i) \in Ids(i)
  BY IdFacts, TagIdFacts DEF Ops
<1>3. k \in DOMAIN q /\ sameRow(q[k], Id(i), BY_SERVER) /\ OP_FOR_TAG[q[k].status] = op
  BY <1>1, ConsumableFacts
<1> QED BY <1>1, <1>2, <1>3, RowFacts

(* Of the rows that tell of an event there is one.                          *)
LEMMA OneTells ==
  ASSUME NEW q, Neat(q), NEW i \in Items, NEW op \in Ops, Expected(q, i, op),
         NEW r \in FreshTags(q, i)
  PROVE  Tells(r, i, op) /\ FreshTags(q, i) = {r}
PROOF
<1>1. \A s \in FreshTags(q, i) : Tells(s, i, op) /\ s \in Range(q) /\ s.status = TagFor(op)
  BY DEF Expected, FreshTags, About, Tells
<1>2. \A s \in FreshTags(q, i) : SameKey(r, s)
  BY <1>1 DEF SameKey, Tells
<1>3. \A s \in FreshTags(q, i) : r = s
  BY <1>1, <1>2 DEF Neat, Lone
<1> QED BY <1>1, <1>3

LEMMA EventFacts ==
  ASSUME NEW q, Neat(q), FreshOnes(q), NEW i \in Items, NEW op \in Ops,
         NEW p, p = applyEvent(q, Id(i), i, op)
  PROVE  /\ Neat(p) /\ FreshOnes(p)
         /\ \A j \in Items : j # i => About(p, j) = About(q, j)
         /\ ExactTag(p, i) \in SUBSET ExactTag(q, i)
         /\ FreshTags(p, i) \in SUBSET FreshTags(q, i)
         /\ FreshTags(q, i) = {} => UserStatus(p, Id(i)) = After(op, UserStatus(q, Id(i)))
         /\ Expected(q, i, op) /\ UserStatus(q, Id(i)) = NoStatus =>
              UserStatus(p, Id(i)) = NoStatus /\ FreshTags(p, i) = {}
PROOF
<1> DEFINE s == UserStatus(q, Id(i))
<1>0. PICK x : x = IndexOfRow(q, Id(i), BY_SERVER)
  OBVIOUS
<1>1. PICK y : y = NamedPlace(q, Id(i), i)
  OBVIOUS
<1>2. PICK n : n = IF Id(i).kind = "list" /\ op = "created" THEN y ELSE 0
  OBVIOUS
<1>3. q \in Seq(Rows) /\ Lone(Range(q)) /\ \A r \in Range(q) : r \in Rows
  BY SeqFacts DEF Neat
<1>4. /\ Id(i) \in IdSet /\ Id(i) \in Ids(i)
      /\ Id(i).kind = "list" => i \in Lists /\ Id(i).parent = Book
      /\ i \in Lists => Id(i).kind = "list" /\ Id(i).parent = Book
  BY IdFacts, TagIdFacts DEF Items
<1>5. /\ x \in DOMAIN q \cup {0} /\ 0 \notin DOMAIN q
      /\ x # 0 => sameRow(q[x], Id(i), BY_SERVER)
      /\ x = 0 => \A r \in Range(q) : ~sameRow(r, Id(i), BY_SERVER)
  BY <1>0, <1>3, IndexFacts
<1>6. /\ y \in DOMAIN q \cup {0}
      /\ y # 0 => AnnouncedByName(q[y], Id(i), i)
      /\ y = 0 => \A r \in Range(q) : ~AnnouncedByName(r, Id(i), i)
  BY <1>1, <1>3, NamedFacts
<1>7. \A k \in DOMAIN q : q[k] \in Range(q) /\ q[k] \in Rows
  BY <1>3 DEF Range
<1>8. ASSUME NEW r \in Range(q), i \in Lists
      PROVE  AnnouncedByName(r, Id(i), i) <=>
               r.fresh /\ r.status \in SERVER_TAG_STATUSES /\ KeyOf(r) = TagId(i, "created")
  <2>1. TagId(i, "created") = [parent |-> Book, item |-> i, kind |-> "list-by-name"]
    BY <1>8, TagIdFacts DEF Ops
  <2>2. r.status \in Statuses
    BY <1>3 DEF Rows
  <2>3. KeyOf(r) = TagId(i, "created") <=> r.parent = Book /\ r.item = i /\ r.kind = "list-by-name"
    BY <2>1 DEF KeyOf
  <2>4. familyOf(r.status) = BY_SERVER <=> r.status \in SERVER_TAG_STATUSES
    BY <2>2, FamilyFacts
  <2> QED BY <1>4, <1>8, <2>3, <2>4 DEF AnnouncedByName
<1>9. p = CASE x # 0 /\ q[x].fresh ->
                 IF OP_FOR_TAG[q[x].status] = op THEN RemoveAt(q, x) ELSE q
            [] x # 0 /\ ~q[x].fresh -> applyUserTransition(RemoveAt(q, x), Id(i), op, s)
            [] x = 0 /\ n # 0 -> RemoveAt(q, n)
            [] x = 0 /\ n = 0 -> applyUserTransition(q, Id(i), op, s)
  BY <1>0, <1>1, <1>2 DEF applyEvent, NamedPlace
<1>10. x # 0 => /\ KeyOf(q[x]) = Id(i) /\ q[x].status \in SERVER_TAG_STATUSES
                /\ q[x] \in ExactTag(q, i) /\ (q[x].fresh => q[x] \in FreshTags(q, i))
  BY <1>4, <1>5, <1>7, RowFacts DEF ExactTag, FreshTags, About
<1> HIDE DEF s
(* An event that no fresh row announces is the user's.                      *)
<1>11. ASSUME NEW w, Neat(w), FreshOnes(w), NEW t, t = applyUserTransition(w, Id(i), op, s),
              UserStatus(w, Id(i)) = s
       PROVE  /\ Neat(t) /\ FreshOnes(t) /\ UserStatus(t, Id(i)) = After(op, s)
              /\ \A j \in Items : j # i => About(t, j) = About(w, j)
              /\ FreshTags(t, i) \in SUBSET FreshTags(w, i)
              /\ ExactTag(t, i) \in SUBSET ExactTag(w, i)
  <2>1. /\ Neat(t)
        /\ \A r \in Range(t) : r \notin Range(w) =>
             KeyOf(r) = Id(i) /\ ~r.fresh /\ r.status \in UserStatuses
        /\ \A r \in Range(w) : r \notin Range(t) =>
             KeyOf(r) = Id(i) /\ r.status \notin SERVER_TAG_STATUSES
        /\ UserStatus(t, Id(i)) = After(op, s)
    BY <1>11, TransitionFacts
  <2>2. \A j \in Items : j # i => About(t, j) = About(w, j)
    BY <1>4, <2>1, OnlyAbout
  <2>3. UserStatuses \cap SERVER_TAG_STATUSES = {}
    BY DEF UserStatuses, SERVER_TAG_STATUSES
  <2>4. FreshTags(t, i) \in SUBSET FreshTags(w, i) /\ ExactTag(t, i) \in SUBSET ExactTag(w, i)
    BY <2>1, <2>3 DEF FreshTags, ExactTag, About
  <2>5. FreshOnes(t)
    BY <1>11, <2>1 DEF FreshOnes
  <2> QED BY <2>1, <2>2, <2>4, <2>5
<1>12. CASE x # 0 /\ q[x].fresh /\ OP_FOR_TAG[q[x].status] = op
  <2>1. p = RemoveAt(q, x) /\ x \in DOMAIN q /\ q[x] \in FreshTags(q, i)
    BY <1>5, <1>9, <1>10, <1>12
  <2>2. /\ Neat(p) /\ FreshOnes(p)
        /\ \A j \in Items : j # i => About(p, j) = About(q, j)
        /\ FreshTags(p, i) = FreshTags(q, i) \ {q[x]}
        /\ ExactTag(p, i) \in SUBSET ExactTag(q, i)
        /\ UserStatus(p, Id(i)) = UserStatus(q, Id(i))
    BY <1>4, <1>10, <1>12, <2>1, UntagFacts
  <2>3. Expected(q, i, op) => FreshTags(p, i) = {}
    BY <2>1, <2>2, OneTells
  <2> QED BY <2>1, <2>2, <2>3
<1>13. CASE x # 0 /\ q[x].fresh /\ OP_FOR_TAG[q[x].status] # op
  <2>1. p = q /\ q[x] \in FreshTags(q, i)
    BY <1>9, <1>10, <1>13
  <2>2. ~Expected(q, i, op)
    BY <1>13, <2>1, TagForFacts DEF Expected, Tells
  <2> QED BY <2>1, <2>2
<1>14. CASE x # 0 /\ ~q[x].fresh
  <2>0. x \in DOMAIN q
    BY <1>5, <1>14
  <2>1. PICK w : w = RemoveAt(q, x)
    OBVIOUS
  <2>2. /\ Neat(w) /\ FreshOnes(w)
        /\ \A j \in Items : j # i => About(w, j) = About(q, j)
        /\ FreshTags(w, i) = FreshTags(q, i) \ {q[x]}
        /\ ExactTag(w, i) \in SUBSET ExactTag(q, i)
        /\ UserStatus(w, Id(i)) = s
    BY <1>4, <1>10, <1>14, <2>0, <2>1, UntagFacts DEF s
  <2>3. p = applyUserTransition(w, Id(i), op, s)
    BY <1>9, <1>14, <2>1
  <2>4. /\ Neat(p) /\ FreshOnes(p) /\ UserStatus(p, Id(i)) = After(op, s)
        /\ \A j \in Items : j # i => About(p, j) = About(w, j)
        /\ FreshTags(p, i) \in SUBSET FreshTags(w, i)
        /\ ExactTag(p, i) \in SUBSET ExactTag(w, i)
    BY <1>11, <2>2, <2>3
  <2>5. ASSUME Expected(q, i, op) PROVE FALSE
    <3>1. PICK r \in FreshTags(q, i) : Tells(r, i, op)
      BY <2>5 DEF Expected
    <3>2. r \in Range(q) /\ r.status \in SERVER_TAG_STATUSES /\ r.fresh /\ KeyOf(r) = TagId(i, op)
      BY <3>1 DEF FreshTags, About, Tells
    <3>3. CASE i \in Lists /\ op = "created"
      BY <1>10, <1>14, <2>5, <3>3 DEF Expected
    <3>4. CASE ~(i \in Lists /\ op = "created")
      <4>1. KeyOf(r) = Id(i)
        BY <3>2, <3>4, TagIdFacts
      <4>2. familyOf(r.status) = BY_SERVER /\ familyOf(q[x].status) = BY_SERVER
        BY <1>10, <1>14, <3>2, FamilyFacts DEF Statuses
      <4>3. r = q[x]
        BY <1>3, <1>7, <1>10, <1>14, <2>0, <3>2, <4>1, <4>2 DEF Lone, SameKey
      <4> QED BY <1>14, <3>2, <4>3
    <3> QED BY <3>3, <3>4
  <2> QED BY <2>2, <2>4, <2>5 DEF s
<1>15. CASE x = 0 /\ n # 0
  <2>1. p = RemoveAt(q, n) /\ n = y /\ n \in DOMAIN q /\ i \in Lists /\ op = "created"
    BY <1>2, <1>4, <1>6, <1>9, <1>15
  <2>2. /\ q[n].fresh /\ q[n].status \in SERVER_TAG_STATUSES
        /\ KeyOf(q[n]) = TagId(i, "created") /\ q[n] \in Range(q)
    BY <1>6, <1>7, <1>8, <1>15, <2>1
  <2>3. KeyOf(q[n]) \in Ids(i)
    BY <2>2, TagIdFacts DEF Ops
  <2>4. /\ Neat(p) /\ FreshOnes(p)
        /\ \A j \in Items : j # i => About(p, j) = About(q, j)
        /\ FreshTags(p, i) = FreshTags(q, i) \ {q[n]}
        /\ ExactTag(p, i) \in SUBSET ExactTag(q, i)
        /\ UserStatus(p, Id(i)) = UserStatus(q, Id(i))
    BY <2>1, <2>2, <2>3, UntagFacts
  <2>5. q[n] \in FreshTags(q, i)
    BY <2>2, <2>3 DEF FreshTags, About
  <2>6. Expected(q, i, op) => FreshTags(p, i) = {}
    BY <2>4, <2>5, OneTells
  <2> QED BY <2>4, <2>5, <2>6
<1>16. CASE x = 0 /\ n = 0
  <2>1. p = applyUserTransition(q, Id(i), op, s)
    BY <1>9, <1>16
  <2>2. /\ Neat(p) /\ FreshOnes(p) /\ UserStatus(p, Id(i)) = After(op, s)
        /\ \A j \in Items : j # i => About(p, j) = About(q, j)
        /\ FreshTags(p, i) \in SUBSET FreshTags(q, i)
        /\ ExactTag(p, i) \in SUBSET ExactTag(q, i)
    BY <1>11, <2>1 DEF s
  <2>3. ASSUME Expected(q, i, op) PROVE FALSE
    <3>1. PICK r \in FreshTags(q, i) : Tells(r, i, op)
      BY <2>3 DEF Expected
    <3>2. r \in Range(q) /\ r.status \in SERVER_TAG_STATUSES /\ r.fresh /\ KeyOf(r) = TagId(i, op)
      BY <3>1 DEF FreshTags, About, Tells
    <3>3. CASE i \in Lists /\ op = "created"
      <4>1. y = 0
        BY <1>2, <1>4, <1>16, <3>3
      <4> QED BY <1>6, <1>8, <3>2, <3>3, <4>1
    <3>4. CASE ~(i \in Lists /\ op = "created")
      <4>1. KeyOf(r) = Id(i)
        BY <3>2, <3>4, TagIdFacts
      <4>2. sameRow(r, Id(i), BY_SERVER)
        BY <1>3, <1>4, <3>2, <4>1, RowFacts
      <4> QED BY <1>5, <1>16, <3>2, <4>2
    <3> QED BY <3>3, <3>4
  <2> QED BY <2>2, <2>3 DEF s
<1> QED BY <1>12, <1>13, <1>14, <1>15, <1>16

(* A write of the sync is announced.                                        *)
LEMMA MarkFacts ==
  ASSUME NEW q, Neat(q), FreshOnes(q), NEW i \in Items, NEW op \in Ops,
         NEW p, p = markServerWriteUpdater(q, TagId(i, op), TagFor(op))
  PROVE  /\ Neat(p) /\ FreshOnes(p)
         /\ \A j \in Items : j # i => About(p, j) = About(q, j)
         /\ i \in Lists /\ op = "created" =>
              /\ UserStatus(p, Id(i)) = UserStatus(q, Id(i))
              /\ ExactTag(p, i) = ExactTag(q, i)
         /\ ~(i \in Lists /\ op = "created") => UserStatus(p, Id(i)) = NoStatus
         /\ FreshTags(q, i) = {} /\ (i \in Lists /\ op = "created" => ExactTag(q, i) = {})
              => Expected(p, i, op)
PROOF
<1> DEFINE d == TagId(i, op)
           r0 == Row(d, TagFor(op), TRUE, NoDetail)
           a == Drop(q, d, BY_USER)
           b == Drop(a, d, BY_SERVER)
<1>1. /\ d \in IdSet /\ d \in Ids(i) /\ Id(i) \in Ids(i) /\ Id(i) \in IdSet
      /\ ~(i \in Lists /\ op = "created") => d = Id(i)
      /\ i \in Lists /\ op = "created" =>
           d = [parent |-> Book, item |-> i, kind |-> "list-by-name"]
  BY IdFacts, TagIdFacts
<1>2. /\ TagFor(op) \in SERVER_TAG_STATUSES /\ TagFor(op) \in Statuses
      /\ TagFor(op) \notin UserStatuses
  BY TagForFacts DEF Statuses, UserStatuses, SERVER_TAG_STATUSES
<1>3. r0 \in Rows /\ KeyOf(r0) = d /\ r0.status = TagFor(op) /\ r0.fresh = TRUE
  BY <1>1, <1>2, RowMade
<1>4. p = Append(b, r0)
  BY DEF markServerWriteUpdater
<1> HIDE DEF d
<1>5. /\ Neat(b)
      /\ Range(b) = {r \in {s \in Range(q) : ~sameRow(s, d, BY_USER)} : ~sameRow(r, d, BY_SERVER)}
  BY DropFacts
<1> HIDE DEF r0, a, b
<1>6. \A r \in Range(q) : r \in Rows /\ r.status \in Statuses
  <2>1. \A r \in Range(q) : r \in Rows
    BY SeqFacts DEF Neat
  <2> QED BY <2>1 DEF Rows
<1>7. ASSUME NEW r
      PROVE  r \in Range(b) <=> /\ r \in Range(q)
                                /\ ~(KeyOf(r) = d /\ r.status \in UserStatuses \cup SERVER_TAG_STATUSES)
  BY <1>1, <1>5, <1>6, RowFacts
<1>8. ASSUME NEW r \in Range(b), SameKey(r, r0) PROVE FALSE
  <2>1. r \in Range(q) /\ r.status \in Statuses /\ familyOf(r.status) = BY_SERVER /\ KeyOf(r) = d
    BY <1>2, <1>3, <1>6, <1>7, <1>8, FamilyFacts DEF SameKey
  <2> QED BY <1>7, <2>1, FamilyFacts
<1>9. Neat(p) /\ Range(p) = Range(b) \cup {r0}
  BY <1>3, <1>4, <1>5, <1>8, AddFacts
<1>10. \A j \in Items : j # i => About(p, j) = About(q, j)
  <2>1. \A r \in Range(q) : r \notin Range(p) => KeyOf(r) \in Ids(i)
    BY <1>1, <1>7, <1>9
  <2>2. \A r \in Range(p) : r \notin Range(q) => KeyOf(r) \in Ids(i)
    BY <1>1, <1>3, <1>7, <1>9
  <2> QED BY <2>1, <2>2, OnlyAbout
<1>11. FreshOnes(p)
  BY <1>2, <1>3, <1>7, <1>9 DEF FreshOnes
<1>12. ASSUME i \in Lists /\ op = "created"
       PROVE  /\ UserStatus(p, Id(i)) = UserStatus(q, Id(i))
              /\ ExactTag(p, i) = ExactTag(q, i)
  <2>1. d # Id(i)
    <3>1. d = [parent |-> Book, item |-> i, kind |-> "list-by-name"]
      BY <1>1, <1>12
    <3>2. Id(i) = [parent |-> Book, item |-> i, kind |-> "list"]
      BY <1>12, IdFacts
    <3>3. d.kind = "list-by-name" /\ Id(i).kind = "list"
      BY <3>1, <3>2
    <3> QED BY <3>3
  <2>2. \A r : KeyOf(r) = Id(i) => (r \in Range(p) <=> r \in Range(q))
    BY <1>3, <1>7, <1>9, <2>1
  <2>3. UserRows(p, i) = UserRows(q, i) /\ ExactTag(p, i) = ExactTag(q, i)
    BY <2>2 DEF UserRows, ExactTag, About
  <2> QED BY <1>9, <2>3, SameStatus
<1>13. ASSUME ~(i \in Lists /\ op = "created") PROVE UserStatus(p, Id(i)) = NoStatus
  <2>1. d = Id(i)
    BY <1>1, <1>13
  <2>2. \A r \in Range(p) : ~(KeyOf(r) = Id(i) /\ r.status \in UserStatuses)
    BY <1>2, <1>3, <1>7, <1>9, <2>1
  <2> QED BY <1>1, <1>9, <2>2, StatusFacts
<1>14. ASSUME FreshTags(q, i) = {}, i \in Lists /\ op = "created" => ExactTag(q, i) = {}
       PROVE  Expected(p, i, op)
  <2>1. FreshTags(p, i) = {r0}
    BY <1>1, <1>2, <1>3, <1>7, <1>9, <1>14 DEF FreshTags, About
  <2>2. Tells(r0, i, op)
    BY <1>3 DEF Tells, d
  <2> QED BY <1>12, <1>14, <2>1, <2>2 DEF Expected
<1> QED BY <1>9, <1>10, <1>11, <1>12, <1>13, <1>14

(* A row is taken once it has been pushed.                                  *)
LEMMA RemoveFacts ==
  ASSUME NEW q, Neat(q), FreshOnes(q), NEW i \in Items, NEW p, p = removeEntryUpdater(q, Id(i))
  PROVE  /\ Neat(p) /\ FreshOnes(p)
         /\ \A j \in Items : j # i => About(p, j) = About(q, j)
         /\ FreshTags(p, i) = FreshTags(q, i) /\ ExactTag(p, i) = ExactTag(q, i)
         /\ UserStatus(p, Id(i)) = NoStatus
PROOF
<1>1. Id(i) \in IdSet /\ Id(i) \in Ids(i)
  BY IdFacts, TagIdFacts DEF Ops
<1>2. Neat(p) /\ Range(p) = {r \in Range(q) : ~sameRow(r, Id(i), BY_USER)}
  BY DropFacts DEF removeEntryUpdater
<1>3. \A r \in Range(q) : r \in Rows
  BY SeqFacts DEF Neat
<1>4. \A r : r \in Range(p) <=>
        r \in Range(q) /\ ~(KeyOf(r) = Id(i) /\ r.status \in UserStatuses)
  BY <1>1, <1>2, <1>3, RowFacts
<1>5. \A j \in Items : j # i => About(p, j) = About(q, j)
  BY <1>1, <1>4, OnlyAbout
<1>6. UserStatuses \cap SERVER_TAG_STATUSES = {}
  BY DEF UserStatuses, SERVER_TAG_STATUSES
<1>7. FreshTags(p, i) = FreshTags(q, i) /\ ExactTag(p, i) = ExactTag(q, i)
  BY <1>4, <1>6 DEF FreshTags, ExactTag, About
<1>8. UserStatus(p, Id(i)) = NoStatus
  BY <1>1, <1>2, <1>4, StatusFacts
<1>9. FreshOnes(p)
  BY <1>4 DEF FreshOnes
<1> QED BY <1>2, <1>5, <1>7, <1>8, <1>9

-----------------------------------------------------------------------------
(* The invariant                                                            *)

(* What an edit amounts to, and what is then queued of it: s is the status  *)
(* of the user row, cur what the book holds, b what both last agreed on.    *)
Right(s, cur, b) ==
  /\ cur = NoCard /\ b = NoCard => s = NoStatus
  /\ cur = NoCard /\ b # NoCard => s = "deleted_by_user"
  /\ cur # NoCard /\ b = NoCard => s = "added_by_user"
  /\ cur # NoCard /\ b # NoCard => s = "modified_by_user" \/ (s = NoStatus /\ cur = b)

St(i) == UserStatus(queue, Id(i))
Listed(i) == i \in Memberships => book[i[1]] # NoCard

(* The queue says of the item what the user did to it.                      *)
Clean(i) ==
  /\ Listed(i) => Right(St(i), book[i], base[i])
  /\ i \notin mine => St(i) = NoStatus

Busy(h, i) == handler[h].at # "idle" /\ handler[h].item = i

(* What a handler may be at, and what it has read.                          *)
Sane(h, i) ==
  /\ handler[h].op = "deleted" <=> book[i] = NoCard
  /\ i \in Contacts =>
       /\ handler[h].at \in {"ghostGate", "setHash"} =>
            handler[h].seen = book[i] /\ handler[h].op # "deleted"
       /\ handler[h].at \in {"consumeServerTag", "recordEvent", "count"} =>
            hashes[i] = book[i]
       /\ handler[h].at = "consumeServerTag" => handler[h].op = "updated"
       /\ handler[h].at = "dropHash" => handler[h].op = "deleted"
  /\ i \notin Contacts => handler[h].at \in {"start", "recordEvent", "count"}

(* A handler has an edit of the user, which it will record;                 *)
Own(h, i) ==
  /\ FreshTags(queue, i) = {} /\ i \in mine
  /\ Listed(i) => Right(After(handler[h].op, St(i)), book[i], base[i])
  /\ handler[h].at \in {"start", "ghostGate", "setHash", "dropHash", "recordEvent"}
  /\ i \in Contacts /\ handler[h].op = "updated" /\ handler[h].at \in {"start", "ghostGate"}
       => hashes[i] # book[i]

(* or a write of the sync, with its announcement still there;               *)
OfSync(h, i) ==
  /\ Expected(queue, i, handler[h].op)
  /\ base[i] = book[i] /\ St(i) = NoStatus /\ handler[h].at # "count"

(* or a ghost, which it will discard;                                       *)
AGhost(h, i) ==
  /\ FreshTags(queue, i) = {} /\ i \in Contacts
  /\ handler[h].op = "updated" /\ hashes[i] = book[i] /\ Clean(i)
  /\ handler[h].at \in {"start", "ghostGate", "consumeServerTag"}

(* or is done but for the count;                                            *)
Counting(h, i) ==
  FreshTags(queue, i) = {} /\ Clean(i) /\ handler[h].at = "count"

(* or has the fall of a membership with its list, which it will drop.       *)
Dropped(h, i) ==
  /\ FreshTags(queue, i) = {} /\ (i \notin mine => St(i) = NoStatus)
  /\ ~Listed(i) /\ handler[h].at = "start"

AtWork(i) == Synced(i) /\ sync.at # "report"

Hears(i) ==
  \A h \in Slots : Busy(h, i) =>
    /\ ~AtWork(i)
    /\ \A g \in Slots : Busy(g, i) => g = h
    /\ Sane(h, i)
    /\ Own(h, i) \/ OfSync(h, i) \/ AGhost(h, i) \/ Counting(h, i) \/ Dropped(h, i)

Rests(i) ==
  (\A h \in Slots : ~Busy(h, i)) =>
    /\ i \in Contacts => hashes[i] = book[i]
    /\ ~(Synced(i) /\ sync.at \in {"write", "remove"}) => Clean(i)

Syncs(i) ==
  AtWork(i) =>
    /\ sync.at \in {"markServerWrite", "send", "remove", "moveToTail"} =>
         FreshTags(queue, i) = {}
    /\ sync.at \in {"markServerWrite", "write"} =>
         /\ sync.op = OpOf(book[i], sync.card)
         /\ i \in Lists /\ sync.op = "created" => i \notin born
    /\ sync.at \in {"send", "remove", "moveToTail"} => sync.card = book[i]
    /\ sync.at = "remove" => base[i] = book[i]
    /\ sync.at = "write" =>
         /\ Expected(queue, i, sync.op) /\ St(i) = NoStatus
         /\ ~sync.covers => Clean(i)

Good(i) == Hears(i) /\ Rests(i) /\ Syncs(i)
Fine == \A i \in Items \ excused : Good(i)

(* Of a list that never was nothing is known, nor of its members.           *)
UnbornList(i) ==
  /\ book[i] # NoCard => i \in born
  /\ i \notin born =>
       /\ base[i] = NoCard /\ \A h \in Slots : ~Busy(h, i)
       /\ St(i) = NoStatus /\ ExactTag(queue, i) = {}
       /\ Synced(i) => \/ sync.at = "report"
                       \/ sync.at \in {"markServerWrite", "write"} /\ sync.op = "created"
UnbornMember(i) ==
  i[1] \notin born =>
    /\ book[i] = NoCard /\ base[i] = NoCard /\ i \notin mine
    /\ \A h \in Slots : ~Busy(h, i)
    /\ ~Synced(i) /\ St(i) = NoStatus /\ FreshTags(queue, i) = {}
Unborn == /\ \A i \in Lists : UnbornList(i)
          /\ \A i \in Memberships : UnbornMember(i)

(* A list that is sent as gone does not come back.                          *)
Gone ==
  sync.at = "send" /\ sync.item \in Lists /\ sync.card = NoCard
    => book[sync.item] = NoCard

(* What the types need besides TypeOK.                                      *)
Filled(store) == \A i \in Items : store[i] \in Contents(i)
Sound ==
  /\ Filled(book) /\ Filled(server) /\ Closed(book)
  /\ sync.at # "idle" => sync.card \in Contents(sync.item)
  /\ sync.at \in {"markServerWrite", "write"} => (sync.op = "deleted" <=> sync.card = NoCard)
  /\ FreshOnes(queue)

(* The badge is right, or somebody will still paint it.                     *)
BadgeInv ==
  \/ badge = localChanges
  \/ sync.at # "idle"
  \/ \E h \in Slots : handler[h].at = "count"

-----------------------------------------------------------------------------
(* Types                                                                    *)

Awaits == {"idle", "start", "ghostGate", "consumeServerTag", "setHash", "dropHash",
            "recordEvent", "count"}
HandlerRec == [at : Awaits, op : Ops, item : Items, seen : Cards \cup {NoCard}]
SyncRec == [at : {"idle", "markServerWrite", "write", "send", "remove", "moveToTail", "report"},
            op : Ops, item : Items, card : Cards \cup {NoCard, Member}, covers : BOOLEAN]
Stores == [Items -> Cards \cup {NoCard, Member}]

(* TypeOK, with its parts named.                                            *)
Typed ==
  /\ book \in Stores /\ server \in Stores /\ base \in Stores
  /\ Neat(queue)
  /\ hashes \in [Contacts -> Cards \cup {NoCard}]
  /\ writes \in Seq(Slots \cup {SyncWriter})
  /\ handler \in [Slots -> HandlerRec]
  /\ sync \in SyncRec
  /\ badge \in Nat
  /\ edits \in 0..MaxEdits /\ serverEdits \in 0..MaxServerEdits
  /\ mine \in SUBSET Items /\ excused \in SUBSET Items /\ born \in SUBSET Lists

LEMMA TypedIs == TypeOK <=> Typed
PROOF
<1> DEFINE Q == \A j, k \in DOMAIN queue :
       (/\ queue[j].parent = queue[k].parent /\ queue[j].item = queue[k].item
        /\ queue[j].kind = queue[k].kind
        /\ familyOf(queue[j].status) = familyOf(queue[k].status)) => j = k
<1>1. ASSUME queue \in Seq(Rows) PROVE Q <=> OneEach(queue)
  <2>1. ASSUME NEW j \in DOMAIN queue, NEW k \in DOMAIN queue
        PROVE  SameKey(queue[j], queue[k]) <=>
                 /\ queue[j].parent = queue[k].parent /\ queue[j].item = queue[k].item
                 /\ queue[j].kind = queue[k].kind
                 /\ familyOf(queue[j].status) = familyOf(queue[k].status)
    BY DEF SameKey, KeyOf
  <2> QED BY <2>1 DEF OneEach
<1>2. queue \in Seq(Rows) /\ Q <=> Neat(queue)
  <2>1. ASSUME queue \in Seq(Rows) PROVE Q <=> Neat(queue)
    BY <1>1, <2>1, NeatIs
  <2>2. Neat(queue) => queue \in Seq(Rows)
    BY DEF Neat
  <2> QED BY <2>1, <2>2
<1> HIDE DEF Q
<1>3. TypeOK <=>
        /\ {book, server, base} \subseteq Stores
        /\ queue \in Seq(Rows) /\ Q
        /\ hashes \in [Contacts -> Cards \cup {NoCard}]
        /\ writes \in Seq(Slots \cup {SyncWriter})
        /\ handler \in [Slots -> HandlerRec]
        /\ sync \in SyncRec
        /\ badge \in Nat
        /\ edits \in 0..MaxEdits /\ serverEdits \in 0..MaxServerEdits
        /\ {mine, excused} \subseteq SUBSET Items /\ born \subseteq Lists
  BY Zenon DEF TypeOK, Stores, HandlerRec, SyncRec, Awaits, Q
<1> QED BY <1>2, <1>3 DEF Typed

LEMMA ItemKinds ==
  /\ Contacts \subseteq Items /\ Lists \subseteq Items /\ Memberships \subseteq Items
  /\ \A i \in Items : i \in Contacts \/ i \in Lists \/ i \in Memberships
  /\ \A i \in Contacts : i \notin Lists /\ i \notin Memberships
  /\ \A i \in Lists : i \notin Contacts /\ i \notin Memberships
  /\ \A i \in Memberships : /\ i \notin Contacts /\ i \notin Lists
                            /\ i[1] \in Lists /\ i[2] \in Contacts
  /\ NoItem \in Items
PROOF
<1>1. NoItem \in Items
  BY ObserverAssumption DEF NoItem
<1> QED BY <1>1, ObserverAssumption DEF Items

LEMMA OpOfFacts ==
  ASSUME NEW x, NEW y
  PROVE  /\ OpOf(x, y) \in Ops
         /\ OpOf(x, y) = "deleted" <=> y = NoCard
         /\ OpOf(x, y) = "created" <=> y # NoCard /\ x = NoCard
         /\ OpOf(x, y) = "updated" <=> y # NoCard /\ x # NoCard
PROOF
  BY DEF OpOf, Ops

-----------------------------------------------------------------------------
(* What a write does to a store                                             *)

(* With its last case named: the membership j falls with i.                 *)
Falls(i, card, j) == card = NoCard /\ j \in Memberships /\ (i = j[1] \/ i = j[2])

LEMMA WithIs ==
  ASSUME NEW s, NEW i \in Items, NEW card, NEW j \in Items
  PROVE  /\ With(s, i, card)[i] = card
         /\ j # i /\ ~Falls(i, card, j) => With(s, i, card)[j] = s[j]
         /\ j # i /\ Falls(i, card, j) => With(s, i, card)[j] = NoCard
         /\ j \notin Memberships /\ j # i => With(s, i, card)[j] = s[j]
PROOF
<1>1. With(s, i, card)[j] = IF j = i THEN card ELSE IF Falls(i, card, j) THEN NoCard ELSE s[j]
  BY DEF With, Falls
<1>2. With(s, i, card)[i] = card
  BY DEF With
<1>3. j \notin Memberships => ~Falls(i, card, j)
  BY DEF Falls
<1> QED BY <1>1, <1>2, <1>3

LEMMA WithFalls ==
  ASSUME NEW s, NEW i \in Items, NEW card, NEW j \in Items, j # i, Falls(i, card, j)
  PROVE  With(s, i, card)[j] = NoCard
PROOF
  BY DEF With, Falls

LEMMA WithTyped ==
  ASSUME NEW s \in Stores, NEW i \in Items, NEW card \in Contents(i)
  PROVE  /\ With(s, i, card) \in Stores
         /\ Filled(s) => Filled(With(s, i, card))
PROOF
<1>1. card \in Cards \cup {NoCard, Member}
  BY DEF Contents
<1>2. ASSUME NEW j \in Items
      PROVE  /\ With(s, i, card)[j] \in Cards \cup {NoCard, Member}
             /\ Filled(s) => With(s, i, card)[j] \in Contents(j)
  <2>1. NoCard \in Contents(j)
    BY DEF Contents
  <2>2. s[j] \in Cards \cup {NoCard, Member}
    BY DEF Stores
  <2>3. \/ With(s, i, card)[j] = NoCard \/ With(s, i, card)[j] = s[j]
        \/ j = i /\ With(s, i, card)[j] = card
    BY WithIs
  <2> QED BY <1>1, <2>1, <2>2, <2>3 DEF Filled
<1>3. With(s, i, card) = [j \in Items |-> With(s, i, card)[j]]
  BY DEF With
<1> QED BY <1>2, <1>3 DEF Stores, Filled

(* A write that is possible, or of what is there, leaves no membership      *)
(* without its list and its contact.                                        *)
LEMMA WithClosed ==
  ASSUME NEW s, Closed(s), NEW i \in Items, NEW card,
         card = NoCard \/ s[i] # NoCard \/ Possible(s, i, card)
  PROVE  Closed(With(s, i, card))
PROOF
<1> SUFFICES ASSUME NEW m \in Memberships, With(s, i, card)[m] # NoCard
             PROVE  With(s, i, card)[m[1]] # NoCard /\ With(s, i, card)[m[2]] # NoCard
  BY DEF Closed
<1>1. /\ m \in Items /\ m[1] \in Items /\ m[2] \in Items
      /\ m[1] \notin Memberships /\ m[2] \notin Memberships
  BY ItemKinds
<1>2. s[m[1]] # NoCard /\ s[m[2]] # NoCard
  <2>1. CASE m = i
    <3>1. card # NoCard
      BY <1>1, <2>1, WithIs
    <3> QED BY <2>1, <3>1 DEF Possible, Closed
  <2>2. CASE m # i
    <3>1. s[m] # NoCard
      BY <1>1, <2>2, WithIs
    <3> QED BY <3>1 DEF Closed
  <2> QED BY <2>1, <2>2
<1>3. ASSUME NEW x \in {m[1], m[2]} PROVE With(s, i, card)[x] # NoCard
  <2>1. CASE x # i
    BY <1>1, <1>2, <2>1, WithIs
  <2>2. CASE x = i
    <3>1. m # i
      BY <1>1, <2>2
    <3>2. card # NoCard
      <4>1. i = m[1] \/ i = m[2]
        BY <1>3, <2>2
      <4>2. card = NoCard => Falls(i, card, m)
        BY <4>1 DEF Falls
      <4>3. m \in Items /\ m # i
        BY <1>1, <3>1
      <4>4. Falls(i, card, m) => With(s, i, card)[m] = NoCard
        BY <4>3, WithFalls
      <4> QED BY <4>2, <4>4
    <3> QED BY <1>1, <2>2, <3>2, WithIs
  <2> QED BY <2>1, <2>2
<1> QED BY <1>3

-----------------------------------------------------------------------------
(* What starts and ends handlers                                            *)

Begins(op, i) == [at |-> "start", op |-> op, item |-> i, seen |-> NoCard]
Event == [op : Ops, item : Items]

LEMMA IdleFacts == Idle \in HandlerRec /\ Idle.at = "idle"
PROOF
  BY ItemKinds DEF Idle, HandlerRec, Awaits, Ops

(* Every event gets a handler of its own; the others go on.                 *)
LEMMA FireFacts ==
  ASSUME handler \in [Slots -> HandlerRec], NEW E \in SUBSET Event, Fire(E)
  PROVE  /\ handler' \in [Slots -> HandlerRec]
         /\ \A h \in Slots : handler[h].at # "idle" => handler'[h] = handler[h]
         /\ \A h \in Slots : \/ handler'[h] = handler[h]
                             \/ \E e \in E : handler'[h] = Begins(e.op, e.item)
         /\ \A e \in E : \E h \in Slots :
              handler[h].at = "idle" /\ handler'[h] = Begins(e.op, e.item)
         /\ \A g, h \in Slots :
              (/\ handler[g].at = "idle" /\ handler'[g].at # "idle"
               /\ handler[h].at = "idle" /\ handler'[h].at # "idle"
               /\ handler'[g].item = handler'[h].item
               /\ \A e, f \in E : e.item = f.item => e = f) => g = h
PROOF
<1> DEFINE Free == Slots \ Live
<1>1. PICK start \in [E -> Free] :
        /\ \A e, f \in E : start[e] = start[f] => e = f
        /\ handler' = [h \in Slots |->
             IF \E e \in E : start[e] = h
             THEN LET e == CHOOSE e \in E : start[e] = h
                  IN [at |-> "start", op |-> e.op, item |-> e.item, seen |-> NoCard]
             ELSE handler[h]]
  BY DEF Fire
<1>2. \A h \in Slots : h \in Free <=> handler[h].at = "idle"
  BY DEF Live
<1>3. ASSUME NEW e \in E
      PROVE  start[e] \in Slots /\ handler'[start[e]] = Begins(e.op, e.item)
  <2>1. start[e] \in Slots
    BY <1>1
  <2>2. (CHOOSE f \in E : start[f] = start[e]) = e
    BY <1>1
  <2> QED BY <1>1, <2>1, <2>2 DEF Begins
<1>4. ASSUME NEW h \in Slots, ~\E e \in E : start[e] = h PROVE handler'[h] = handler[h]
  BY <1>1, <1>4
<1>5. \A e \in E : start[e] \in Free
  BY <1>1
<1>6. \A h \in Slots : handler'[h] = handler[h] \/ \E e \in E : start[e] = h
  BY <1>4
<1>7. \A e \in E : Begins(e.op, e.item) \in HandlerRec
                   /\ Begins(e.op, e.item).at = "start" /\ Begins(e.op, e.item).item = e.item
  BY DEF Event, Begins, HandlerRec, Awaits
<1>8. handler' \in [Slots -> HandlerRec]
  <2>1. \A h \in Slots : handler'[h] \in HandlerRec
    BY <1>3, <1>6, <1>7
  <2>2. \E f : handler' = [h \in Slots |-> f[h]]
    <3>1. handler' = [h \in Slots |-> handler'[h]]
      BY <1>1
    <3> QED BY <3>1
  <2> QED BY <2>1, <2>2
<1>9. ASSUME NEW g \in Slots, NEW h \in Slots,
             handler[g].at = "idle", handler'[g].at # "idle",
             handler[h].at = "idle", handler'[h].at # "idle",
             handler'[g].item = handler'[h].item,
             \A e, f \in E : e.item = f.item => e = f
      PROVE  g = h
  <2>1. handler'[g] # handler[g] /\ handler'[h] # handler[h]
    BY <1>9
  <2>2. PICK e \in E : start[e] = g
    BY <1>6, <2>1
  <2>3. PICK f \in E : start[f] = h
    BY <1>6, <2>1
  <2>4. e.item = f.item
    BY <1>3, <1>7, <1>9, <2>2, <2>3
  <2> QED BY <1>9, <2>2, <2>3, <2>4
<1> HIDE DEF Free
<1>10. \A h \in Slots : handler[h].at # "idle" => handler'[h] = handler[h]
  BY <1>2, <1>5, <1>6
<1>11. \A e \in E : \E h \in Slots :
         handler[h].at = "idle" /\ handler'[h] = Begins(e.op, e.item)
  BY <1>2, <1>3, <1>5
<1>12. \A h \in Slots : \/ handler'[h] = handler[h]
                        \/ \E e \in E : handler'[h] = Begins(e.op, e.item)
  BY <1>3, <1>6
<1> QED BY <1>8, <1>9, <1>10, <1>11, <1>12

(* The items an edit touches, each with its event.                          *)
Touched(i, card, j) == j = i \/ book[j] # With(book, i, card)[j]

LEMMA EditEvents ==
  ASSUME NEW i \in Items, NEW card
  PROVE  /\ EventsOf(i, card) \in SUBSET Event
         /\ \A e \in EventsOf(i, card) :
              /\ Touched(i, card, e.item)
              /\ e.op = OpOf(book[e.item], With(book, i, card)[e.item])
         /\ \A j \in Items : Touched(i, card, j) =>
              \E e \in EventsOf(i, card) : e.item = j
         /\ \A e, f \in EventsOf(i, card) : e.item = f.item => e = f
         /\ {e.item : e \in EventsOf(i, card)} = {j \in Items : Touched(i, card, j)}
PROOF
<1> DEFINE Ev(j) == [op |-> OpOf(book[j], With(book, i, card)[j]), item |-> j]
<1>1. EventsOf(i, card) = {Ev(j) : j \in {m \in Items : Touched(i, card, m)}}
  BY DEF EventsOf, Touched
<1>2. \A j \in Items : Ev(j) \in Event /\ Ev(j).item = j
                       /\ Ev(j).op = OpOf(book[j], With(book, i, card)[j])
  BY OpOfFacts DEF Event
<1> HIDE DEF Ev
<1> QED BY <1>1, <1>2

(* An edit gives each touched item a handler, the only one if it had none.  *)
LEMMA EditFires ==
  ASSUME handler \in [Slots -> HandlerRec], NEW i \in Items, NEW card,
         Fire(EventsOf(i, card))
  PROVE  /\ handler' \in [Slots -> HandlerRec]
         /\ \A h \in Slots : handler[h].at # "idle" => handler'[h] = handler[h]
         /\ \A h \in Slots : \A j \in Items :
              Busy(h, j)' /\ ~Busy(h, j) =>
                /\ Touched(i, card, j)
                /\ handler'[h] = Begins(OpOf(book[j], With(book, i, card)[j]), j)
         /\ \A j \in Items : Touched(i, card, j) /\ (\A h \in Slots : ~Busy(h, j)) =>
              \E h \in Slots : Busy(h, j)' /\ \A g \in Slots : Busy(g, j)' => g = h
PROOF
<1>1. EventsOf(i, card) \in SUBSET Event
  BY EditEvents
<1>2. /\ handler' \in [Slots -> HandlerRec]
      /\ \A h \in Slots : handler[h].at # "idle" => handler'[h] = handler[h]
      /\ \A h \in Slots : \/ handler'[h] = handler[h]
                          \/ \E e \in EventsOf(i, card) : handler'[h] = Begins(e.op, e.item)
      /\ \A e \in EventsOf(i, card) : \E h \in Slots :
           handler[h].at = "idle" /\ handler'[h] = Begins(e.op, e.item)
      /\ \A g, h \in Slots :
           (/\ handler[g].at = "idle" /\ handler'[g].at # "idle"
            /\ handler[h].at = "idle" /\ handler'[h].at # "idle"
            /\ handler'[g].item = handler'[h].item
            /\ \A e, f \in EventsOf(i, card) : e.item = f.item => e = f) => g = h
  BY <1>1, FireFacts
<1>3. \A e : Begins(e.op, e.item).at = "start" /\ Begins(e.op, e.item).item = e.item
  BY DEF Begins
<1>4. ASSUME NEW h \in Slots, NEW j \in Items, Busy(h, j)', ~Busy(h, j)
      PROVE  /\ Touched(i, card, j)
             /\ handler'[h] = Begins(OpOf(book[j], With(book, i, card)[j]), j)
  <2>1. handler'[h] # handler[h]
    BY <1>4 DEF Busy
  <2>2. PICK e \in EventsOf(i, card) : handler'[h] = Begins(e.op, e.item)
    BY <1>2, <2>1
  <2>3. e.item = j
    BY <1>3, <1>4, <2>2 DEF Busy
  <2> QED BY <2>2, <2>3, EditEvents
<1>5. ASSUME NEW j \in Items, Touched(i, card, j), \A h \in Slots : ~Busy(h, j)
      PROVE  \E h \in Slots : Busy(h, j)' /\ \A g \in Slots : Busy(g, j)' => g = h
  <2>1. PICK e \in EventsOf(i, card) : e.item = j
    BY <1>5, EditEvents
  <2>2. PICK h \in Slots : handler[h].at = "idle" /\ handler'[h] = Begins(e.op, e.item)
    BY <1>2
  <2>3. Busy(h, j)'
    BY <1>3, <2>1, <2>2 DEF Busy
  <2>4. ASSUME NEW g \in Slots, Busy(g, j)' PROVE g = h
    <3>1. handler[g].at = "idle"
      BY <1>2, <1>5, <2>4 DEF Busy
    <3> QED BY <1>2, <2>2, <2>3, <2>4, <3>1, EditEvents DEF Busy
  <2> QED BY <2>3, <2>4
<1> QED BY <1>2, <1>4, <1>5

(* A handler that goes on, or ends.                                         *)
LEMMA MoveFacts ==
  ASSUME handler \in [Slots -> HandlerRec], NEW h \in Slots, NEW r \in HandlerRec,
         handler' = [handler EXCEPT ![h] = r]
  PROVE  /\ handler' \in [Slots -> HandlerRec] /\ handler'[h] = r
         /\ \A g \in Slots : g # h => handler'[g] = handler[g]
PROOF
  OBVIOUS

LEMMA GotoFacts ==
  ASSUME handler \in [Slots -> HandlerRec], NEW h \in Slots, NEW at \in Awaits, Goto(h, at)
  PROVE  /\ handler' \in [Slots -> HandlerRec]
         /\ handler'[h] = [handler[h] EXCEPT !.at = at]
         /\ handler'[h].at = at /\ handler'[h].op = handler[h].op
         /\ handler'[h].item = handler[h].item /\ handler'[h].seen = handler[h].seen
         /\ \A g \in Slots : g # h => handler'[g] = handler[g]
PROOF
<1>1. PICK r : r = [handler[h] EXCEPT !.at = at]
  OBVIOUS
<1>2. handler[h] \in HandlerRec
  OBVIOUS
<1>3. /\ r \in HandlerRec /\ r.at = at /\ r.op = handler[h].op
      /\ r.item = handler[h].item /\ r.seen = handler[h].seen
  BY <1>1, <1>2 DEF HandlerRec
<1>4. handler' = [handler EXCEPT ![h] = r]
  BY <1>1 DEF Goto
<1>5. /\ handler' \in [Slots -> HandlerRec] /\ handler'[h] = r
      /\ \A g \in Slots : g # h => handler'[g] = handler[g]
  BY <1>3, <1>4, MoveFacts
<1> QED BY <1>1, <1>3, <1>5

LEMMA EndsFacts ==
  ASSUME handler \in [Slots -> HandlerRec], NEW h \in Slots, Ends(h)
  PROVE  /\ handler' \in [Slots -> HandlerRec]
         /\ handler'[h] = Idle /\ handler'[h].at = "idle"
         /\ \A g \in Slots : g # h => handler'[g] = handler[g]
PROOF
<1>1. handler' = [handler EXCEPT ![h] = Idle]
  BY DEF Ends
<1> QED BY <1>1, IdleFacts, MoveFacts

LEMMA TurnFacts ==
  ASSUME writes \in Seq(Slots \cup {SyncWriter}), NEW x \in Slots \cup {SyncWriter}
  PROVE  /\ Append(writes, x) \in Seq(Slots \cup {SyncWriter})
         /\ Turn(x) => Done \in Seq(Slots \cup {SyncWriter})
         /\ Turn(x) => Append(Done, x) \in Seq(Slots \cup {SyncWriter})
PROOF
<1>1. Append(writes, x) \in Seq(Slots \cup {SyncWriter})
  OBVIOUS
<1>2. ASSUME Turn(x) PROVE Done \in Seq(Slots \cup {SyncWriter})
  <2>1. writes # <<>>
    BY <1>2 DEF Turn
  <2> QED BY <2>1 DEF Done
<1> QED BY <1>1, <1>2

-----------------------------------------------------------------------------
(* Every step keeps the types                                               *)

TS == Typed /\ Sound

LEMMA TypedInit == Init => TS
PROOF
<1> SUFFICES ASSUME Init PROVE TS
  OBVIOUS
<1>1. /\ book \in [Items -> Cards \cup {NoCard, Member}] /\ Closed(book)
      /\ \A i \in Items : book[i] \in Contents(i)
      /\ server = book /\ base = book
  BY ObserverAssumption DEF Init
<1>2. queue = <<>> /\ Range(<<>>) = {} /\ DOMAIN <<>> = {}
  BY DEF Init, Range
<1>3. Neat(queue) /\ FreshOnes(queue)
  BY <1>2 DEF Neat, Distinct, Lone, FreshOnes
<1>4. hashes \in [Contacts -> Cards \cup {NoCard}]
  <2>1. \A i \in Contacts : book[i] \in Cards \cup {NoCard}
    BY <1>1, ItemKinds DEF Contents
  <2> QED BY <2>1 DEF Init
<1>5. handler \in [Slots -> HandlerRec]
  BY IdleFacts DEF Init
<1>6. sync \in SyncRec /\ sync.at = "idle"
  BY ItemKinds DEF Init, NoSync, SyncRec, Ops
<1>7. {MaxHandlers, MaxEdits, MaxServerEdits} \subseteq Nat
  BY ObserverAssumption
<1>8. writes \in Seq(Slots \cup {SyncWriter}) /\ badge \in Nat
      /\ edits \in 0..MaxEdits /\ serverEdits \in 0..MaxServerEdits
  BY <1>7 DEF Init
<1>9. mine \in SUBSET Items /\ excused \in SUBSET Items /\ born \in SUBSET Lists
  BY DEF Init
<1> QED BY <1>1, <1>3, <1>4, <1>5, <1>6, <1>8, <1>9 DEF TS, Typed, Sound, Filled, Stores

(* What a handler's step leaves alone.                                      *)
LEMMA HandlerStep ==
  ASSUME Typed, Filled(book), NEW h \in Slots, Step(h)
  PROVE  /\ UNCHANGED <<book, server, base, sync, edits, serverEdits, born, mine, excused>>
         /\ handler[h].at # "idle"
         /\ handler' \in [Slots -> HandlerRec]
         /\ \A g \in Slots : g # h => handler'[g] = handler[g]
         /\ \/ handler'[h].at = "idle"
            \/ handler'[h].item = handler[h].item /\ handler'[h].op = handler[h].op
PROOF
<1>0. handler \in [Slots -> HandlerRec] /\ handler[h] \in HandlerRec
  BY DEF Typed
<1>1. UNCHANGED <<book, server, base, sync, edits, serverEdits, born, mine, excused>>
  BY DEF Step, handle, ghostGate, consumeServerTag, storeHash, recordEvent, count
<1>2. handler[h].at # "idle"
  BY DEF Step, handle, ghostGate, consumeServerTag, storeHash, recordEvent, count
<1>3. \/ Ends(h)
      \/ \E at \in Awaits : Goto(h, at)
      \/ /\ handler' = [handler EXCEPT ![h].at = "ghostGate", ![h].seen = book[handler[h].item]]
         /\ handler[h].item \in Contacts
  <2>1. ASSUME handle(h)
        PROVE  \/ Ends(h) \/ Goto(h, "dropHash") \/ Goto(h, "recordEvent")
               \/ /\ handler' = [handler EXCEPT ![h].at = "ghostGate",
                                                ![h].seen = book[handler[h].item]]
                  /\ handler[h].item \in Contacts
    BY <2>1 DEF handle
  <2>2. ASSUME ghostGate(h) PROVE Goto(h, "consumeServerTag") \/ Goto(h, "setHash")
    BY <2>2 DEF ghostGate
  <2>3. ASSUME consumeServerTag(h) PROVE Ends(h)
    BY <2>3 DEF consumeServerTag
  <2>4. ASSUME storeHash(h) PROVE Goto(h, "recordEvent")
    BY <2>4 DEF storeHash
  <2>5. ASSUME recordEvent(h) PROVE Goto(h, "count") \/ Ends(h)
    BY <2>5 DEF recordEvent
  <2>6. ASSUME count(h) PROVE Ends(h)
    BY <2>6 DEF count
  <2>7. {"dropHash", "recordEvent", "consumeServerTag", "setHash", "count"} \subseteq Awaits
    BY DEF Awaits
  <2> QED BY <2>1, <2>2, <2>3, <2>4, <2>5, <2>6, <2>7 DEF Step
<1>4. CASE Ends(h)
  BY <1>0, <1>1, <1>2, <1>4, EndsFacts
<1>5. CASE \E at \in Awaits : Goto(h, at)
  BY <1>0, <1>1, <1>2, <1>5, GotoFacts
<1>6. CASE /\ handler' = [handler EXCEPT ![h].at = "ghostGate", ![h].seen = book[handler[h].item]]
           /\ handler[h].item \in Contacts
  <2>1. PICK r : r = [handler[h] EXCEPT !.at = "ghostGate", !.seen = book[handler[h].item]]
    OBVIOUS
  <2>2. handler' = [handler EXCEPT ![h] = r]
    BY <1>0, <1>6, <2>1
  <2>3. book[handler[h].item] \in Cards \cup {NoCard}
    BY <1>6, ItemKinds DEF Filled, Contents
  <2>4. r.item = handler[h].item /\ r.op = handler[h].op
    BY <1>0, <2>1 DEF HandlerRec
  <2>5. r \in HandlerRec
    BY <1>0, <2>1, <2>3 DEF HandlerRec, Awaits
  <2> QED BY <1>0, <1>1, <1>2, <2>2, <2>4, <2>5, MoveFacts
<1> QED BY <1>3, <1>4, <1>5, <1>6

LEMMA HandlerTyped ==
  ASSUME TS, NEW h \in Slots, Step(h)
  PROVE  TS'
PROOF
<1> DEFINE i == handler[h].item
           op == handler[h].op
<1>0. Typed /\ Sound /\ Filled(book)
  BY DEF TS, Sound
<1>1. /\ UNCHANGED <<book, server, base, sync, edits, serverEdits, born, mine, excused>>
      /\ handler' \in [Slots -> HandlerRec]
  BY <1>0, HandlerStep
<1>2. /\ handler[h] \in HandlerRec /\ i \in Items /\ op \in Ops
      /\ Neat(queue) /\ FreshOnes(queue)
      /\ writes \in Seq(Slots \cup {SyncWriter}) /\ h \in Slots \cup {SyncWriter}
      /\ hashes \in [Contacts -> Cards \cup {NoCard}] /\ badge \in Nat
  BY <1>0 DEF Typed, Sound, HandlerRec
<1>3. /\ Append(writes, h) \in Seq(Slots \cup {SyncWriter})
      /\ Turn(h) => Done \in Seq(Slots \cup {SyncWriter})
      /\ Turn(h) => Append(Done, h) \in Seq(Slots \cup {SyncWriter})
  BY <1>2, TurnFacts
<1> HIDE DEF i, op
<1>4. /\ Neat(queue') /\ FreshOnes(queue')
      /\ writes' \in Seq(Slots \cup {SyncWriter})
      /\ hashes' \in [Contacts -> Cards \cup {NoCard}] /\ badge' \in Nat
  <2>1. CASE handle(h)
    <3>1. UNCHANGED <<queue, hashes, badge>> /\ (Ask(h) \/ UNCHANGED writes)
      BY <2>1 DEF handle
    <3> QED BY <1>2, <1>3, <3>1 DEF Ask
  <2>2. CASE ghostGate(h)
    <3>1. UNCHANGED <<queue, hashes, badge>> /\ Ask(h)
      BY <2>2 DEF ghostGate
    <3> QED BY <1>2, <1>3, <3>1 DEF Ask
  <2>3. CASE consumeServerTag(h)
    <3>1. PICK k : k = findConsumableServerTag(queue, Id(i), op)
      OBVIOUS
    <3>2. /\ UNCHANGED <<hashes, badge>> /\ Turn(h) /\ writes' = Done
          /\ queue' = IF k = 0 THEN queue ELSE RemoveAt(queue, k)
      BY <2>3, <3>1 DEF consumeServerTag, i, op
    <3>3. k # 0 => /\ k \in DOMAIN queue /\ KeyOf(queue[k]) \in Ids(i)
                   /\ queue[k].status \in SERVER_TAG_STATUSES
      BY <1>2, <3>1, TagPlace
    <3>4. Neat(queue') /\ FreshOnes(queue')
      BY <1>2, <3>2, <3>3, UntagFacts
    <3> QED BY <1>2, <1>3, <3>2, <3>4
  <2>4. CASE storeHash(h)
    <3>1. /\ UNCHANGED <<queue, badge>> /\ Turn(h) /\ writes' = Append(Done, h)
          /\ hashes' = [hashes EXCEPT ![i] = HashToStore(h)]
      BY <2>4 DEF storeHash, i
    <3>2. HashToStore(h) \in Cards \cup {NoCard}
      BY <1>2 DEF HashToStore, HandlerRec
    <3> QED BY <1>2, <1>3, <3>1, <3>2
  <2>5. CASE recordEvent(h)
    <3>1. /\ UNCHANGED <<hashes, badge>> /\ Turn(h) /\ writes' = Done
          /\ queue' = applyEvent(queue, Id(i), i, op)
      BY <2>5 DEF recordEvent, i, op
    <3>2. Neat(queue') /\ FreshOnes(queue')
      BY <1>2, <3>1, EventFacts
    <3> QED BY <1>2, <1>3, <3>1, <3>2
  <2>6. CASE count(h)
    <3>1. UNCHANGED <<queue, hashes, writes>> /\ badge' = Len(UserEntries(queue))
      BY <2>6 DEF count, localChanges
    <3> QED BY <1>2, <3>1, CountFacts
  <2> QED BY <2>1, <2>2, <2>3, <2>4, <2>5, <2>6 DEF Step
<1>5. Typed'
  BY <1>0, <1>1, <1>4 DEF Typed
<1>6. Sound'
  BY <1>0, <1>1, <1>4 DEF Sound
<1> QED BY <1>5, <1>6 DEF TS

(* A user's edit is of something the item may hold; so is a server's.       *)
LEMMA UserEditTyped ==
  ASSUME TS, NEW i \in Items, NEW card \in Contents(i), UserEdit(i, card)
  PROVE  TS'
PROOF
<1>0. Typed /\ Sound /\ book \in Stores /\ Filled(book) /\ Closed(book)
      /\ handler \in [Slots -> HandlerRec] /\ mine \in SUBSET Items /\ excused \in SUBSET Items
      /\ born \in SUBSET Lists /\ edits \in 0..MaxEdits /\ MaxEdits \in Nat
  BY ObserverAssumption DEF TS, Typed, Sound
<1>1. /\ UNCHANGED <<server, base, queue, hashes, writes, sync, badge, serverEdits>>
      /\ book' = With(book, i, card) /\ Possible(book, i, card)
      /\ Fire(EventsOf(i, card)) /\ edits < MaxEdits /\ edits' = edits + 1
      /\ mine' = mine \cup {e.item : e \in EventsOf(i, card)}
      /\ Overlaps({e.item : e \in EventsOf(i, card)})
      /\ BornWith(i, card)
  BY DEF UserEdit
<1>2. {e.item : e \in EventsOf(i, card)} \in SUBSET Items
  BY EditEvents
<1>3. mine' \in SUBSET Items /\ excused' \in SUBSET Items /\ born' \in SUBSET Lists
  BY <1>0, <1>1, <1>2 DEF Overlaps, BornWith
<1>4. handler' \in [Slots -> HandlerRec]
  BY <1>0, <1>1, EditFires
<1>5. book' \in Stores /\ Filled(book)'
  BY <1>0, <1>1, WithTyped DEF Filled
<1>6. Closed(book)'
  BY <1>0, <1>1, WithClosed DEF Closed
<1>7. edits' \in 0..MaxEdits
  BY <1>0, <1>1
<1>8. Typed'
  BY <1>0, <1>1, <1>3, <1>4, <1>5, <1>7 DEF Typed
<1>9. Sound'
  BY <1>0, <1>1, <1>5, <1>6 DEF Sound, Filled
<1> QED BY <1>8, <1>9 DEF TS

LEMMA GhostTyped ==
  ASSUME TS, NEW i \in Contacts, Ghost(i)
  PROVE  TS'
PROOF
<1>0. Typed /\ Sound /\ handler \in [Slots -> HandlerRec] /\ excused \in SUBSET Items
      /\ i \in Items /\ edits \in 0..MaxEdits /\ MaxEdits \in Nat
  BY ObserverAssumption, ItemKinds DEF TS, Typed
<1>1. /\ UNCHANGED <<book, server, base, queue, hashes, writes, sync, badge,
                     serverEdits, born, mine>>
      /\ Fire({[op |-> "updated", item |-> i]}) /\ Overlaps({i})
      /\ edits < MaxEdits /\ edits' = edits + 1
  BY DEF Ghost
<1>2. {[op |-> "updated", item |-> i]} \in SUBSET Event
  BY <1>0 DEF Event, Ops
<1>3. handler' \in [Slots -> HandlerRec]
  BY <1>0, <1>1, <1>2, FireFacts
<1>4. excused' \in SUBSET Items /\ edits' \in 0..MaxEdits
  BY <1>0, <1>1 DEF Overlaps
<1>5. Typed'
  BY <1>0, <1>1, <1>3, <1>4 DEF Typed
<1>6. Sound'
  BY <1>0, <1>1 DEF Sound
<1> QED BY <1>5, <1>6 DEF TS

(* A pre-tag that grows stale is of one item at most, and nobody's work.    *)
LEMMA FreezeFacts ==
  ASSUME TS, NEW k \in DOMAIN queue, FreezeEnds(k)
  PROVE  /\ UNCHANGED <<book, server, base, hashes, writes, handler, sync, badge,
                        edits, serverEdits, born, mine, excused>>
         /\ Neat(queue') /\ FreshOnes(queue')
         /\ Len(UserEntries(queue')) = Len(UserEntries(queue))
         /\ \A i \in Items : /\ St(i)' = St(i)
                             /\ FreshTags(queue', i) \in SUBSET FreshTags(queue, i)
                             /\ ExactTag(queue, i) = {} => ExactTag(queue', i) = {}
                             /\ About(queue', i) # About(queue, i) =>
                                  ~Synced(i) /\ \A h \in Slots : ~Busy(h, i)
PROOF
<1>0. Neat(queue) /\ FreshOnes(queue)
  BY DEF TS, Typed, Sound
<1>1. /\ UNCHANGED <<book, server, base, hashes, writes, handler, sync, badge,
                     edits, serverEdits, born, mine, excused>>
      /\ queue[k].fresh
      /\ queue' = [queue EXCEPT ![k].fresh = FALSE]
      /\ \A i \in Items : (\E op \in Ops : sameRow(queue[k], TagId(i, op), BY_SERVER))
                            => ~Synced(i) /\ ~Handled(i)
  BY DEF FreezeEnds
<1> DEFINE r == queue[k]
           s == [queue[k] EXCEPT !.fresh = FALSE]
<1>2. /\ Neat(queue') /\ Range(queue') = (Range(queue) \ {r}) \cup {s}
      /\ DOMAIN queue' = DOMAIN queue
      /\ \A m \in DOMAIN queue : queue'[m].status = queue[m].status
  BY <1>0, <1>1, StaleFacts
<1>3. r \in Rows /\ r \in Range(queue) /\ r.fresh /\ r.status \in SERVER_TAG_STATUSES
  <2>1. r \in Range(queue)
    BY DEF Range
  <2> QED BY <1>0, <1>1, <2>1, SeqFacts DEF Neat, FreshOnes
<1>4. s.fresh = FALSE /\ KeyOf(s) = KeyOf(r) /\ s.status = r.status
  BY <1>3 DEF Rows, KeyOf
<1> HIDE DEF r, s
<1>5. r.status \notin UserStatuses
  BY <1>3 DEF UserStatuses, SERVER_TAG_STATUSES
<1>6. Len(UserEntries(queue')) = Len(UserEntries(queue))
  <2>1. {m \in DOMAIN queue' : queue'[m].status \in UserStatuses}
          = {m \in DOMAIN queue : queue[m].status \in UserStatuses}
    BY <1>2
  <2> QED BY <1>0, <1>2, <2>1, CountFacts
<1>7. FreshOnes(queue')
  BY <1>0, <1>2, <1>4 DEF FreshOnes
<1>8. ASSUME NEW i \in Items
      PROVE  /\ UserRows(queue', i) = UserRows(queue, i)
             /\ FreshTags(queue', i) \in SUBSET FreshTags(queue, i)
             /\ ExactTag(queue, i) = {} => ExactTag(queue', i) = {}
  BY <1>2, <1>3, <1>4, <1>5 DEF UserRows, FreshTags, ExactTag, About
<1>9. \A i \in Items : UserStatus(queue', Id(i)) = UserStatus(queue, Id(i))
  BY <1>0, <1>2, <1>8, SameStatus
<1>10. ASSUME NEW i \in Items, About(queue', i) # About(queue, i)
       PROVE  ~Synced(i) /\ \A h \in Slots : ~Busy(h, i)
  <2>1. KeyOf(r) \in Ids(i)
    BY <1>2, <1>4, <1>10 DEF About
  <2>2. PICK op \in Ops : KeyOf(r) = TagId(i, op)
    BY <2>1 DEF Ids
  <2>3. sameRow(r, TagId(i, op), BY_SERVER)
    BY <1>3, <2>2, RowFacts, TagIdFacts
  <2>4. ~Synced(i) /\ ~Handled(i)
    BY <1>1, <2>3 DEF r
  <2> QED BY <2>4 DEF Handled, Live, Busy
<1>11. \A i \in Items : St(i)' = St(i)
  BY <1>9 DEF St
<1> QED BY <1>1, <1>2, <1>6, <1>7, <1>8, <1>10, <1>11

LEMMA FreezeTyped ==
  ASSUME TS, NEW k \in DOMAIN queue, FreezeEnds(k)
  PROVE  TS'
PROOF
<1>1. /\ UNCHANGED <<book, server, base, hashes, writes, handler, sync, badge,
                     edits, serverEdits, born, mine, excused>>
      /\ Neat(queue') /\ FreshOnes(queue')
  BY FreezeFacts
<1>2. Typed'
  BY <1>1 DEF TS, Typed
<1>3. Sound'
  BY <1>1 DEF TS, Sound
<1> QED BY <1>2, <1>3 DEF TS

LEMMA ServerEditTyped ==
  ASSUME TS, NEW i \in Items, NEW card \in Contents(i), ServerEdit(i, card)
  PROVE  TS'
PROOF
<1>0. Typed /\ Sound /\ server \in Stores /\ Filled(server)
      /\ serverEdits \in 0..MaxServerEdits /\ MaxServerEdits \in Nat
  BY ObserverAssumption DEF TS, Typed, Sound
<1>1. /\ UNCHANGED <<book, base, queue, hashes, writes, handler, sync, badge,
                     edits, born, mine, excused>>
      /\ server' = With(server, i, card)
      /\ serverEdits < MaxServerEdits /\ serverEdits' = serverEdits + 1
  BY DEF ServerEdit
<1>2. server' \in Stores /\ Filled(server)'
  BY <1>0, <1>1, WithTyped DEF Filled
<1>3. serverEdits' \in 0..MaxServerEdits
  BY <1>0, <1>1
<1>4. Typed'
  BY <1>0, <1>1, <1>2, <1>3 DEF Typed
<1>5. Sound'
  BY <1>0, <1>1, <1>2 DEF Sound, Filled
<1> QED BY <1>4, <1>5 DEF TS

LEMMA ContentsCards ==
  ASSUME NEW i \in Items, NEW x \in Contents(i)
  PROVE  x \in Cards \cup {NoCard, Member}
PROOF
  BY DEF Contents

LEMMA PullTyped ==
  ASSUME TS, NEW i \in Items, Pull(i)
  PROVE  TS'
PROOF
<1>0. Typed /\ Sound /\ Filled(server) /\ writes \in Seq(Slots \cup {SyncWriter})
      /\ excused \in SUBSET Items
  BY DEF TS, Typed, Sound
<1>1. /\ UNCHANGED <<book, server, base, queue, hashes, handler, badge,
                     edits, serverEdits, born, mine>>
      /\ sync' = [at |-> "markServerWrite", op |-> OpOf(book[i], server[i]), item |-> i,
                  card |-> server[i], covers |-> FALSE]
      /\ Ask(SyncWriter) /\ Overlaps({i})
  BY DEF Pull
<1>2. server[i] \in Contents(i) /\ server[i] \in Cards \cup {NoCard, Member}
  BY <1>0, ContentsCards DEF Filled
<1>3. /\ sync' \in SyncRec /\ sync'.card \in Contents(sync'.item)
      /\ sync'.op = "deleted" <=> sync'.card = NoCard
  BY <1>1, <1>2, OpOfFacts DEF SyncRec
<1>4. writes' \in Seq(Slots \cup {SyncWriter}) /\ excused' \in SUBSET Items
  BY <1>0, <1>1, TurnFacts DEF Ask, Overlaps
<1>5. Typed'
  BY <1>0, <1>1, <1>3, <1>4 DEF Typed
<1>6. Sound'
  BY <1>0, <1>1, <1>3 DEF Sound
<1> QED BY <1>5, <1>6 DEF TS

LEMMA PushTyped ==
  ASSUME TS, NEW i \in Items, Push(i)
  PROVE  TS'
PROOF
<1>0. Typed /\ Sound /\ Filled(book) /\ excused \in SUBSET Items
  BY DEF TS, Typed, Sound
<1>1. /\ UNCHANGED <<book, server, base, queue, hashes, writes, handler, badge,
                     edits, serverEdits, born, mine>>
      /\ sync' = [at |-> "send", op |-> "updated", item |-> i, card |-> book[i],
                  covers |-> FALSE]
      /\ Overlaps({i})
  BY DEF Push
<1>2. book[i] \in Contents(i) /\ book[i] \in Cards \cup {NoCard, Member}
  BY <1>0, ContentsCards DEF Filled
<1>3. sync' \in SyncRec /\ sync'.card \in Contents(sync'.item) /\ sync'.at = "send"
  BY <1>1, <1>2 DEF SyncRec, Ops
<1>4. excused' \in SUBSET Items
  BY <1>0, <1>1 DEF Overlaps
<1>5. Typed'
  BY <1>0, <1>1, <1>3, <1>4 DEF Typed
<1>6. Sound'
  BY <1>0, <1>1, <1>3 DEF Sound
<1> QED BY <1>5, <1>6 DEF TS

(* A sync that goes on with what it is about.                               *)
LEMMA SyncMoves ==
  ASSUME sync \in SyncRec, NEW at \in {"write", "remove", "moveToTail", "report"},
         NEW c \in BOOLEAN,
         sync' = [sync EXCEPT !.at = at] \/ sync' = [sync EXCEPT !.at = at, !.covers = c]
  PROVE  /\ sync' \in SyncRec /\ sync'.at = at
         /\ sync'.op = sync.op /\ sync'.item = sync.item /\ sync'.card = sync.card
PROOF
  BY DEF SyncRec

LEMMA MarkTyped ==
  ASSUME TS, markServerWrite
  PROVE  TS'
PROOF
<1>0. Typed /\ Sound /\ sync \in SyncRec /\ Neat(queue) /\ FreshOnes(queue)
      /\ writes \in Seq(Slots \cup {SyncWriter})
  BY DEF TS, Typed, Sound
<1>1. /\ UNCHANGED <<book, server, base, hashes, handler, badge,
                     edits, serverEdits, born, mine, excused>>
      /\ sync.at = "markServerWrite" /\ Turn(SyncWriter) /\ writes' = Done
      /\ queue' = markServerWriteUpdater(queue, TagId(sync.item, sync.op), TagFor(sync.op))
  BY DEF markServerWrite
<1>2. PICK c \in BOOLEAN : sync' = [sync EXCEPT !.at = "write", !.covers = c]
  BY DEF markServerWrite
<1>3. /\ sync' \in SyncRec /\ sync'.at = "write"
      /\ sync'.op = sync.op /\ sync'.item = sync.item /\ sync'.card = sync.card
  BY <1>0, <1>2, SyncMoves
<1>4. sync.item \in Items /\ sync.op \in Ops
  BY <1>0 DEF SyncRec
<1>5. Neat(queue') /\ FreshOnes(queue')
  BY <1>0, <1>1, <1>4, MarkFacts
<1>6. writes' \in Seq(Slots \cup {SyncWriter})
  BY <1>0, <1>1, TurnFacts
<1>7. Typed'
  BY <1>0, <1>1, <1>3, <1>5, <1>6 DEF Typed
<1>8. Sound'
  BY <1>0, <1>1, <1>3, <1>5 DEF Sound
<1> QED BY <1>7, <1>8 DEF TS

LEMMA FallenItems ==
  ASSUME NEW s, NEW i, NEW card
  PROVE  Fallen(s, i, card) \in SUBSET Items
PROOF
  BY DEF Fallen

(* When a write of the sync can be made.                                    *)
Fits == /\ sync.op = "updated" => book[sync.item] # NoCard
        /\ sync.op = "created" => Possible(book, sync.item, sync.card)

(* The two outcomes of a write.                                             *)
Made ==
  /\ Fits
  /\ base' = With(base, sync.item, sync.card)
  /\ book' = With(book, sync.item, sync.card)
  /\ \/ /\ sync.op = "deleted" /\ book[sync.item] = NoCard /\ UNCHANGED handler
     \/ /\ ~(sync.op = "deleted" /\ book[sync.item] = NoCard)
        /\ Fire(EventsOf(sync.item, sync.card))
  /\ mine' = mine \ {sync.item}
  /\ excused' = excused \cup Fallen(book, sync.item, sync.card)
                        \cup Fallen(base, sync.item, sync.card)
  /\ BornWith(sync.item, sync.card)
Refused ==
  /\ excused' = IF sync.covers THEN excused \cup {sync.item} ELSE excused
  /\ UNCHANGED <<book, base, handler, born, mine>>

LEMMA WriteIs ==
  ASSUME sync \in SyncRec, Write
  PROVE  /\ sync.at = "write" /\ sync' = [sync EXCEPT !.at = "report"]
         /\ UNCHANGED <<server, queue, hashes, writes, badge, edits, serverEdits>>
         /\ Made \/ Refused
PROOF
<1>1. sync.op \in {"created", "updated", "deleted"}
  BY DEF SyncRec, Ops
<1>2. /\ sync.at = "write" /\ sync' = [sync EXCEPT !.at = "report"]
      /\ UNCHANGED <<server, queue, hashes, writes, badge, edits, serverEdits>>
  BY DEF Write
<1>3. Fits <=> CASE sync.op = "updated" -> book[sync.item] # NoCard
                 [] sync.op = "created" -> Possible(book, sync.item, sync.card)
                 [] sync.op = "deleted" -> TRUE
  BY <1>1 DEF Fits
<1>4. Made \/ Refused
  BY <1>3 DEF Write, Made, Refused
<1> QED BY <1>2, <1>4

LEMMA WriteTyped ==
  ASSUME TS, Write
  PROVE  TS'
PROOF
<1>0. Typed /\ Sound /\ sync \in SyncRec /\ book \in Stores /\ base \in Stores
      /\ Filled(book) /\ Closed(book) /\ handler \in [Slots -> HandlerRec]
      /\ mine \in SUBSET Items /\ excused \in SUBSET Items /\ born \in SUBSET Lists
  BY DEF TS, Typed, Sound
<1>1. /\ sync.at = "write" /\ sync' = [sync EXCEPT !.at = "report"]
      /\ UNCHANGED <<server, queue, hashes, writes, badge, edits, serverEdits>>
      /\ Made \/ Refused
  BY <1>0, WriteIs
<1>2. /\ sync' \in SyncRec /\ sync'.at = "report"
      /\ sync'.op = sync.op /\ sync'.item = sync.item /\ sync'.card = sync.card
  BY <1>0, <1>1, SyncMoves
<1>3. /\ sync.item \in Items /\ sync.card \in Contents(sync.item)
      /\ sync.op = "deleted" <=> sync.card = NoCard
      /\ sync.op \in {"created", "updated", "deleted"}
  BY <1>0, <1>1 DEF Sound, SyncRec, Ops
<1>4. /\ book' \in Stores /\ base' \in Stores /\ Filled(book)' /\ Closed(book)'
      /\ handler' \in [Slots -> HandlerRec]
      /\ mine' \in SUBSET Items /\ excused' \in SUBSET Items /\ born' \in SUBSET Lists
  <2>1. CASE Refused
    <3>1. UNCHANGED <<book, base, handler, born, mine>>
      BY <2>1 DEF Refused
    <3>2. excused' \in SUBSET Items
      BY <1>0, <1>3, <2>1 DEF Refused
    <3> QED BY <1>0, <3>1, <3>2 DEF Filled, Closed
  <2>2. CASE Made
    <3>1. book' \in Stores /\ base' \in Stores /\ Filled(book)'
      BY <1>0, <1>3, <2>2, WithTyped DEF Made, Filled
    <3>2. sync.card = NoCard \/ book[sync.item] # NoCard \/ Possible(book, sync.item, sync.card)
      BY <1>3, <2>2 DEF Made, Fits
    <3>3. Closed(book)'
      BY <1>0, <1>3, <2>2, <3>2, WithClosed DEF Made, Closed
    <3>4. handler' \in [Slots -> HandlerRec]
      <4>1. CASE UNCHANGED handler
        BY <1>0, <4>1
      <4>2. CASE Fire(EventsOf(sync.item, sync.card))
        BY <1>0, <1>3, <4>2, EditFires
      <4> QED BY <2>2, <4>1, <4>2 DEF Made
    <3>5. mine' \in SUBSET Items /\ excused' \in SUBSET Items /\ born' \in SUBSET Lists
      BY <1>0, <2>2, FallenItems DEF Made, BornWith
    <3> QED BY <3>1, <3>3, <3>4, <3>5
  <2> QED BY <1>1, <2>1, <2>2
<1>5. Typed'
  BY <1>0, <1>1, <1>2, <1>4 DEF Typed
<1>6. Sound'
  BY <1>0, <1>1, <1>2, <1>3, <1>4 DEF Sound, Filled
<1> QED BY <1>5, <1>6 DEF TS

LEMMA SentTyped ==
  ASSUME TS, NEW accepted \in BOOLEAN, Sent(accepted)
  PROVE  TS'
PROOF
<1>0. Typed /\ Sound /\ sync \in SyncRec /\ server \in Stores /\ base \in Stores
      /\ Filled(server) /\ writes \in Seq(Slots \cup {SyncWriter})
      /\ mine \in SUBSET Items /\ excused \in SUBSET Items
  BY DEF TS, Typed, Sound
<1>1. /\ UNCHANGED <<book, queue, hashes, handler, badge, edits, serverEdits, born>>
      /\ sync.at = "send" /\ Ask(SyncWriter)
      /\ sync' = [sync EXCEPT !.at = IF accepted THEN "remove" ELSE "moveToTail"]
      /\ server' = IF accepted THEN With(server, sync.item, sync.card) ELSE server
      /\ base' = IF accepted THEN With(base, sync.item, sync.card) ELSE base
      /\ mine' = IF accepted THEN mine \ {sync.item} ELSE mine
      /\ excused' = IF accepted THEN excused \cup Fallen(base, sync.item, sync.card) ELSE excused
  BY DEF Sent
<1>2. /\ sync' \in SyncRec /\ sync'.at \in {"remove", "moveToTail"}
      /\ sync'.op = sync.op /\ sync'.item = sync.item /\ sync'.card = sync.card
  BY <1>0, <1>1, SyncMoves
<1>3. sync.item \in Items /\ sync.card \in Contents(sync.item)
  BY <1>0, <1>1 DEF Sound, SyncRec
<1>4. server' \in Stores /\ base' \in Stores /\ Filled(server)'
  BY <1>0, <1>1, <1>3, WithTyped DEF Filled
<1>5. mine' \in SUBSET Items /\ excused' \in SUBSET Items
  BY <1>0, <1>1, FallenItems
<1>6. writes' \in Seq(Slots \cup {SyncWriter})
  BY <1>0, <1>1, TurnFacts DEF Ask
<1>7. Typed'
  BY <1>0, <1>1, <1>2, <1>4, <1>5, <1>6 DEF Typed
<1>8. Sound'
  BY <1>0, <1>1, <1>2, <1>3, <1>4 DEF Sound, Filled
<1> QED BY <1>7, <1>8 DEF TS

(* What was sent is taken from the queue, or goes behind the rest.          *)
LEMMA SettledFacts ==
  ASSUME TS, Settled
  PROVE  /\ UNCHANGED <<book, server, base, hashes, handler, badge,
                        edits, serverEdits, born, mine, excused>>
         /\ sync.at \in {"remove", "moveToTail"} /\ sync.item \in Items
         /\ Turn(SyncWriter) /\ writes' = Done
         /\ sync' \in SyncRec /\ sync'.at = "report" /\ sync'.item = sync.item
         /\ sync'.card = sync.card
         /\ Neat(queue') /\ FreshOnes(queue')
         /\ \A j \in Items : j # sync.item => About(queue', j) = About(queue, j)
         /\ FreshTags(queue', sync.item) = FreshTags(queue, sync.item)
         /\ ExactTag(queue', sync.item) = ExactTag(queue, sync.item)
         /\ UserStatus(queue', Id(sync.item)) =
              IF sync.at = "remove" THEN NoStatus ELSE UserStatus(queue, Id(sync.item))
PROOF
<1>0. sync \in SyncRec /\ Neat(queue) /\ FreshOnes(queue) /\ sync.item \in Items
  BY DEF TS, Typed, Sound, SyncRec
<1>1. /\ UNCHANGED <<book, server, base, hashes, handler, badge,
                     edits, serverEdits, born, mine, excused>>
      /\ sync.at \in {"remove", "moveToTail"}
      /\ Turn(SyncWriter) /\ writes' = Done
      /\ sync' = [sync EXCEPT !.at = "report"]
      /\ queue' = IF sync.at = "remove" THEN removeEntryUpdater(queue, Id(sync.item))
                  ELSE moveToTailUpdater(queue, {Id(sync.item)})
  BY DEF Settled
<1>2. /\ sync' \in SyncRec /\ sync'.at = "report"
      /\ sync'.item = sync.item /\ sync'.card = sync.card
  BY <1>0, <1>1, SyncMoves
<1>3. CASE sync.at = "remove"
  BY <1>0, <1>1, <1>2, <1>3, RemoveFacts
<1>4. CASE sync.at = "moveToTail"
  <2>1. Neat(queue') /\ Range(queue') = Range(queue)
    BY <1>0, <1>1, <1>4, TailFacts
  <2>2. \A j \in Items : About(queue', j) = About(queue, j)
    BY <2>1 DEF About
  <2>3. FreshOnes(queue')
    BY <1>0, <2>1 DEF FreshOnes
  <2>4. /\ UserStatus(queue', Id(sync.item)) = UserStatus(queue, Id(sync.item))
        /\ FreshTags(queue', sync.item) = FreshTags(queue, sync.item)
        /\ ExactTag(queue', sync.item) = ExactTag(queue, sync.item)
    BY <1>0, <2>1, <2>2, SameAbout
  <2> QED BY <1>0, <1>1, <1>2, <1>4, <2>1, <2>2, <2>3, <2>4
<1> QED BY <1>1, <1>3, <1>4

LEMMA SettledTyped ==
  ASSUME TS, Settled
  PROVE  TS'
PROOF
<1>0. Typed /\ Sound /\ writes \in Seq(Slots \cup {SyncWriter})
  BY DEF TS, Typed
<1>1. /\ UNCHANGED <<book, server, base, hashes, handler, badge,
                     edits, serverEdits, born, mine, excused>>
      /\ sync.at \in {"remove", "moveToTail"}
      /\ Turn(SyncWriter) /\ writes' = Done
      /\ sync' \in SyncRec /\ sync'.at = "report" /\ sync'.item = sync.item
      /\ sync'.card = sync.card
      /\ Neat(queue') /\ FreshOnes(queue')
  BY SettledFacts
<1>2. writes' \in Seq(Slots \cup {SyncWriter})
  BY <1>0, <1>1, TurnFacts
<1>3. Typed'
  BY <1>0, <1>1, <1>2 DEF Typed
<1>4. Sound'
  BY <1>0, <1>1 DEF Sound
<1> QED BY <1>3, <1>4 DEF TS

LEMMA ReportTyped ==
  ASSUME TS, Report
  PROVE  TS'
PROOF
<1>1. /\ UNCHANGED <<book, server, base, queue, hashes, writes, handler,
                     edits, serverEdits, born, mine, excused>>
      /\ badge' = Len(UserEntries(queue)) /\ sync' = NoSync
  BY DEF Report, localChanges
<1>2. sync' \in SyncRec /\ sync'.at = "idle"
  BY <1>1, ItemKinds DEF NoSync, SyncRec, Ops
<1>3. badge' \in Nat
  BY <1>1, CountFacts DEF TS, Typed
<1>4. Typed'
  BY <1>1, <1>2, <1>3 DEF TS, Typed
<1>5. Sound'
  BY <1>1, <1>2 DEF TS, Sound
<1> QED BY <1>4, <1>5 DEF TS

LEMMA StutterTyped == TS /\ UNCHANGED vars => TS'
PROOF
<1> SUFFICES ASSUME TS, UNCHANGED vars PROVE TS'
  OBVIOUS
<1>1. Typed'
  BY DEF TS, Typed, vars
<1>2. Sound'
  BY DEF TS, Sound, vars
<1> QED BY <1>1, <1>2 DEF TS

LEMMA TypedNext == TS /\ [Next]_vars => TS'
PROOF
<1> SUFFICES ASSUME TS, [Next]_vars PROVE TS'
  OBVIOUS
<1>1. CASE \E h \in Slots : Step(h)
  BY <1>1, HandlerTyped
<1>2. CASE \E i \in Items : \E card \in Contents(i) : UserEdit(i, card) \/ ServerEdit(i, card)
  BY <1>2, UserEditTyped, ServerEditTyped
<1>3. CASE \E i \in Contacts : Ghost(i)
  BY <1>3, GhostTyped
<1>4. CASE \E k \in DOMAIN queue : FreezeEnds(k)
  BY <1>4, FreezeTyped
<1>5. CASE SyncStep
  BY <1>5, PullTyped, PushTyped, MarkTyped, WriteTyped, SentTyped, SettledTyped, ReportTyped
     DEF SyncStep
<1>6. CASE UNCHANGED vars
  BY <1>6, StutterTyped
<1> QED BY <1>1, <1>2, <1>3, <1>4, <1>5, <1>6 DEF Next

-----------------------------------------------------------------------------
(* What is not touched stays as good as it was                              *)

Same(i) ==
  /\ book'[i] = book[i] /\ base'[i] = base[i]
  /\ i \in Contacts => hashes'[i] = hashes[i]
  /\ i \in mine' <=> i \in mine
  /\ St(i)' = St(i)
  /\ FreshTags(queue', i) = FreshTags(queue, i)
  /\ ExactTag(queue', i) = ExactTag(queue, i)
  /\ \A h \in Slots : Busy(h, i) => handler'[h] = handler[h]
  /\ \A h \in Slots : Busy(h, i)' => Busy(h, i)
  /\ AtWork(i) \/ AtWork(i)' => sync' = sync
  /\ Listed(i)' => Listed(i)
  /\ i \in Lists => (i \in born' <=> i \in born)

LEMMA SameGood ==
  ASSUME NEW i \in Items, Same(i), Good(i)
  PROVE  Good(i)'
PROOF
<1>1. \A h \in Slots : Busy(h, i) <=> Busy(h, i)'
  BY DEF Same, Busy
<1>2. AtWork(i)' <=> AtWork(i)
  BY DEF Same, AtWork, Synced
<1>3. Clean(i) => Clean(i)'
  BY DEF Same, Clean
<1>4. \A op : Expected(queue, i, op) => Expected(queue', i, op)
  BY DEF Same, Expected
<1>5. Hears(i)'
  <2> SUFFICES ASSUME NEW h \in Slots, Busy(h, i)'
               PROVE  /\ ~AtWork(i)'
                      /\ \A g \in Slots : Busy(g, i)' => g = h
                      /\ Sane(h, i)'
                      /\ \/ Own(h, i)' \/ OfSync(h, i)' \/ AGhost(h, i)'
                         \/ Counting(h, i)' \/ Dropped(h, i)'
    BY DEF Hears
  <2>1. Busy(h, i) /\ handler'[h] = handler[h]
    BY <1>1 DEF Same
  <2>2. ~AtWork(i)' /\ \A g \in Slots : Busy(g, i)' => g = h
    BY <1>1, <1>2, <2>1 DEF Good, Hears
  <2>3. Sane(h, i)'
    <3>1. Sane(h, i)
      BY <2>1 DEF Good, Hears
    <3> QED BY <2>1, <3>1 DEF Sane, Same
  <2>4. Own(h, i) => Own(h, i)'
    BY <2>1 DEF Own, Same
  <2>5. OfSync(h, i) => OfSync(h, i)'
    BY <1>4, <2>1 DEF OfSync, Same
  <2>6. AGhost(h, i) => AGhost(h, i)'
    BY <1>3, <2>1 DEF AGhost, Same
  <2>7. Counting(h, i) => Counting(h, i)'
    BY <1>3, <2>1 DEF Counting, Same
  <2>8. Dropped(h, i) => Dropped(h, i)'
    BY <2>1 DEF Dropped, Same
  <2> QED BY <2>1, <2>2, <2>3, <2>4, <2>5, <2>6, <2>7, <2>8 DEF Good, Hears
<1>6. Rests(i)'
  <2> SUFFICES ASSUME \A h \in Slots : ~Busy(h, i)'
               PROVE  /\ i \in Contacts => hashes'[i] = book'[i]
                      /\ ~(Synced(i)' /\ sync'.at \in {"write", "remove"}) => Clean(i)'
    BY DEF Rests
  <2>1. \A h \in Slots : ~Busy(h, i)
    BY <1>1
  <2>2. /\ i \in Contacts => hashes[i] = book[i]
        /\ ~(Synced(i) /\ sync.at \in {"write", "remove"}) => Clean(i)
    BY <2>1 DEF Good, Rests
  <2>3. Synced(i) /\ sync.at \in {"write", "remove"}
          => Synced(i)' /\ sync'.at \in {"write", "remove"}
    BY DEF Same, AtWork, Synced
  <2> QED BY <1>3, <2>2, <2>3 DEF Same
<1>7. Syncs(i)'
  <2> SUFFICES ASSUME AtWork(i)' PROVE Syncs(i)'
    BY DEF Syncs
  <2>1. AtWork(i) /\ sync' = sync
    BY <1>2 DEF Same
  <2> QED BY <1>3, <1>4, <2>1 DEF Syncs, Good, Same
<1> QED BY <1>5, <1>6, <1>7 DEF Good

(* When nothing goes on about an item.                                      *)
Still(i) ==
  /\ \A h \in Slots : ~Busy(h, i)
  /\ ~Synced(i) /\ FreshTags(queue, i) = {}

LEMMA RestIs ==
  ASSUME Typed, NEW i \in Items
  PROVE  Moment(i) = "rest" <=> Still(i)
PROOF
<1>1. Handled(i) <=> \E h \in Slots : Busy(h, i)
  BY DEF Handled, Live, Busy
<1>2. Announced(i) <=> FreshTags(queue, i) # {}
  <2>1. queue \in Seq(Rows)
    BY DEF Typed, Neat
  <2>2. ASSUME NEW k \in DOMAIN queue, NEW op \in Ops, queue[k].fresh,
               sameRow(queue[k], TagId(i, op), BY_SERVER)
        PROVE  FreshTags(queue, i) # {}
    <3>1. queue[k] \in Rows /\ queue[k] \in Range(queue)
      BY <2>1 DEF Range
    <3>2. KeyOf(queue[k]) = TagId(i, op) /\ queue[k].status \in SERVER_TAG_STATUSES
      BY <2>2, <3>1, TagIdFacts, RowFacts
    <3> QED BY <2>2, <3>1, <3>2, TagIdFacts DEF FreshTags, About
  <2>3. ASSUME NEW r \in FreshTags(queue, i)
        PROVE  Announced(i)
    <3>1. /\ r \in Range(queue) /\ KeyOf(r) \in Ids(i) /\ r.fresh
          /\ r.status \in SERVER_TAG_STATUSES
      BY <2>3 DEF FreshTags, About
    <3>2. PICK k \in DOMAIN queue : r = queue[k]
      BY <3>1 DEF Range
    <3>3. PICK op \in Ops : KeyOf(r) = TagId(i, op)
      BY <3>1 DEF Ids
    <3>4. r \in Rows
      BY <2>1, <3>2
    <3>5. sameRow(r, TagId(i, op), BY_SERVER)
      BY <3>1, <3>3, <3>4, TagIdFacts, RowFacts
    <3> QED BY <3>1, <3>2, <3>5 DEF Announced
  <2> QED BY <2>2, <2>3 DEF Announced
<1>3. Moment(i) = "rest" <=> ~Synced(i) /\ ~Announced(i) /\ ~Handled(i)
  BY DEF Moment
<1> QED BY <1>1, <1>2, <1>3 DEF Still

LEMMA StillGood ==
  ASSUME NEW i \in Items, Good(i), Still(i)
  PROVE  Clean(i) /\ (i \in Contacts => hashes[i] = book[i])
PROOF
  BY DEF Good, Rests, Still

(* What comes too close is excused; the rest was at rest.                   *)
LEMMA Unexcused ==
  ASSUME Typed, NEW S, Overlaps(S), NEW i \in Items \ excused'
  PROVE  i \notin excused /\ (i \in S => Still(i))
PROOF
<1>1. i \in S => Moment(i) = "rest"
  BY DEF Overlaps
<1>2. i \notin excused
  BY DEF Overlaps
<1> QED BY <1>1, <1>2, RestIs

(* An edit makes of what is right what is right after it.                   *)
LEMMA RightNext ==
  ASSUME NEW s, NEW x, NEW y, NEW b, Right(s, x, b), x # y
  PROVE  Right(After(OpOf(x, y), s), y, b)
PROOF
<1>1. /\ OpOf(x, y) = "deleted" <=> y = NoCard
      /\ OpOf(x, y) = "created" <=> y # NoCard /\ x = NoCard
      /\ OpOf(x, y) = "updated" <=> y # NoCard /\ x # NoCard
  BY OpOfFacts
<1>2. s \in {NoStatus, "deleted_by_user", "added_by_user", "modified_by_user"}
  BY DEF Right
<1>3. CASE x = NoCard /\ b = NoCard
  <2>1. OpOf(x, y) = "created" /\ s = NoStatus
    BY <1>1, <1>3 DEF Right
  <2>2. After("created", NoStatus) = "added_by_user"
    BY DEF After, decideUserStatus, NoStatus
  <2> QED BY <1>3, <2>1, <2>2 DEF Right
<1>4. CASE x = NoCard /\ b # NoCard
  <2>1. OpOf(x, y) = "created" /\ s = "deleted_by_user"
    BY <1>1, <1>4 DEF Right
  <2>2. After("created", "deleted_by_user") = "modified_by_user"
    BY DEF After, decideUserStatus, NoStatus
  <2> QED BY <1>4, <2>1, <2>2 DEF Right
<1>5. CASE x # NoCard /\ b = NoCard
  <2>1. s = "added_by_user"
    BY <1>5 DEF Right
  <2>2. /\ After("updated", "added_by_user") = "added_by_user"
        /\ After("deleted", "added_by_user") = NoStatus
    BY DEF After, decideUserStatus, NoStatus
  <2> QED BY <1>1, <1>5, <2>1, <2>2 DEF Right
<1>6. CASE x # NoCard /\ b # NoCard
  <2>1. s = "modified_by_user" \/ s = NoStatus
    BY <1>6 DEF Right
  <2>2. /\ After("updated", "modified_by_user") = "modified_by_user"
        /\ After("updated", NoStatus) = "modified_by_user"
        /\ After("deleted", "modified_by_user") = "deleted_by_user"
        /\ After("deleted", NoStatus) = "deleted_by_user"
    BY DEF After, decideUserStatus, NoStatus
  <2> QED BY <1>1, <1>6, <2>1, <2>2 DEF Right
<1> QED BY <1>3, <1>4, <1>5, <1>6

-----------------------------------------------------------------------------
(* The steps of a handler                                                   *)

(* A step is about the item of its handler only.                            *)
LEMMA HandlerOthers ==
  ASSUME TS, NEW h \in Slots, Step(h), NEW i \in Items, i # handler[h].item
  PROVE  /\ About(queue', i) = About(queue, i)
         /\ i \in Contacts => hashes'[i] = hashes[i]
PROOF
<1>0. /\ Neat(queue) /\ FreshOnes(queue) /\ handler[h] \in HandlerRec
      /\ hashes \in [Contacts -> Cards \cup {NoCard}]
  BY DEF TS, Typed, Sound
<1>00. handler[h].item \in Items /\ handler[h].op \in Ops
  BY <1>0 DEF HandlerRec
<1>1. CASE handle(h)
  BY <1>1 DEF handle
<1>2. CASE ghostGate(h)
  BY <1>2 DEF ghostGate
<1>3. CASE consumeServerTag(h)
  <2>1. PICK k : k = findConsumableServerTag(queue, Id(handler[h].item), handler[h].op)
    OBVIOUS
  <2>2. hashes' = hashes /\ queue' = IF k = 0 THEN queue ELSE RemoveAt(queue, k)
    BY <1>3, <2>1 DEF consumeServerTag
  <2>3. CASE k = 0
    BY <2>2, <2>3
  <2>4. CASE k # 0
    <3>1. /\ k \in DOMAIN queue /\ KeyOf(queue[k]) \in Ids(handler[h].item)
          /\ queue[k].status \in SERVER_TAG_STATUSES
      BY <1>0, <1>00, <2>1, <2>4, TagPlace
    <3> QED BY <1>0, <1>00, <2>2, <2>4, <3>1, UntagFacts
  <2> QED BY <2>3, <2>4
<1>4. CASE storeHash(h)
  BY <1>0, <1>4 DEF storeHash
<1>5. CASE recordEvent(h)
  <2>1. /\ hashes' = hashes
        /\ queue' = applyEvent(queue, Id(handler[h].item), handler[h].item, handler[h].op)
    BY <1>5 DEF recordEvent
  <2> QED BY <1>0, <1>00, <2>1, EventFacts
<1>6. CASE count(h)
  BY <1>6 DEF count
<1> QED BY <1>1, <1>2, <1>3, <1>4, <1>5, <1>6 DEF Step

LEMMA HandlerSame ==
  ASSUME TS, TS', NEW h \in Slots, Step(h), NEW i \in Items, i # handler[h].item
  PROVE  Same(i)
PROOF
<1>0. Typed /\ Filled(book) /\ Neat(queue) /\ Neat(queue')
  BY DEF TS, Typed, Sound
<1>1. /\ UNCHANGED <<book, server, base, sync, edits, serverEdits, born, mine, excused>>
      /\ \A g \in Slots : g # h => handler'[g] = handler[g]
      /\ handler'[h].at = "idle" \/ handler'[h].item = handler[h].item
  BY <1>0, HandlerStep
<1>2. About(queue', i) = About(queue, i) /\ (i \in Contacts => hashes'[i] = hashes[i])
  BY HandlerOthers
<1>3. /\ UserStatus(queue', Id(i)) = UserStatus(queue, Id(i))
      /\ FreshTags(queue', i) = FreshTags(queue, i) /\ ExactTag(queue', i) = ExactTag(queue, i)
  BY <1>0, <1>2, SameAbout
<1>4. \A g \in Slots : Busy(g, i) => handler'[g] = handler[g]
  BY <1>1 DEF Busy
<1>5. \A g \in Slots : Busy(g, i)' => Busy(g, i)
  BY <1>1 DEF Busy
<1> QED BY <1>1, <1>2, <1>3, <1>4, <1>5 DEF Same, St, Listed

(* The item of the step: its handler was the only one, the sync elsewhere;  *)
(* it is enough to say why the handler goes on, or what it leaves.          *)
LEMMA HandlerItem ==
  ASSUME TS, NEW h \in Slots, Step(h), NEW i, i = handler[h].item, Good(i),
         Busy(h, i)' => /\ Sane(h, i)'
                        /\ \/ Own(h, i)' \/ OfSync(h, i)' \/ AGhost(h, i)'
                           \/ Counting(h, i)' \/ Dropped(h, i)',
         ~Busy(h, i)' => (i \in Contacts => hashes'[i] = book'[i]) /\ Clean(i)'
  PROVE  Good(i)'
PROOF
<1>0. Typed /\ Filled(book)
  BY DEF TS, Sound
<1>1. /\ UNCHANGED <<book, server, base, sync, edits, serverEdits, born, mine, excused>>
      /\ handler[h].at # "idle"
      /\ \A g \in Slots : g # h => handler'[g] = handler[g]
  BY <1>0, HandlerStep
<1>2. Busy(h, i)
  BY <1>1 DEF Busy
<1>3. ~AtWork(i) /\ \A g \in Slots : Busy(g, i) => g = h
  BY <1>2 DEF Good, Hears
<1>4. ~AtWork(i)' /\ \A g \in Slots : Busy(g, i)' => g = h
  BY <1>1, <1>3 DEF AtWork, Synced, Busy
<1>5. Hears(i)'
  BY <1>4 DEF Hears
<1>6. Rests(i)'
  BY DEF Rests
<1>7. Syncs(i)'
  BY <1>4 DEF Syncs
<1> QED BY <1>5, <1>6, <1>7 DEF Good

(* What is known of a handler at work on an item that is not excused.       *)
LEMMA AtItem ==
  ASSUME TS, NEW h \in Slots, handler[h].at # "idle", NEW i, i = handler[h].item, Good(i)
  PROVE  /\ i \in Items /\ handler[h].op \in Ops /\ Sane(h, i) /\ ~AtWork(i)
         /\ Own(h, i) \/ OfSync(h, i) \/ AGhost(h, i) \/ Counting(h, i) \/ Dropped(h, i)
PROOF
<1>1. handler[h] \in HandlerRec
  BY DEF TS, Typed
<1>2. i \in Items /\ handler[h].op \in Ops
  BY <1>1 DEF HandlerRec
<1>3. Busy(h, i)
  BY DEF Busy
<1> QED BY <1>2, <1>3 DEF Good, Hears

(* What the sync left in step and nobody edited is clean.                   *)
LEMMA InStep ==
  ASSUME NEW i, base[i] = book[i], St(i) = NoStatus
  PROVE  Clean(i)
PROOF
  BY DEF Clean, Right

LEMMA handleGood ==
  ASSUME TS, NEW h \in Slots, handle(h), NEW i, i = handler[h].item, Good(i)
  PROVE  Good(i)'
PROOF
<1>0. Step(h) /\ handler \in [Slots -> HandlerRec] /\ handler[h].at = "start"
  BY DEF Step, TS, Typed, handle
<1>1. /\ i \in Items /\ handler[h].op \in Ops /\ Sane(h, i) /\ ~AtWork(i)
      /\ Own(h, i) \/ OfSync(h, i) \/ AGhost(h, i) \/ Counting(h, i) \/ Dropped(h, i)
  BY <1>0, AtItem
<1>2. Own(h, i) \/ OfSync(h, i) \/ AGhost(h, i) \/ Dropped(h, i)
  BY <1>0, <1>1 DEF Counting
<1>3. UNCHANGED <<book, server, base, queue, hashes, sync, badge,
                  edits, serverEdits, born, mine, excused>>
  BY DEF handle
<1>4. Clean(i)' <=> Clean(i)
  BY <1>3 DEF Clean, St, Listed
<1>5. i \in Contacts => Listed(i)
  BY ItemKinds DEF Listed
<1>6. CASE i \in Memberships /\ book[i[1]] = NoCard /\ Ends(h)
  <2>1. handler'[h].at = "idle"
    BY <1>0, <1>6, EndsFacts
  <2>2. ~Busy(h, i)'
    BY <2>1 DEF Busy
  <2>3. i \notin Contacts /\ ~Listed(i)
    BY <1>6, ItemKinds DEF Listed
  <2>4. i \notin mine => St(i) = NoStatus
    BY <1>2, <2>3 DEF Own, OfSync, AGhost, Dropped
  <2>5. Clean(i)
    BY <2>3, <2>4 DEF Clean
  <2> QED BY <1>0, <1>4, <2>2, <2>3, <2>5, HandlerItem
<1>7. CASE /\ i \in Contacts /\ handler[h].op # "deleted" /\ book[i] # NoCard
           /\ handler' = [handler EXCEPT ![h].at = "ghostGate", ![h].seen = book[i]]
  <2>1. /\ handler'[h].at = "ghostGate" /\ handler'[h].seen = book[i]
        /\ handler'[h].op = handler[h].op /\ handler'[h].item = i
    BY <1>0, <1>7 DEF HandlerRec
  <2>2. Sane(h, i)'
    BY <1>0, <1>1, <1>3, <1>7, <2>1, ItemKinds DEF Sane
  <2>3. ~Dropped(h, i)
    BY <1>5, <1>7 DEF Dropped
  <2>4. Own(h, i) => Own(h, i)'
    BY <1>0, <1>3, <2>1 DEF Own, St, Listed
  <2>5. OfSync(h, i) => OfSync(h, i)'
    BY <1>0, <1>3, <2>1 DEF OfSync, St
  <2>6. AGhost(h, i) => AGhost(h, i)'
    BY <1>0, <1>3, <1>4, <2>1 DEF AGhost
  <2>7. Busy(h, i)'
    BY <2>1 DEF Busy
  <2> QED BY <1>0, <1>2, <2>2, <2>3, <2>4, <2>5, <2>6, <2>7, HandlerItem
<1>8. CASE i \in Contacts /\ handler[h].op = "deleted" /\ Goto(h, "dropHash")
  <2>1. /\ handler'[h].at = "dropHash"
        /\ handler'[h].op = handler[h].op /\ handler'[h].item = i
    BY <1>0, <1>8, GotoFacts DEF Awaits
  <2>2. Sane(h, i)'
    BY <1>0, <1>1, <1>3, <1>8, <2>1, ItemKinds DEF Sane
  <2>3. ~Dropped(h, i) /\ ~AGhost(h, i)
    BY <1>5, <1>8 DEF Dropped, AGhost
  <2>4. Own(h, i) => Own(h, i)'
    BY <1>0, <1>3, <2>1 DEF Own, St, Listed
  <2>5. OfSync(h, i) => OfSync(h, i)'
    BY <1>0, <1>3, <2>1 DEF OfSync, St
  <2>7. Busy(h, i)'
    BY <2>1 DEF Busy
  <2> QED BY <1>0, <1>2, <2>2, <2>3, <2>4, <2>5, <2>7, HandlerItem
<1>9. CASE /\ ~(i \in Memberships /\ book[i[1]] = NoCard)
           /\ ~(i \in Contacts /\ handler[h].op # "deleted" /\ book[i] # NoCard)
           /\ ~(i \in Contacts /\ handler[h].op = "deleted")
           /\ Goto(h, "recordEvent")
  <2>1. /\ handler'[h].at = "recordEvent"
        /\ handler'[h].op = handler[h].op /\ handler'[h].item = i
    BY <1>0, <1>9, GotoFacts DEF Awaits
  <2>2. i \notin Contacts
    BY <1>1, <1>9 DEF Sane
  <2>3. Sane(h, i)'
    BY <1>0, <1>1, <1>3, <2>1, <2>2 DEF Sane
  <2>4. ~Dropped(h, i) /\ ~AGhost(h, i)
    BY <1>9, <2>2 DEF Dropped, AGhost, Listed
  <2>5. Own(h, i) => Own(h, i)'
    BY <1>0, <1>3, <2>1, <2>2 DEF Own, St, Listed
  <2>6. OfSync(h, i) => OfSync(h, i)'
    BY <1>0, <1>3, <2>1 DEF OfSync, St
  <2>7. Busy(h, i)'
    BY <2>1 DEF Busy
  <2> QED BY <1>0, <1>2, <2>3, <2>4, <2>5, <2>6, <2>7, HandlerItem
<1> QED BY <1>6, <1>7, <1>8, <1>9 DEF handle

LEMMA ghostGateGood ==
  ASSUME TS, NEW h \in Slots, ghostGate(h), NEW i, i = handler[h].item, Good(i)
  PROVE  Good(i)'
PROOF
<1>0. Step(h) /\ handler \in [Slots -> HandlerRec] /\ handler[h].at = "ghostGate"
  BY DEF Step, TS, Typed, ghostGate
<1>1. /\ i \in Items /\ handler[h].op \in Ops /\ Sane(h, i) /\ ~AtWork(i)
      /\ Own(h, i) \/ OfSync(h, i) \/ AGhost(h, i) \/ Counting(h, i) \/ Dropped(h, i)
  BY <1>0, AtItem
<1>2. Own(h, i) \/ OfSync(h, i) \/ AGhost(h, i)
  BY <1>0, <1>1 DEF Counting, Dropped
<1>3. /\ UNCHANGED <<book, server, base, queue, hashes, sync, badge,
                     edits, serverEdits, born, mine, excused>>
      /\ Goto(h, IF isGhost(h) THEN "consumeServerTag" ELSE "setHash")
  BY DEF ghostGate
<1>4. Clean(i)' <=> Clean(i)
  BY <1>3 DEF Clean, St, Listed
<1>5. i \in Contacts /\ handler[h].seen = book[i] /\ handler[h].op # "deleted"
  BY <1>0, <1>1 DEF Sane
<1>6. PICK at \in {"consumeServerTag", "setHash"} :
        /\ at = IF isGhost(h) THEN "consumeServerTag" ELSE "setHash"
        /\ Goto(h, at)
  BY <1>3
<1>7. /\ handler'[h].at = at /\ handler'[h].seen = handler[h].seen
      /\ handler'[h].op = handler[h].op /\ handler'[h].item = i
  BY <1>0, <1>6, GotoFacts DEF Awaits
<1>8. isGhost(h) <=> handler[h].op = "updated" /\ hashes[i] = book[i]
  BY <1>5 DEF isGhost
<1>9. Sane(h, i)'
  BY <1>1, <1>3, <1>5, <1>6, <1>7, <1>8, ItemKinds DEF Sane
<1>10. Own(h, i) => Own(h, i)'
  BY <1>0, <1>3, <1>5, <1>6, <1>7, <1>8 DEF Own, St, Listed
<1>11. OfSync(h, i) => OfSync(h, i)'
  BY <1>0, <1>3, <1>6, <1>7 DEF OfSync, St
<1>12. AGhost(h, i) => AGhost(h, i)'
  BY <1>0, <1>3, <1>4, <1>6, <1>7, <1>8 DEF AGhost
<1>13. Busy(h, i)'
  BY <1>6, <1>7 DEF Busy
<1> QED BY <1>0, <1>2, <1>9, <1>10, <1>11, <1>12, <1>13, HandlerItem

LEMMA consumeGood ==
  ASSUME TS, NEW h \in Slots, consumeServerTag(h), NEW i, i = handler[h].item, Good(i)
  PROVE  Good(i)'
PROOF
<1>0. /\ Step(h) /\ handler \in [Slots -> HandlerRec] /\ handler[h].at = "consumeServerTag"
      /\ Neat(queue) /\ FreshOnes(queue)
  BY DEF Step, TS, Typed, Sound, consumeServerTag
<1>1. /\ i \in Items /\ handler[h].op \in Ops /\ Sane(h, i) /\ ~AtWork(i)
      /\ Own(h, i) \/ OfSync(h, i) \/ AGhost(h, i) \/ Counting(h, i) \/ Dropped(h, i)
  BY <1>0, AtItem
<1>2. OfSync(h, i) \/ AGhost(h, i)
  BY <1>0, <1>1 DEF Counting, Dropped, Own
<1>3. PICK k : k = findConsumableServerTag(queue, Id(i), handler[h].op)
  OBVIOUS
<1>4. /\ UNCHANGED <<book, server, base, hashes, sync, badge,
                     edits, serverEdits, born, mine, excused>>
      /\ Ends(h) /\ queue' = IF k = 0 THEN queue ELSE RemoveAt(queue, k)
  BY <1>3 DEF consumeServerTag
<1>5. St(i)' = St(i)
  <2>1. CASE k = 0
    BY <1>4, <2>1 DEF St
  <2>2. CASE k # 0
    <3>1. /\ k \in DOMAIN queue /\ KeyOf(queue[k]) \in Ids(i)
          /\ queue[k].status \in SERVER_TAG_STATUSES
      BY <1>0, <1>1, <1>3, <2>2, TagPlace
    <3>2. UserStatus(queue', Id(i)) = UserStatus(queue, Id(i))
      BY <1>0, <1>1, <1>4, <2>2, <3>1, UntagFacts
    <3> QED BY <3>2 DEF St
  <2> QED BY <2>1, <2>2
<1>6. Clean(i)
  BY <1>2, InStep DEF OfSync, AGhost
<1>7. Clean(i)'
  BY <1>4, <1>5, <1>6 DEF Clean, Listed
<1>8. i \in Contacts => hashes'[i] = book'[i]
  BY <1>0, <1>1, <1>4 DEF Sane
<1>9. ~Busy(h, i)'
  BY <1>0, <1>4, EndsFacts DEF Busy
<1> QED BY <1>0, <1>7, <1>8, <1>9, HandlerItem

LEMMA storeHashGood ==
  ASSUME TS, NEW h \in Slots, storeHash(h), NEW i, i = handler[h].item, Good(i)
  PROVE  Good(i)'
PROOF
<1>0. /\ Step(h) /\ handler \in [Slots -> HandlerRec]
      /\ handler[h].at \in {"setHash", "dropHash"}
      /\ hashes \in [Contacts -> Cards \cup {NoCard}]
  BY DEF Step, TS, Typed, storeHash
<1>1. /\ i \in Items /\ handler[h].op \in Ops /\ Sane(h, i) /\ ~AtWork(i)
      /\ Own(h, i) \/ OfSync(h, i) \/ AGhost(h, i) \/ Counting(h, i) \/ Dropped(h, i)
  BY <1>0, AtItem
<1>2. Own(h, i) \/ OfSync(h, i)
  BY <1>0, <1>1 DEF Counting, Dropped, AGhost
<1>3. /\ UNCHANGED <<book, server, base, queue, sync, badge,
                     edits, serverEdits, born, mine, excused>>
      /\ Goto(h, "recordEvent") /\ hashes' = [hashes EXCEPT ![i] = HashToStore(h)]
  BY DEF storeHash
<1>4. i \in Contacts
  BY <1>0, <1>1 DEF Sane
<1>5. HashToStore(h) = book[i]
  <2>1. CASE handler[h].at = "setHash"
    BY <1>1, <1>4, <2>1 DEF HashToStore, Sane
  <2>2. CASE handler[h].at = "dropHash"
    BY <1>1, <1>4, <2>2 DEF HashToStore, Sane
  <2> QED BY <1>0, <2>1, <2>2
<1>6. hashes'[i] = book'[i]
  BY <1>0, <1>3, <1>4, <1>5
<1>7. /\ handler'[h].at = "recordEvent"
      /\ handler'[h].op = handler[h].op /\ handler'[h].item = i
  BY <1>0, <1>3, GotoFacts DEF Awaits
<1>8. Sane(h, i)'
  BY <1>1, <1>3, <1>4, <1>6, <1>7 DEF Sane
<1>9. Own(h, i) => Own(h, i)'
  BY <1>3, <1>7 DEF Own, St, Listed
<1>10. OfSync(h, i) => OfSync(h, i)'
  BY <1>3, <1>7 DEF OfSync, St
<1>11. Busy(h, i)'
  BY <1>7 DEF Busy
<1> QED BY <1>0, <1>2, <1>8, <1>9, <1>10, <1>11, HandlerItem

LEMMA recordGood ==
  ASSUME TS, NEW h \in Slots, recordEvent(h), NEW i, i = handler[h].item, Good(i)
  PROVE  Good(i)'
PROOF
<1>0. /\ Step(h) /\ handler \in [Slots -> HandlerRec] /\ handler[h].at = "recordEvent"
      /\ Neat(queue) /\ FreshOnes(queue)
  BY DEF Step, TS, Typed, Sound, recordEvent
<1>1. /\ i \in Items /\ handler[h].op \in Ops /\ Sane(h, i) /\ ~AtWork(i)
      /\ Own(h, i) \/ OfSync(h, i) \/ AGhost(h, i) \/ Counting(h, i) \/ Dropped(h, i)
  BY <1>0, AtItem
<1>2. Own(h, i) \/ OfSync(h, i)
  BY <1>0, <1>1 DEF Counting, Dropped, AGhost
<1>3. /\ UNCHANGED <<book, server, base, hashes, sync, badge,
                     edits, serverEdits, born, mine, excused>>
      /\ queue' = applyEvent(queue, Id(i), i, handler[h].op)
      /\ Goto(h, "count") \/ Ends(h)
  BY DEF recordEvent
<1>4. /\ FreshTags(queue', i) \in SUBSET FreshTags(queue, i)
      /\ FreshTags(queue, i) = {} => St(i)' = After(handler[h].op, St(i))
      /\ Expected(queue, i, handler[h].op) /\ St(i) = NoStatus =>
           St(i)' = NoStatus /\ FreshTags(queue', i) = {}
  BY <1>0, <1>1, <1>3, EventFacts DEF St
<1>5. Clean(i)' /\ FreshTags(queue', i) = {}
  <2>1. CASE Own(h, i)
    <3>1. FreshTags(queue', i) = {} /\ St(i)' = After(handler[h].op, St(i)) /\ i \in mine
      BY <1>4, <2>1 DEF Own
    <3>2. Listed(i) => Right(After(handler[h].op, St(i)), book[i], base[i])
      BY <2>1 DEF Own
    <3> QED BY <1>3, <3>1, <3>2 DEF Clean, Listed
  <2>2. CASE OfSync(h, i)
    <3>1. FreshTags(queue', i) = {} /\ St(i)' = NoStatus /\ base[i] = book[i]
      BY <1>4, <2>2 DEF OfSync
    <3> QED BY <1>3, <3>1 DEF Clean, Right
  <2> QED BY <1>2, <2>1, <2>2
<1>6. i \in Contacts => hashes'[i] = book'[i]
  BY <1>0, <1>1, <1>3 DEF Sane
<1>7. CASE Goto(h, "count")
  <2>1. /\ handler'[h].at = "count"
        /\ handler'[h].op = handler[h].op /\ handler'[h].item = i
    BY <1>0, <1>7, GotoFacts DEF Awaits
  <2>2. Sane(h, i)'
    BY <1>1, <1>3, <1>6, <2>1 DEF Sane
  <2>3. Counting(h, i)'
    BY <1>5, <2>1 DEF Counting
  <2>4. Busy(h, i)'
    BY <2>1 DEF Busy
  <2> QED BY <1>0, <2>2, <2>3, <2>4, HandlerItem
<1>8. CASE Ends(h)
  <2>1. ~Busy(h, i)'
    BY <1>0, <1>8, EndsFacts DEF Busy
  <2> QED BY <1>0, <1>5, <1>6, <2>1, HandlerItem
<1> QED BY <1>3, <1>7, <1>8

LEMMA countGood ==
  ASSUME TS, NEW h \in Slots, count(h), NEW i, i = handler[h].item, Good(i)
  PROVE  Good(i)'
PROOF
<1>0. Step(h) /\ handler \in [Slots -> HandlerRec] /\ handler[h].at = "count"
  BY DEF Step, TS, Typed, count
<1>1. /\ i \in Items /\ handler[h].op \in Ops /\ Sane(h, i) /\ ~AtWork(i)
      /\ Own(h, i) \/ OfSync(h, i) \/ AGhost(h, i) \/ Counting(h, i) \/ Dropped(h, i)
  BY <1>0, AtItem
<1>2. Counting(h, i)
  BY <1>0, <1>1 DEF Own, OfSync, AGhost, Dropped
<1>3. /\ UNCHANGED <<book, server, base, queue, hashes, writes, sync,
                     edits, serverEdits, born, mine, excused>>
      /\ Ends(h)
  BY DEF count
<1>4. Clean(i)'
  BY <1>2, <1>3 DEF Counting, Clean, St, Listed
<1>5. i \in Contacts => hashes'[i] = book'[i]
  BY <1>0, <1>1, <1>3 DEF Sane
<1>6. ~Busy(h, i)'
  BY <1>0, <1>3, EndsFacts DEF Busy
<1> QED BY <1>0, <1>4, <1>5, <1>6, HandlerItem

LEMMA HandlerFine ==
  ASSUME TS, Fine, NEW h \in Slots, Step(h)
  PROVE  Fine'
PROOF
<1>0. Typed /\ Filled(book) /\ TS'
  BY HandlerTyped DEF TS, Sound
<1>1. excused' = excused
  BY <1>0, HandlerStep
<1> SUFFICES ASSUME NEW i \in Items \ excused PROVE Good(i)'
  BY <1>1 DEF Fine
<1>2. Good(i)
  BY DEF Fine
<1>3. CASE i # handler[h].item
  BY <1>0, <1>2, <1>3, HandlerSame, SameGood
<1>4. CASE i = handler[h].item
  BY <1>2, <1>4, handleGood, ghostGateGood, consumeGood, storeHashGood, recordGood, countGood
     DEF Step
<1> QED BY <1>3, <1>4

-----------------------------------------------------------------------------
(* The user and Thunderbird                                                 *)

(* A write of one item, by whoever: what it does to the others.             *)
LEMMA WriteOthers ==
  ASSUME NEW i \in Items, NEW card, NEW j \in Items, book' = With(book, i, card),
         j # i, book'[j] = book[j]
  PROVE  \/ Listed(j)' => Listed(j)
         \/ i \in Lists /\ j \in Memberships /\ j[1] = i /\ book[i] = NoCard /\ card # NoCard
PROOF
<1>1. CASE j \notin Memberships
  BY <1>1 DEF Listed
<1>2. CASE j \in Memberships
  <2>1. j[1] \in Lists /\ j[1] \in Items /\ j[1] \notin Memberships
    BY <1>2, ItemKinds
  <2>2. CASE j[1] = i
    <3>1. book'[i] = card
      BY WithIs
    <3> QED BY <1>2, <2>1, <2>2, <3>1 DEF Listed
  <2>3. CASE j[1] # i
    <3>1. book'[j[1]] = book[j[1]]
      BY <2>1, <2>3, WithIs
    <3> QED BY <1>2, <3>1 DEF Listed
  <2> QED BY <2>2, <2>3
<1> QED BY <1>1, <1>2

(* A touched membership whose list stands had a list before.                *)
LEMMA TouchedListed ==
  ASSUME NEW i \in Items, NEW card, NEW j \in Items, Touched(i, card, j),
         card # book[i], book' = With(book, i, card), Listed(j)'
  PROVE  Listed(j) /\ book'[j] # book[j]
         /\ book'[j] = With(book, i, card)[j] /\ (j # i => card = NoCard)
PROOF
<1>1. book'[j] # book[j]
  BY WithIs DEF Touched
<1>2. j # i => Falls(i, card, j)
  BY <1>1, WithIs
<1>3. Listed(j)
  <2>1. CASE j \notin Memberships
    BY <2>1 DEF Listed
  <2>2. CASE j \in Memberships
    <3>1. j[1] \in Lists /\ j[1] \in Items /\ j[1] \notin Memberships
      BY <2>2, ItemKinds
    <3>2. CASE j[1] = i
      <4>1. book'[i] = card /\ j # i
        BY <2>2, <3>1, <3>2, WithIs
      <4>2. card = NoCard
        BY <1>2, <4>1 DEF Falls
      <4> QED BY <2>2, <3>2, <4>1, <4>2 DEF Listed
    <3>3. CASE j[1] # i
      <4>1. book'[j[1]] = book[j[1]]
        BY <3>1, <3>3, WithIs
      <4> QED BY <2>2, <4>1 DEF Listed
    <3> QED BY <3>2, <3>3
  <2> QED BY <2>1, <2>2
<1> QED BY <1>1, <1>2, <1>3 DEF Falls

(* Nothing is known of the members of a list that is made.                  *)
LEMMA NewMember ==
  ASSUME Unborn, NEW j \in Memberships, j[1] \notin born,
         book'[j] = book[j], base'[j] = base[j], St(j)' = St(j),
         j \in mine' <=> j \in mine,
         \A h \in Slots : Busy(h, j)' => Busy(h, j), ~AtWork(j)'
  PROVE  Good(j)'
PROOF
<1>1. UnbornMember(j) /\ j \notin Contacts
  BY ItemKinds DEF Unborn
<1>2. /\ book'[j] = NoCard /\ base'[j] = NoCard /\ j \notin mine'
      /\ \A h \in Slots : ~Busy(h, j)'
      /\ St(j)' = NoStatus
  BY <1>1 DEF UnbornMember
<1>3. Clean(j)'
  BY <1>2 DEF Clean, Right
<1> QED BY <1>1, <1>2, <1>3 DEF Good, Hears, Rests, Syncs

LEMMA UserEditFine ==
  ASSUME TS, Fine, Unborn, NEW i \in Items, NEW card \in Contents(i), UserEdit(i, card)
  PROVE  Fine'
PROOF
<1>0. Typed /\ handler \in [Slots -> HandlerRec] /\ mine \in SUBSET Items
  BY DEF TS, Typed
<1>1. /\ UNCHANGED <<server, base, queue, hashes, writes, sync, badge, serverEdits>>
      /\ Possible(book, i, card) /\ book' = With(book, i, card)
      /\ Fire(EventsOf(i, card))
      /\ mine' = mine \cup {e.item : e \in EventsOf(i, card)}
      /\ Overlaps({e.item : e \in EventsOf(i, card)})
      /\ BornWith(i, card)
  BY DEF UserEdit
<1>2. {e.item : e \in EventsOf(i, card)} = {j \in Items : Touched(i, card, j)}
  BY EditEvents
<1>3. /\ \A h \in Slots : handler[h].at # "idle" => handler'[h] = handler[h]
      /\ \A h \in Slots : \A j \in Items :
           Busy(h, j)' /\ ~Busy(h, j) =>
             /\ Touched(i, card, j)
             /\ handler'[h] = Begins(OpOf(book[j], With(book, i, card)[j]), j)
      /\ \A j \in Items : Touched(i, card, j) /\ (\A h \in Slots : ~Busy(h, j)) =>
           \E h \in Slots : Busy(h, j)' /\ \A g \in Slots : Busy(g, j)' => g = h
  BY <1>0, <1>1, EditFires
<1>4. card # book[i]
  BY <1>1 DEF Possible
<1> SUFFICES ASSUME NEW j \in Items \ excused' PROVE Good(j)'
  BY DEF Fine
<1>5. j \notin excused /\ (Touched(i, card, j) => Still(j))
  BY <1>0, <1>1, <1>2, Unexcused
<1>6. Good(j)
  BY <1>5 DEF Fine
<1>7. CASE Touched(i, card, j)
  <2>1. Still(j) /\ Clean(j) /\ (j \in Contacts => hashes[j] = book[j])
    BY <1>5, <1>6, <1>7, StillGood
  <2>2. PICK h \in Slots : Busy(h, j)' /\ \A g \in Slots : Busy(g, j)' => g = h
    BY <1>3, <1>7, <2>1 DEF Still
  <2>3. handler'[h] = Begins(OpOf(book[j], book'[j]), j)
    BY <1>1, <1>3, <2>1, <2>2 DEF Still
  <2>4. /\ handler'[h].at = "start" /\ handler'[h].op = OpOf(book[j], book'[j])
        /\ handler'[h].item = j
    BY <2>3 DEF Begins
  <2>5. ~AtWork(j)'
    BY <1>1, <2>1 DEF Still, AtWork, Synced
  <2>6. handler'[h].op = "deleted" <=> book'[j] = NoCard
    BY <2>4, OpOfFacts
  <2>7. Sane(h, j)'
    BY <2>4, <2>6 DEF Sane
  <2>8. FreshTags(queue', j) = {} /\ j \in mine' /\ St(j)' = St(j)
    BY <1>1, <1>2, <1>7, <2>1 DEF Still, St
  <2>9. CASE Listed(j)'
    <3>1. Listed(j) /\ book'[j] # book[j]
      BY <1>1, <1>4, <1>7, <2>9, TouchedListed
    <3>2. Right(St(j), book[j], base[j])
      BY <2>1, <3>1 DEF Clean
    <3>3. Right(After(OpOf(book[j], book'[j]), St(j)), book'[j], base[j])
      BY <3>1, <3>2, RightNext
    <3>4. j \in Contacts => hashes'[j] # book'[j]
      BY <1>1, <2>1, <3>1
    <3>5. Own(h, j)'
      BY <1>1, <2>4, <2>8, <3>3, <3>4 DEF Own
    <3> QED BY <2>2, <2>5, <2>7, <3>5 DEF Good, Hears, Rests, Syncs
  <2>10. CASE ~Listed(j)'
    <3>1. Dropped(h, j)'
      BY <2>4, <2>8, <2>10 DEF Dropped
    <3> QED BY <2>2, <2>5, <2>7, <3>1 DEF Good, Hears, Rests, Syncs
  <2> QED BY <2>9, <2>10
<1>8. CASE ~Touched(i, card, j)
  <2>1. j # i /\ book'[j] = book[j] /\ (j \in mine' <=> j \in mine)
    BY <1>1, <1>2, <1>8 DEF Touched
  <2>2. /\ \A h \in Slots : Busy(h, j)' => Busy(h, j)
        /\ \A h \in Slots : Busy(h, j) => handler'[h] = handler[h]
    BY <1>3, <1>8 DEF Busy
  <2>3. St(j)' = St(j) /\ (AtWork(j)' <=> AtWork(j))
    BY <1>1 DEF St, AtWork, Synced
  <2>4. CASE Listed(j)' => Listed(j)
    <3>1. j \in Lists => (j \in born' <=> j \in born)
      BY <1>1, <2>1 DEF BornWith
    <3>2. Same(j)
      BY <1>1, <2>1, <2>2, <2>3, <2>4, <3>1 DEF Same
    <3> QED BY <1>6, <3>2, SameGood
  <2>5. CASE i \in Lists /\ j \in Memberships /\ j[1] = i /\ book[i] = NoCard /\ card # NoCard
    <3>1. j[1] \notin born
      BY <1>1, <2>5 DEF Possible
    <3>2. ~AtWork(j)'
      BY <2>3, <2>5, <3>1 DEF Unborn, UnbornMember, AtWork
    <3> QED BY <1>1, <2>1, <2>2, <2>3, <2>5, <3>1, <3>2, NewMember
  <2> QED BY <1>1, <2>1, <2>4, <2>5, WriteOthers
<1> QED BY <1>7, <1>8

LEMMA GhostFine ==
  ASSUME TS, Fine, NEW i \in Contacts, Ghost(i)
  PROVE  Fine'
PROOF
<1>0. Typed /\ handler \in [Slots -> HandlerRec] /\ i \in Items
  BY ItemKinds DEF TS, Typed
<1>1. /\ UNCHANGED <<book, server, base, queue, hashes, writes, sync, badge,
                     serverEdits, born, mine>>
      /\ book[i] # NoCard /\ Overlaps({i})
      /\ Fire({[op |-> "updated", item |-> i]})
  BY DEF Ghost
<1>2. PICK E : E = {[op |-> "updated", item |-> i]}
  OBVIOUS
<1>3. E \in SUBSET Event /\ Fire(E) /\ \A e, f \in E : e.item = f.item => e = f
  BY <1>0, <1>1, <1>2 DEF Event, Ops
<1>4. /\ \A h \in Slots : handler[h].at # "idle" => handler'[h] = handler[h]
      /\ \A h \in Slots : \/ handler'[h] = handler[h]
                          \/ \E e \in E : handler'[h] = Begins(e.op, e.item)
      /\ \A e \in E : \E h \in Slots :
           handler[h].at = "idle" /\ handler'[h] = Begins(e.op, e.item)
      /\ \A g, h \in Slots :
           (/\ handler[g].at = "idle" /\ handler'[g].at # "idle"
            /\ handler[h].at = "idle" /\ handler'[h].at # "idle"
            /\ handler'[g].item = handler'[h].item
            /\ \A e, f \in E : e.item = f.item => e = f) => g = h
  BY <1>0, <1>3, FireFacts
<1>5. \A h \in Slots : handler'[h] = handler[h] \/ handler'[h] = Begins("updated", i)
  BY <1>2, <1>4
<1> SUFFICES ASSUME NEW j \in Items \ excused' PROVE Good(j)'
  BY DEF Fine
<1>6. j \notin excused /\ (j = i => Still(j))
  BY <1>0, <1>1, Unexcused
<1>7. Good(j)
  BY <1>6 DEF Fine
<1>8. CASE j = i
  <2>1. Still(i) /\ Clean(i) /\ hashes[i] = book[i]
    BY <1>6, <1>7, <1>8, StillGood
  <2>2. PICK h \in Slots : handler[h].at = "idle" /\ handler'[h] = Begins("updated", i)
    BY <1>2, <1>4
  <2>3. /\ handler'[h].at = "start" /\ handler'[h].op = "updated" /\ handler'[h].item = i
    BY <2>2 DEF Begins
  <2>4. ASSUME NEW g \in Slots, Busy(g, i)' PROVE g = h
    <3>1. ~Busy(g, i)
      BY <2>1 DEF Still
    <3>2. handler[g].at = "idle"
      BY <1>4, <2>4, <3>1 DEF Busy
    <3>3. handler'[g].at # "idle" /\ handler'[g].item = i
      BY <2>4 DEF Busy
    <3> QED BY <1>3, <1>4, <2>2, <2>3, <3>2, <3>3
  <2>5. ~AtWork(i)'
    BY <1>1, <2>1 DEF Still, AtWork, Synced
  <2>6. Sane(h, i)'
    BY <1>1, <2>3 DEF Sane
  <2>7. Clean(i)'
    BY <1>1, <2>1 DEF Clean, St, Listed
  <2>8. AGhost(h, i)'
    BY <1>1, <2>1, <2>3, <2>7 DEF AGhost, Still
  <2>9. Busy(h, i)'
    BY <2>3 DEF Busy
  <2> QED BY <1>8, <2>4, <2>5, <2>6, <2>8, <2>9 DEF Good, Hears, Rests, Syncs
<1>9. CASE j # i
  <2>1. \A h \in Slots : Busy(h, j)' => Busy(h, j)
    BY <1>5, <1>9 DEF Busy, Begins
  <2>2. \A h \in Slots : Busy(h, j) => handler'[h] = handler[h]
    BY <1>4 DEF Busy
  <2>3. Same(j)
    BY <1>1, <2>1, <2>2 DEF Same, St, Listed
  <2> QED BY <1>7, <2>3, SameGood
<1> QED BY <1>8, <1>9

LEMMA FreezeFine ==
  ASSUME TS, Fine, NEW k \in DOMAIN queue, FreezeEnds(k)
  PROVE  Fine'
PROOF
<1>1. /\ UNCHANGED <<book, server, base, hashes, writes, handler, sync, badge,
                     edits, serverEdits, born, mine, excused>>
      /\ Neat(queue') /\ Neat(queue)
      /\ \A i \in Items : /\ St(i)' = St(i)
                          /\ About(queue', i) # About(queue, i) =>
                               ~Synced(i) /\ \A h \in Slots : ~Busy(h, i)
  BY FreezeFacts DEF TS, Typed
<1> SUFFICES ASSUME NEW i \in Items \ excused PROVE Good(i)'
  BY <1>1 DEF Fine
<1>2. Good(i)
  BY DEF Fine
<1>3. CASE About(queue', i) = About(queue, i)
  <2>1. FreshTags(queue', i) = FreshTags(queue, i) /\ ExactTag(queue', i) = ExactTag(queue, i)
    BY <1>1, <1>3, SameAbout
  <2>2. Same(i)
    BY <1>1, <2>1 DEF Same, Busy, AtWork, Synced, Listed
  <2> QED BY <1>2, <2>2, SameGood
<1>4. CASE About(queue', i) # About(queue, i)
  <2>1. ~Synced(i) /\ \A h \in Slots : ~Busy(h, i)
    BY <1>1, <1>4
  <2>2. ~Synced(i)' /\ \A h \in Slots : ~Busy(h, i)'
    BY <1>1, <2>1 DEF Synced, Busy
  <2>3. Clean(i) /\ (i \in Contacts => hashes[i] = book[i])
    BY <1>2, <2>1 DEF Good, Rests
  <2>4. Clean(i)'
    BY <1>1, <2>3 DEF Clean, Listed
  <2> QED BY <1>1, <2>2, <2>3, <2>4 DEF Good, Hears, Rests, Syncs, AtWork
<1> QED BY <1>3, <1>4

LEMMA ServerEditFine ==
  ASSUME TS, Fine, NEW i \in Items, NEW card, ServerEdit(i, card)
  PROVE  Fine'
PROOF
<1>1. UNCHANGED <<book, base, queue, hashes, writes, handler, sync, badge,
                  edits, born, mine, excused>>
  BY DEF ServerEdit
<1> SUFFICES ASSUME NEW j \in Items \ excused PROVE Good(j)'
  BY <1>1 DEF Fine
<1>2. Same(j)
  BY <1>1 DEF Same, Busy, AtWork, Synced, Listed, St
<1> QED BY <1>2, SameGood DEF Fine

-----------------------------------------------------------------------------
(* The sync                                                                 *)

LEMMA PullFine ==
  ASSUME TS, Fine, NEW i \in Items, Pull(i)
  PROVE  Fine'
PROOF
<1>0. Typed
  BY DEF TS
<1>1. /\ UNCHANGED <<book, server, base, queue, hashes, handler, badge,
                     edits, serverEdits, born, mine>>
      /\ sync.at = "idle" /\ Overlaps({i})
      /\ sync' = [at |-> "markServerWrite", op |-> OpOf(book[i], server[i]), item |-> i,
                  card |-> server[i], covers |-> FALSE]
      /\ server[i] # NoCard /\ server[i] # book[i] => Possible(book, i, server[i])
  BY DEF Pull
<1>2. /\ sync'.at = "markServerWrite" /\ sync'.op = OpOf(book[i], server[i])
      /\ sync'.item = i /\ sync'.card = server[i]
  BY <1>1
<1> SUFFICES ASSUME NEW j \in Items \ excused' PROVE Good(j)'
  BY DEF Fine
<1>3. j \notin excused /\ (j = i => Still(j))
  BY <1>0, <1>1, Unexcused
<1>4. Good(j)
  BY <1>3 DEF Fine
<1>5. CASE j # i
  <2>1. ~AtWork(j) /\ ~AtWork(j)'
    BY <1>1, <1>2, <1>5 DEF AtWork, Synced
  <2>2. Same(j)
    BY <1>1, <2>1 DEF Same, Busy, Listed, St
  <2> QED BY <1>4, <2>2, SameGood
<1>6. CASE j = i
  <2>1. Still(i) /\ Clean(i) /\ (i \in Contacts => hashes[i] = book[i])
    BY <1>3, <1>4, <1>6, StillGood
  <2>2. Clean(i)'
    BY <1>1, <2>1 DEF Clean, St, Listed
  <2>3. \A h \in Slots : ~Busy(h, i)'
    BY <1>1, <2>1 DEF Still, Busy
  <2>4. i \in Lists /\ sync'.op = "created" => i \notin born'
    <3>1. OpOf(book[i], server[i]) = "created" => server[i] # NoCard /\ book[i] = NoCard
      BY OpOfFacts
    <3> QED BY <1>1, <1>2, <3>1 DEF Possible
  <2>5. Syncs(i)'
    BY <1>1, <1>2, <2>1, <2>4 DEF Syncs, Still
  <2> QED BY <1>1, <1>6, <2>1, <2>2, <2>3, <2>5 DEF Good, Hears, Rests
<1> QED BY <1>5, <1>6

LEMMA PushFine ==
  ASSUME TS, Fine, NEW i \in Items, Push(i)
  PROVE  Fine'
PROOF
<1>0. Typed
  BY DEF TS
<1>1. /\ UNCHANGED <<book, server, base, queue, hashes, writes, handler, badge,
                     edits, serverEdits, born, mine>>
      /\ sync.at = "idle" /\ Overlaps({i})
      /\ sync' = [at |-> "send", op |-> "updated", item |-> i, card |-> book[i],
                  covers |-> FALSE]
  BY DEF Push
<1>2. sync'.at = "send" /\ sync'.item = i /\ sync'.card = book[i]
  BY <1>1
<1> SUFFICES ASSUME NEW j \in Items \ excused' PROVE Good(j)'
  BY DEF Fine
<1>3. j \notin excused /\ (j = i => Still(j))
  BY <1>0, <1>1, Unexcused
<1>4. Good(j)
  BY <1>3 DEF Fine
<1>5. CASE j # i
  <2>1. ~AtWork(j) /\ ~AtWork(j)'
    BY <1>1, <1>2, <1>5 DEF AtWork, Synced
  <2>2. Same(j)
    BY <1>1, <2>1 DEF Same, Busy, Listed, St
  <2> QED BY <1>4, <2>2, SameGood
<1>6. CASE j = i
  <2>1. Still(i) /\ Clean(i) /\ (i \in Contacts => hashes[i] = book[i])
    BY <1>3, <1>4, <1>6, StillGood
  <2>2. Clean(i)'
    BY <1>1, <2>1 DEF Clean, St, Listed
  <2>3. \A h \in Slots : ~Busy(h, i)'
    BY <1>1, <2>1 DEF Still, Busy
  <2>4. Syncs(i)'
    BY <1>1, <1>2, <2>1 DEF Syncs, Still
  <2> QED BY <1>1, <1>6, <2>1, <2>2, <2>3, <2>4 DEF Good, Hears, Rests
<1> QED BY <1>5, <1>6

LEMMA MarkFine ==
  ASSUME TS, Fine, Unborn, markServerWrite
  PROVE  Fine'
PROOF
<1>0. /\ Typed /\ sync \in SyncRec /\ Neat(queue) /\ FreshOnes(queue)
  BY DEF TS, Typed, Sound
<1>00. sync.item \in Items /\ sync.op \in Ops
  BY <1>0 DEF SyncRec
<1>1. PICK i \in Items : i = sync.item
  BY <1>00
<1>2. /\ UNCHANGED <<book, server, base, hashes, handler, badge,
                     edits, serverEdits, born, mine, excused>>
      /\ sync.at = "markServerWrite"
      /\ queue' = markServerWriteUpdater(queue, TagId(i, sync.op), TagFor(sync.op))
      /\ sync' = [sync EXCEPT !.at = "write",
                   !.covers = UserStatus(queue, TagId(i, sync.op)) # NoStatus]
  BY <1>1 DEF markServerWrite
<1>3. PICK c \in BOOLEAN : c = (UserStatus(queue, TagId(i, sync.op)) # NoStatus)
  OBVIOUS
<1>4. /\ sync' \in SyncRec /\ sync'.at = "write"
      /\ sync'.op = sync.op /\ sync'.item = i /\ sync'.card = sync.card
  BY <1>0, <1>1, <1>2, <1>3, SyncMoves
<1>5. sync'.covers = c
  BY <1>0, <1>2, <1>3 DEF SyncRec
<1>6. /\ Neat(queue') /\ \A j \in Items : j # i => About(queue', j) = About(queue, j)
      /\ i \in Lists /\ sync.op = "created" =>
           /\ UserStatus(queue', Id(i)) = UserStatus(queue, Id(i))
           /\ ExactTag(queue', i) = ExactTag(queue, i)
      /\ ~(i \in Lists /\ sync.op = "created") => UserStatus(queue', Id(i)) = NoStatus
      /\ FreshTags(queue, i) = {} /\ (i \in Lists /\ sync.op = "created" => ExactTag(queue, i) = {})
           => Expected(queue', i, sync.op)
  BY <1>0, <1>00, <1>2, MarkFacts
<1> SUFFICES ASSUME NEW j \in Items \ excused PROVE Good(j)'
  BY <1>2 DEF Fine
<1>7. Good(j)
  BY DEF Fine
<1>8. CASE j # i
  <2>1. ~AtWork(j) /\ ~AtWork(j)'
    BY <1>1, <1>4, <1>8 DEF AtWork, Synced
  <2>2. /\ UserStatus(queue', Id(j)) = UserStatus(queue, Id(j))
        /\ FreshTags(queue', j) = FreshTags(queue, j) /\ ExactTag(queue', j) = ExactTag(queue, j)
    BY <1>0, <1>6, <1>8, SameAbout
  <2>3. Same(j)
    BY <1>2, <2>1, <2>2 DEF Same, Busy, Listed, St
  <2> QED BY <1>7, <2>3, SameGood
<1>9. CASE j = i
  <2>1. AtWork(i) /\ Good(i)
    BY <1>1, <1>2, <1>7, <1>9 DEF AtWork, Synced
  <2>2. \A h \in Slots : ~Busy(h, i)
    BY <2>1 DEF Good, Hears
  <2>3. /\ FreshTags(queue, i) = {} /\ sync.op = OpOf(book[i], sync.card)
        /\ i \in Lists /\ sync.op = "created" => i \notin born
    BY <1>2, <2>1 DEF Good, Syncs
  <2>4. Clean(i) /\ (i \in Contacts => hashes[i] = book[i])
    BY <1>2, <2>1, <2>2 DEF Good, Rests
  <2>5. i \in Lists /\ sync.op = "created" => ExactTag(queue, i) = {} /\ St(i) = NoStatus
    BY <2>3 DEF Unborn, UnbornList
  <2>6. Expected(queue', i, sync.op) /\ St(i)' = NoStatus
    BY <1>6, <2>3, <2>5 DEF St
  <2>7. ASSUME ~sync'.covers PROVE Clean(i)'
    <3>1. UserStatus(queue, TagId(i, sync.op)) = NoStatus
      BY <1>3, <1>5, <2>7
    <3>2. St(i) = NoStatus
      BY <1>00, <2>5, <3>1, TagIdFacts DEF St
    <3> QED BY <1>2, <2>4, <2>6, <3>2 DEF Clean, Listed
  <2>8. Syncs(i)'
    BY <1>2, <1>4, <2>3, <2>6, <2>7 DEF Syncs
  <2>9. Rests(i)'
    BY <1>2, <1>4, <2>4 DEF Rests, Synced
  <2>10. Hears(i)'
    BY <1>2, <2>2 DEF Hears, Busy
  <2> QED BY <1>9, <2>8, <2>9, <2>10 DEF Good
<1> QED BY <1>8, <1>9

LEMMA SettledFine ==
  ASSUME TS, Fine, Settled
  PROVE  Fine'
PROOF
<1>0. /\ Typed /\ sync \in SyncRec /\ Neat(queue)
  BY DEF TS, Typed
<1>1. /\ UNCHANGED <<book, server, base, hashes, handler, badge,
                     edits, serverEdits, born, mine, excused>>
      /\ sync.at \in {"remove", "moveToTail"} /\ sync.item \in Items
      /\ sync'.at = "report" /\ sync'.item = sync.item
      /\ Neat(queue')
      /\ \A j \in Items : j # sync.item => About(queue', j) = About(queue, j)
      /\ UserStatus(queue', Id(sync.item)) =
           IF sync.at = "remove" THEN NoStatus ELSE UserStatus(queue, Id(sync.item))
  BY SettledFacts
<1> SUFFICES ASSUME NEW j \in Items \ excused PROVE Good(j)'
  BY <1>1 DEF Fine
<1>2. Good(j)
  BY DEF Fine
<1>3. CASE j # sync.item
  <2>1. ~AtWork(j) /\ ~AtWork(j)'
    BY <1>1, <1>3 DEF AtWork, Synced
  <2>2. /\ UserStatus(queue', Id(j)) = UserStatus(queue, Id(j))
        /\ FreshTags(queue', j) = FreshTags(queue, j) /\ ExactTag(queue', j) = ExactTag(queue, j)
    BY <1>0, <1>1, <1>3, SameAbout
  <2>3. Same(j)
    BY <1>1, <2>1, <2>2 DEF Same, Busy, Listed, St
  <2> QED BY <1>2, <2>3, SameGood
<1>4. CASE j = sync.item
  <2>1. AtWork(j) /\ ~AtWork(j)'
    BY <1>1, <1>4 DEF AtWork, Synced
  <2>2. \A h \in Slots : ~Busy(h, j)
    BY <1>2, <2>1 DEF Good, Hears
  <2>3. j \in Contacts => hashes[j] = book[j]
    BY <1>2, <2>2 DEF Good, Rests
  <2>4. Clean(j)'
    <3>1. CASE sync.at = "remove"
      <4>1. base[j] = book[j]
        BY <1>2, <2>1, <3>1 DEF Good, Syncs
      <4>2. St(j)' = NoStatus
        BY <1>1, <1>4, <3>1 DEF St
      <4> QED BY <1>1, <4>1, <4>2 DEF Clean, Right
    <3>2. CASE sync.at = "moveToTail"
      <4>1. Clean(j)
        BY <1>2, <2>2, <3>2 DEF Good, Rests
      <4>2. St(j)' = St(j)
        BY <1>1, <1>4, <3>2 DEF St
      <4> QED BY <1>1, <4>1, <4>2 DEF Clean, Listed
    <3> QED BY <1>1, <3>1, <3>2
  <2>5. \A h \in Slots : ~Busy(h, j)'
    BY <1>1, <2>2 DEF Busy
  <2> QED BY <1>1, <2>1, <2>3, <2>4, <2>5 DEF Good, Hears, Rests, Syncs
<1> QED BY <1>3, <1>4

LEMMA ReportFine ==
  ASSUME TS, Fine, Report
  PROVE  Fine'
PROOF
<1>1. /\ UNCHANGED <<book, server, base, queue, hashes, writes, handler,
                     edits, serverEdits, born, mine, excused>>
      /\ sync.at = "report" /\ sync' = NoSync
  BY DEF Report
<1> SUFFICES ASSUME NEW j \in Items \ excused PROVE Good(j)'
  BY <1>1 DEF Fine
<1>2. ~AtWork(j) /\ ~AtWork(j)'
  BY <1>1 DEF AtWork, Synced, NoSync
<1>3. Same(j)
  BY <1>1, <1>2 DEF Same, Busy, Listed, St
<1> QED BY <1>3, SameGood DEF Fine

LEMMA WithSelf ==
  ASSUME NEW s, NEW i \in Items, NEW card
  PROVE  With(s, i, card)[i] = card
PROOF
  BY WithIs

(* What falls with an item, and is not excused, is a member at rest of the  *)
(* list that goes.                                                          *)
LEMMA FallsAtRest ==
  ASSUME Typed, NEW s, NEW i \in Items, NEW card, NEW j \in Items,
         j # i, With(s, i, card)[j] # s[j], j \notin Fallen(s, i, card)
  PROVE  /\ Still(j) /\ j \in Memberships /\ j \notin Contacts /\ card = NoCard
         /\ i = j[1] /\ i \in Lists /\ With(s, i, card)[j] = NoCard
PROOF
<1>1. i \notin Contacts /\ Moment(j) = "rest"
  BY DEF Fallen
<1>2. Falls(i, card, j)
  BY WithIs
<1>3. j \in Memberships /\ card = NoCard /\ (i = j[1] \/ i = j[2])
  BY <1>2 DEF Falls
<1>4. j[1] \in Lists /\ j[2] \in Contacts /\ j \notin Contacts
  BY <1>3, ItemKinds
<1>5. With(s, i, card)[j] = NoCard
  BY <1>2, WithFalls
<1>6. Still(j)
  BY <1>1, RestIs
<1> QED BY <1>1, <1>3, <1>4, <1>5, <1>6

LEMMA RefusedFine ==
  ASSUME TS, Fine, Write, Refused
  PROVE  Fine'
PROOF
<1>0. Typed /\ sync \in SyncRec
  BY DEF TS, Typed
<1>1. /\ sync.at = "write" /\ sync' = [sync EXCEPT !.at = "report"]
      /\ UNCHANGED <<server, queue, hashes, writes, badge, edits, serverEdits>>
  BY <1>0, WriteIs
<1>2. sync'.at = "report" /\ sync'.item = sync.item
  BY <1>0, <1>1, SyncMoves
<1>3. /\ excused' = IF sync.covers THEN excused \cup {sync.item} ELSE excused
      /\ UNCHANGED <<book, base, handler, born, mine>>
  BY DEF Refused
<1> SUFFICES ASSUME NEW j \in Items \ excused' PROVE Good(j)'
  BY DEF Fine
<1>4. j \notin excused /\ (j = sync.item => ~sync.covers)
  BY <1>3
<1>5. Good(j)
  BY <1>4 DEF Fine
<1>6. CASE j # sync.item
  <2>1. ~AtWork(j) /\ ~AtWork(j)'
    BY <1>2, <1>6 DEF AtWork, Synced
  <2>2. Same(j)
    BY <1>1, <1>3, <2>1 DEF Same, Busy, Listed, St
  <2> QED BY <1>5, <2>2, SameGood
<1>7. CASE j = sync.item
  <2>1. AtWork(j) /\ ~AtWork(j)'
    BY <1>1, <1>2, <1>7 DEF AtWork, Synced
  <2>2. \A h \in Slots : ~Busy(h, j)
    BY <1>5, <2>1 DEF Good, Hears
  <2>3. Clean(j)
    BY <1>1, <1>4, <1>5, <1>7, <2>1 DEF Good, Syncs
  <2>4. Clean(j)'
    BY <1>1, <1>3, <2>3 DEF Clean, St, Listed
  <2>5. \A h \in Slots : ~Busy(h, j)'
    BY <1>3, <2>2 DEF Busy
  <2>6. j \in Contacts => hashes[j] = book[j]
    BY <1>5, <2>2 DEF Good, Rests
  <2> QED BY <1>1, <1>3, <2>1, <2>4, <2>5, <2>6 DEF Good, Hears, Rests, Syncs
<1> QED BY <1>6, <1>7

(* The handlers a write of the sync starts.                                 *)
LEMMA MadeFires ==
  ASSUME TS, Write, Made
  PROVE  /\ \A h \in Slots : handler[h].at # "idle" => handler'[h] = handler[h]
         /\ \A h \in Slots : \A j \in Items :
              Busy(h, j)' /\ ~Busy(h, j) =>
                /\ Touched(sync.item, sync.card, j)
                /\ handler'[h] = Begins(OpOf(book[j], book'[j]), j)
         /\ handler' # handler => \A j \in Items :
              Touched(sync.item, sync.card, j) /\ (\A h \in Slots : ~Busy(h, j)) =>
                \E h \in Slots : Busy(h, j)' /\ \A g \in Slots : Busy(g, j)' => g = h
         /\ handler' = handler =>
              sync.op = "deleted" /\ book[sync.item] = NoCard
PROOF
<1>0. handler \in [Slots -> HandlerRec] /\ sync.item \in Items
  BY DEF TS, Typed, SyncRec
<1>1. book' = With(book, sync.item, sync.card)
  BY DEF Made
<1>2. CASE sync.op = "deleted" /\ book[sync.item] = NoCard /\ UNCHANGED handler
  BY <1>2 DEF Busy
<1>3. CASE Fire(EventsOf(sync.item, sync.card))
  <2>1. /\ \A h \in Slots : handler[h].at # "idle" => handler'[h] = handler[h]
        /\ \A h \in Slots : \A j \in Items :
             Busy(h, j)' /\ ~Busy(h, j) =>
               /\ Touched(sync.item, sync.card, j)
               /\ handler'[h] = Begins(OpOf(book[j], With(book, sync.item, sync.card)[j]), j)
        /\ \A j \in Items : Touched(sync.item, sync.card, j) /\ (\A h \in Slots : ~Busy(h, j)) =>
             \E h \in Slots : Busy(h, j)' /\ \A g \in Slots : Busy(g, j)' => g = h
    BY <1>0, <1>3, EditFires
  <2>2. handler' # handler
    <3>1. PICK e \in EventsOf(sync.item, sync.card) : e.item = sync.item
      BY <1>0, EditEvents DEF Touched
    <3>2. PICK E : E = EventsOf(sync.item, sync.card)
      OBVIOUS
    <3>3. E \in SUBSET Event
      BY <1>0, <3>2, EditEvents
    <3>4. \E h \in Slots : handler[h].at = "idle" /\ handler'[h] = Begins(e.op, e.item)
      BY <1>0, <1>3, <3>1, <3>2, <3>3, FireFacts
    <3> QED BY <3>4 DEF Begins
  <2> QED BY <1>1, <2>1, <2>2
<1> QED BY <1>2, <1>3 DEF Made

LEMMA MadeFine ==
  ASSUME TS, Fine, Unborn, Write, Made
  PROVE  Fine'
PROOF
<1>0. /\ Typed /\ sync \in SyncRec /\ handler \in [Slots -> HandlerRec] /\ Closed(book)
      /\ sync.item \in Items
  BY DEF TS, Typed, Sound, SyncRec
<1>1. PICK i \in Items : i = sync.item
  BY <1>0
<1>2. PICK card : card = sync.card
  OBVIOUS
<1>3. /\ sync.at = "write" /\ sync' = [sync EXCEPT !.at = "report"]
      /\ UNCHANGED <<server, queue, hashes, writes, badge, edits, serverEdits>>
  BY <1>0, WriteIs
<1>4. sync'.at = "report" /\ sync'.item = i
  BY <1>0, <1>1, <1>3, SyncMoves
<1>5. /\ Fits /\ base' = With(base, i, card) /\ book' = With(book, i, card)
      /\ mine' = mine \ {i}
      /\ excused' = excused \cup Fallen(book, i, card) \cup Fallen(base, i, card)
      /\ BornWith(i, card)
  BY <1>1, <1>2 DEF Made
<1>6. /\ \A h \in Slots : handler[h].at # "idle" => handler'[h] = handler[h]
      /\ \A h \in Slots : \A j \in Items :
           Busy(h, j)' /\ ~Busy(h, j) =>
             /\ Touched(i, card, j)
             /\ handler'[h] = Begins(OpOf(book[j], book'[j]), j)
      /\ handler' # handler => \A j \in Items :
           Touched(i, card, j) /\ (\A h \in Slots : ~Busy(h, j)) =>
             \E h \in Slots : Busy(h, j)' /\ \A g \in Slots : Busy(g, j)' => g = h
      /\ handler' = handler => sync.op = "deleted" /\ book[i] = NoCard
  BY <1>1, <1>2, MadeFires
<1>7. \A j : ~AtWork(j)'
  BY <1>4 DEF AtWork
<1>8. /\ sync.op = "deleted" <=> card = NoCard
      /\ sync.op \in {"created", "updated", "deleted"}
  BY <1>0, <1>2, <1>3 DEF TS, Sound, SyncRec, Ops
<1> SUFFICES ASSUME NEW j \in Items \ excused' PROVE Good(j)'
  BY DEF Fine
<1>9. j \notin excused /\ j \notin Fallen(book, i, card) /\ j \notin Fallen(base, i, card)
  BY <1>5
<1>10. Good(j)
  BY <1>9 DEF Fine
<1>11. CASE j = i
  <2>1. AtWork(i) /\ Good(i)
    BY <1>1, <1>3, <1>10, <1>11 DEF AtWork, Synced
  <2>2. \A h \in Slots : ~Busy(h, i)
    BY <2>1 DEF Good, Hears
  <2>3. /\ sync.op = OpOf(book[i], card) /\ Expected(queue, i, sync.op) /\ St(i) = NoStatus
    BY <1>2, <1>3, <2>1 DEF Good, Syncs
  <2>4. book'[i] = card /\ base'[i] = card
    BY <1>5, WithSelf
  <2>5. St(i)' = NoStatus
    BY <1>3, <2>3 DEF St
  <2>6. CASE handler' = handler
    <3>1. card = NoCard /\ book[i] = NoCard
      BY <1>6, <1>8, <2>6
    <3>2. i \in Contacts => hashes'[i] = book'[i]
      BY <1>3, <2>1, <2>2, <2>4, <3>1 DEF Good, Rests
    <3>3. Clean(i)'
      BY <2>4, <2>5 DEF Clean, Right
    <3>4. \A h \in Slots : ~Busy(h, i)'
      BY <2>2, <2>6 DEF Busy
    <3> QED BY <1>7, <1>11, <3>2, <3>3, <3>4 DEF Good, Hears, Rests, Syncs
  <2>7. CASE handler' # handler
    <3>1. Touched(i, card, i)
      BY DEF Touched
    <3>2. PICK h \in Slots : Busy(h, i)' /\ \A g \in Slots : Busy(g, i)' => g = h
      BY <1>6, <2>2, <2>7, <3>1
    <3>3. handler'[h] = Begins(OpOf(book[i], book'[i]), i)
      BY <1>6, <2>2, <3>2
    <3>4. handler'[h].at = "start" /\ handler'[h].op = sync.op /\ handler'[h].item = i
      BY <2>3, <2>4, <3>3 DEF Begins
    <3>5. Sane(h, i)'
      BY <1>8, <2>4, <3>4 DEF Sane
    <3>6. OfSync(h, i)'
      BY <1>3, <2>3, <2>4, <2>5, <3>4 DEF OfSync
    <3> QED BY <1>7, <1>11, <3>2, <3>5, <3>6 DEF Good, Hears, Rests, Syncs
  <2> QED BY <2>6, <2>7
<1>12. CASE j # i /\ book'[j] # book[j]
  <2>1. /\ Still(j) /\ j \in Memberships /\ j \notin Contacts /\ card = NoCard
        /\ i = j[1] /\ i \in Lists /\ book'[j] = NoCard
    BY <1>0, <1>5, <1>9, <1>12, FallsAtRest
  <2>2. book'[i] = NoCard
    BY <1>5, <2>1, WithSelf
  <2>3. ~Listed(j)'
    BY <2>1, <2>2 DEF Listed
  <2>4. book[i] # NoCard
    BY <1>0, <1>12, <2>1 DEF Closed
  <2>5. handler' # handler /\ Touched(i, card, j)
    BY <1>5, <1>6, <1>12, <2>4 DEF Touched
  <2>6. PICK h \in Slots : Busy(h, j)' /\ \A g \in Slots : Busy(g, j)' => g = h
    BY <1>6, <2>1, <2>5 DEF Still
  <2>7. handler'[h] = Begins(OpOf(book[j], book'[j]), j)
    BY <1>6, <2>1, <2>6 DEF Still
  <2>8. /\ handler'[h].at = "start" /\ handler'[h].op = OpOf(book[j], book'[j])
        /\ handler'[h].item = j
    BY <2>7 DEF Begins
  <2>9. handler'[h].op = "deleted" <=> book'[j] = NoCard
    BY <2>8, OpOfFacts
  <2>10. Sane(h, j)'
    BY <2>8, <2>9 DEF Sane
  <2>11. j \notin mine => St(j) = NoStatus
    BY <1>10, <2>1, StillGood DEF Clean
  <2>12. Dropped(h, j)'
    BY <1>3, <1>5, <1>12, <2>1, <2>3, <2>8, <2>11 DEF Dropped, Still, St
  <2> QED BY <1>7, <2>6, <2>10, <2>12 DEF Good, Hears, Rests, Syncs
<1>13. CASE j # i /\ book'[j] = book[j]
  <2>1. ~Touched(i, card, j)
    BY <1>5, <1>13 DEF Touched
  <2>2. \A h \in Slots : Busy(h, j)' => Busy(h, j)
    BY <1>6, <2>1
  <2>3. \A h \in Slots : Busy(h, j) => handler'[h] = handler[h]
    BY <1>6 DEF Busy
  <2>4. ~AtWork(j)
    BY <1>1, <1>13 DEF AtWork, Synced
  <2>5. St(j)' = St(j) /\ (j \in mine' <=> j \in mine)
    BY <1>3, <1>5, <1>13 DEF St
  <2>6. CASE base'[j] # base[j]
    <3>1. /\ Still(j) /\ j \in Memberships /\ j \notin Contacts /\ card = NoCard
          /\ i = j[1] /\ i \in Lists
      BY <1>0, <1>5, <1>9, <1>13, <2>6, FallsAtRest
    <3>2. book'[i] = NoCard
      BY <1>5, <3>1, WithSelf
    <3>3. ~Listed(j)'
      BY <3>1, <3>2 DEF Listed
    <3>4. \A h \in Slots : ~Busy(h, j)'
      BY <2>2, <3>1 DEF Still
    <3>5. j \notin mine => St(j) = NoStatus
      BY <1>10, <3>1, StillGood DEF Clean
    <3>6. Clean(j)'
      BY <2>5, <3>3, <3>5 DEF Clean
    <3> QED BY <1>7, <3>1, <3>4, <3>6 DEF Good, Hears, Rests, Syncs
  <2>7. CASE base'[j] = base[j] /\ (Listed(j)' => Listed(j))
    <3>1. j \in Lists => (j \in born' <=> j \in born)
      BY <1>5, <1>13 DEF BornWith
    <3>2. Same(j)
      BY <1>3, <1>7, <1>13, <2>2, <2>3, <2>4, <2>5, <2>7, <3>1 DEF Same
    <3> QED BY <1>10, <3>2, SameGood
  <2>8. CASE /\ base'[j] = base[j] /\ i \in Lists /\ j \in Memberships /\ j[1] = i
             /\ book[i] = NoCard /\ card # NoCard
    <3>1. Possible(book, i, card)
      BY <1>1, <1>2, <1>5, <1>8, <2>8 DEF Fits
    <3>2. j[1] \notin born
      BY <2>8, <3>1 DEF Possible
    <3> QED BY <1>7, <1>13, <2>2, <2>5, <2>8, <3>2, NewMember
  <2> QED BY <1>5, <1>13, <2>6, <2>7, <2>8, WriteOthers
<1> QED BY <1>11, <1>12, <1>13

LEMMA SentFine ==
  ASSUME TS, Fine, Gone, NEW accepted \in BOOLEAN, Sent(accepted)
  PROVE  Fine'
PROOF
<1>0. /\ Typed /\ sync \in SyncRec /\ sync.item \in Items
  BY DEF TS, Typed, SyncRec
<1>1. PICK i \in Items : i = sync.item
  BY <1>0
<1>2. PICK card : card = sync.card
  OBVIOUS
<1>3. /\ UNCHANGED <<book, queue, hashes, handler, badge, edits, serverEdits, born>>
      /\ sync.at = "send"
      /\ sync' = [sync EXCEPT !.at = IF accepted THEN "remove" ELSE "moveToTail"]
      /\ base' = IF accepted THEN With(base, i, card) ELSE base
      /\ mine' = IF accepted THEN mine \ {i} ELSE mine
      /\ excused' = IF accepted THEN excused \cup Fallen(base, i, card) ELSE excused
  BY <1>1, <1>2 DEF Sent
<1>4. /\ sync'.at = IF accepted THEN "remove" ELSE "moveToTail"
      /\ sync'.item = i /\ sync'.card = card
  BY <1>0, <1>1, <1>2, <1>3, SyncMoves
<1> SUFFICES ASSUME NEW j \in Items \ excused' PROVE Good(j)'
  BY DEF Fine
<1>5. j \notin excused
  BY <1>3
<1>6. Good(j)
  BY <1>5 DEF Fine
<1>7. CASE j = i
  <2>1. AtWork(i) /\ AtWork(i)' /\ Good(i)
    BY <1>1, <1>3, <1>4, <1>6, <1>7 DEF AtWork, Synced
  <2>2. \A h \in Slots : ~Busy(h, i)
    BY <2>1 DEF Good, Hears
  <2>3. FreshTags(queue, i) = {} /\ card = book[i]
    BY <1>2, <1>3, <2>1 DEF Good, Syncs
  <2>4. Clean(i) /\ (i \in Contacts => hashes[i] = book[i])
    BY <1>3, <2>1, <2>2 DEF Good, Rests
  <2>5. \A h \in Slots : ~Busy(h, i)'
    BY <1>3, <2>2 DEF Busy
  <2>6. accepted => base'[i] = book'[i]
    BY <1>3, <2>3, WithSelf
  <2>7. ~accepted => Clean(i)'
    BY <1>3, <2>4 DEF Clean, St, Listed
  <2>8. Rests(i)'
    BY <1>3, <1>4, <2>1, <2>4, <2>7 DEF Rests, AtWork
  <2>9. Syncs(i)'
    BY <1>3, <1>4, <2>3, <2>6 DEF Syncs
  <2> QED BY <1>7, <2>5, <2>8, <2>9 DEF Good, Hears
<1>8. CASE j # i /\ base'[j] # base[j]
  <2>1. accepted /\ base' = With(base, i, card) /\ j \notin Fallen(base, i, card)
    BY <1>3, <1>8
  <2>2. /\ Still(j) /\ j \in Memberships /\ j \notin Contacts /\ card = NoCard
        /\ i = j[1] /\ i \in Lists
    BY <1>0, <1>8, <2>1, FallsAtRest
  <2>3. book'[i] = NoCard
    BY <1>1, <1>2, <1>3, <2>2 DEF Gone
  <2>4. ~Listed(j)'
    BY <2>2, <2>3 DEF Listed
  <2>5. \A h \in Slots : ~Busy(h, j)'
    BY <1>3, <2>2 DEF Still, Busy
  <2>6. j \notin mine => St(j) = NoStatus
    BY <1>6, <2>2, StillGood DEF Clean
  <2>7. Clean(j)'
    BY <1>3, <1>8, <2>4, <2>6 DEF Clean, St
  <2>8. ~AtWork(j)'
    BY <1>4, <1>8 DEF AtWork, Synced
  <2>9. ~Synced(j)'
    BY <1>4, <1>8 DEF Synced
  <2> QED BY <2>2, <2>5, <2>7, <2>8, <2>9 DEF Good, Hears, Rests, Syncs
<1>9. CASE j # i /\ base'[j] = base[j]
  <2>1. ~AtWork(j) /\ ~AtWork(j)'
    BY <1>1, <1>4, <1>9 DEF AtWork, Synced
  <2>2. j \in mine' <=> j \in mine
    BY <1>3, <1>9
  <2>3. Same(j)
    BY <1>3, <1>9, <2>1, <2>2 DEF Same, Busy, Listed, St
  <2> QED BY <1>6, <2>3, SameGood
<1> QED BY <1>7, <1>8, <1>9

LEMMA FineNext == TS /\ Fine /\ Unborn /\ Gone /\ [Next]_vars => Fine'
PROOF
<1> SUFFICES ASSUME TS, Fine, Unborn, Gone, [Next]_vars PROVE Fine'
  OBVIOUS
<1>1. CASE \E h \in Slots : Step(h)
  BY <1>1, HandlerFine
<1>2. CASE \E i \in Items : \E card \in Contents(i) : UserEdit(i, card) \/ ServerEdit(i, card)
  BY <1>2, UserEditFine, ServerEditFine
<1>3. CASE \E i \in Contacts : Ghost(i)
  BY <1>3, GhostFine
<1>4. CASE \E k \in DOMAIN queue : FreezeEnds(k)
  BY <1>4, FreezeFine
<1>5. CASE SyncStep
  <2>1. Write => Made \/ Refused
    BY WriteIs DEF TS, Typed
  <2> QED BY <1>5, <2>1, PullFine, PushFine, MarkFine, MadeFine, RefusedFine, SentFine,
             SettledFine, ReportFine DEF SyncStep
<1>6. CASE UNCHANGED vars
  <2> SUFFICES ASSUME NEW j \in Items \ excused PROVE Good(j)'
    BY <1>6 DEF Fine, vars
  <2>1. Same(j)
    BY <1>6 DEF vars, Same, Busy, AtWork, Synced, Listed, St
  <2> QED BY <2>1, SameGood DEF Fine
<1> QED BY <1>1, <1>2, <1>3, <1>4, <1>5, <1>6 DEF Next

-----------------------------------------------------------------------------
(* Lists that never were                                                    *)

(* What a step may do without a list being known of that never was;         *)
LEMMA UnbornListKept ==
  ASSUME NEW i \in Lists, UnbornList(i), i \in born => i \in born',
         book'[i] = book[i] \/ i \in born',
         i \notin born' =>
           /\ base'[i] = base[i] /\ (\A h \in Slots : Busy(h, i)' => Busy(h, i))
           /\ St(i)' = St(i) /\ (ExactTag(queue, i) = {} => ExactTag(queue', i) = {})
           /\ Synced(i)' => \/ sync'.at = "report"
                            \/ /\ sync'.at \in {"markServerWrite", "write"}
                               /\ sync'.op = "created"
                            \/ sync' = sync
  PROVE  UnbornList(i)'
PROOF
<1>1. book'[i] # NoCard => i \in born'
  BY DEF UnbornList
<1>2. ASSUME i \notin born'
      PROVE  /\ base'[i] = NoCard /\ \A h \in Slots : ~Busy(h, i)'
             /\ St(i)' = NoStatus /\ ExactTag(queue', i) = {}
             /\ Synced(i)' => \/ sync'.at = "report"
                              \/ /\ sync'.at \in {"markServerWrite", "write"}
                                 /\ sync'.op = "created"
  BY <1>2 DEF UnbornList, Synced
<1> QED BY <1>1, <1>2 DEF UnbornList

(* nor a member of it.                                                      *)
LEMMA UnbornMemberKept ==
  ASSUME NEW i \in Memberships, UnbornMember(i), i[1] \in born => i[1] \in born',
         i[1] \notin born' =>
           /\ book'[i] \in {book[i], NoCard} /\ base'[i] \in {base[i], NoCard}
           /\ (i \in mine' => i \in mine) /\ (\A h \in Slots : Busy(h, i)' => Busy(h, i))
           /\ (Synced(i)' => Synced(i)) /\ St(i)' = St(i)
           /\ FreshTags(queue', i) \in SUBSET FreshTags(queue, i)
  PROVE  UnbornMember(i)'
PROOF
  BY DEF UnbornMember

(* Where only the queue, handlers and sync change, and the handlers         *)
(* only about what they are about already.                                  *)
Beside(i) ==
  /\ UNCHANGED <<book, base, born, mine>>
  /\ \A h \in Slots : Busy(h, i)' => Busy(h, i)
  /\ St(i)' = St(i)
  /\ FreshTags(queue', i) \in SUBSET FreshTags(queue, i)
  /\ ExactTag(queue, i) = {} => ExactTag(queue', i) = {}

LEMMA HandlerUnborn ==
  ASSUME TS, TS', Unborn, NEW h \in Slots, Step(h)
  PROVE  Unborn'
PROOF
<1>0. Typed /\ Filled(book) /\ handler[h] \in HandlerRec
  BY HandlerStep DEF TS, Typed, Sound
<1>1. /\ UNCHANGED <<book, server, base, sync, edits, serverEdits, born, mine, excused>>
      /\ handler[h].at # "idle"
  BY <1>0, HandlerStep
<1>2. \A j \in Items : j # handler[h].item => Same(j)
  BY HandlerSame
<1>3. Busy(h, handler[h].item)
  BY <1>1 DEF Busy
<1>4. \A i \in Lists : UnbornList(i)'
  <2> SUFFICES ASSUME NEW i \in Lists PROVE UnbornList(i)'
    OBVIOUS
  <2>1. UnbornList(i) /\ i \in Items
    BY ItemKinds DEF Unborn
  <2>2. i \notin born => i # handler[h].item
    BY <1>3, <2>1 DEF UnbornList
  <2>3. i \notin born => /\ St(i)' = St(i) /\ ExactTag(queue', i) = ExactTag(queue, i)
                         /\ \A g \in Slots : Busy(g, i)' => Busy(g, i)
    BY <1>2, <2>1, <2>2 DEF Same
  <2> QED BY <1>1, <2>1, <2>3, UnbornListKept
<1>5. \A i \in Memberships : UnbornMember(i)'
  <2> SUFFICES ASSUME NEW i \in Memberships PROVE UnbornMember(i)'
    OBVIOUS
  <2>1. UnbornMember(i) /\ i \in Items
    BY ItemKinds DEF Unborn
  <2>2. i[1] \notin born => i # handler[h].item
    BY <1>3, <2>1 DEF UnbornMember
  <2>3. i[1] \notin born => /\ St(i)' = St(i) /\ FreshTags(queue', i) = FreshTags(queue, i)
                            /\ \A g \in Slots : Busy(g, i)' => Busy(g, i)
    BY <1>2, <2>1, <2>2 DEF Same
  <2>4. Synced(i)' <=> Synced(i)
    BY <1>1 DEF Synced
  <2> QED BY <1>1, <2>1, <2>3, <2>4, UnbornMemberKept
<1> QED BY <1>4, <1>5 DEF Unborn

LEMMA UserEditUnborn ==
  ASSUME TS, Unborn, NEW i \in Items, NEW card \in Contents(i), UserEdit(i, card)
  PROVE  Unborn'
PROOF
<1>0. handler \in [Slots -> HandlerRec]
  BY DEF TS, Typed
<1>1. /\ UNCHANGED <<server, base, queue, hashes, writes, sync, badge, serverEdits>>
      /\ Possible(book, i, card) /\ book' = With(book, i, card)
      /\ Fire(EventsOf(i, card))
      /\ mine' = mine \cup {e.item : e \in EventsOf(i, card)}
      /\ BornWith(i, card)
  BY DEF UserEdit
<1>2. {e.item : e \in EventsOf(i, card)} = {j \in Items : Touched(i, card, j)}
  BY EditEvents
<1>3. \A h \in Slots : \A j \in Items : Busy(h, j)' /\ ~Busy(h, j) => Touched(i, card, j)
  BY <1>0, <1>1, EditFires
<1>4. born \in SUBSET born' /\ (i \in Lists /\ card # NoCard => i \in born')
  BY <1>1 DEF BornWith
<1>5. ASSUME NEW j \in Lists PROVE UnbornList(j)'
  <2>1. UnbornList(j) /\ j \in Items /\ j \notin Memberships
    BY ItemKinds DEF Unborn
  <2>2. j = i => j \in born'
    BY <1>1, <1>4, <1>5, <2>1 DEF Possible, UnbornList
  <2>3. j # i => book'[j] = book[j] /\ ~Touched(i, card, j)
    BY <1>1, <2>1, WithIs DEF Touched
  <2>4. St(j)' = St(j)
    BY <1>1 DEF St
  <2> QED BY <1>1, <1>3, <1>4, <2>1, <2>2, <2>3, <2>4, UnbornListKept
<1>6. ASSUME NEW j \in Memberships PROVE UnbornMember(j)'
  <2>1. UnbornMember(j) /\ j \in Items /\ j[1] \in Lists
    BY <1>6, ItemKinds DEF Unborn
  <2>2. ASSUME j[1] \notin born PROVE ~Touched(i, card, j) /\ book'[j] = NoCard
    <3>1. book[j] = NoCard /\ book[j[1]] = NoCard
      BY <2>1, <2>2 DEF UnbornMember, Unborn, UnbornList
    <3>2. j # i
      BY <1>1, <1>6, <3>1 DEF Possible
    <3>3. book'[j] = NoCard
      BY <1>1, <2>1, <3>1, <3>2, WithIs
    <3> QED BY <1>1, <3>1, <3>2, <3>3 DEF Touched
  <2>3. St(j)' = St(j) /\ (Synced(j)' <=> Synced(j))
    BY <1>1 DEF St, Synced
  <2>4. j[1] \notin born' => j[1] \notin born
    BY <1>4
  <2> QED BY <1>1, <1>2, <1>3, <1>4, <2>1, <2>2, <2>3, <2>4, UnbornMemberKept
<1> QED BY <1>5, <1>6 DEF Unborn

LEMMA GhostUnborn ==
  ASSUME TS, Unborn, NEW i \in Contacts, Ghost(i)
  PROVE  Unborn'
PROOF
<1>0. handler \in [Slots -> HandlerRec] /\ i \in Items
  BY ItemKinds DEF TS, Typed
<1>1. /\ UNCHANGED <<book, server, base, queue, hashes, writes, sync, badge,
                     serverEdits, born, mine>>
      /\ Fire({[op |-> "updated", item |-> i]})
  BY DEF Ghost
<1>2. PICK E : E = {[op |-> "updated", item |-> i]}
  OBVIOUS
<1>3. E \in SUBSET Event /\ Fire(E)
  BY <1>0, <1>1, <1>2 DEF Event, Ops
<1>4. \A h \in Slots : \/ handler'[h] = handler[h]
                       \/ \E e \in E : handler'[h] = Begins(e.op, e.item)
  BY <1>0, <1>3, FireFacts
<1>5. \A h \in Slots : handler'[h] = handler[h] \/ handler'[h].item = i
  BY <1>2, <1>4 DEF Begins
<1>6. \A j : j # i => \A h \in Slots : Busy(h, j)' => Busy(h, j)
  BY <1>5 DEF Busy
<1>7. \A j : St(j)' = St(j) /\ (Synced(j)' <=> Synced(j))
  BY <1>1 DEF St, Synced
<1>8. ASSUME NEW j \in Lists PROVE UnbornList(j)'
  <2>1. UnbornList(j) /\ j # i
    BY ItemKinds DEF Unborn
  <2>2. \A h \in Slots : Busy(h, j)' => Busy(h, j)
    BY <1>6, <2>1
  <2> QED BY <1>1, <1>7, <2>1, <2>2, UnbornListKept
<1>9. ASSUME NEW j \in Memberships PROVE UnbornMember(j)'
  <2>1. UnbornMember(j) /\ j # i
    BY ItemKinds DEF Unborn
  <2>2. \A h \in Slots : Busy(h, j)' => Busy(h, j)
    BY <1>6, <2>1
  <2> QED BY <1>1, <1>7, <2>1, <2>2, UnbornMemberKept
<1> QED BY <1>8, <1>9 DEF Unborn

(* The sync does not turn to the item.                                      *)
Unturned(i) == ~Synced(i)' \/ sync' = sync \/ (Synced(i) /\ sync'.at = "report")

(* Steps in which no handler begins and neither book nor base changes.      *)
LEMMA BesideUnborn ==
  ASSUME Unborn, \A i \in Items : Beside(i) /\ Unturned(i)
  PROVE  Unborn'
PROOF
<1>1. ASSUME NEW j \in Lists PROVE UnbornList(j)'
  <2>1. UnbornList(j) /\ Beside(j) /\ Unturned(j)
    BY ItemKinds DEF Unborn
  <2> QED BY <2>1, UnbornListKept DEF Beside, Unturned
<1>2. ASSUME NEW j \in Memberships PROVE UnbornMember(j)'
  <2>1. UnbornMember(j) /\ Beside(j) /\ Unturned(j)
    BY ItemKinds DEF Unborn
  <2>2. Synced(j)' => Synced(j)
    BY <2>1 DEF Synced, Unturned
  <2> QED BY <2>1, <2>2, UnbornMemberKept DEF Beside
<1> QED BY <1>1, <1>2 DEF Unborn

LEMMA FreezeUnborn ==
  ASSUME TS, Unborn, NEW k \in DOMAIN queue, FreezeEnds(k)
  PROVE  Unborn'
PROOF
<1>1. /\ UNCHANGED <<book, server, base, hashes, writes, handler, sync, badge,
                     edits, serverEdits, born, mine, excused>>
      /\ \A i \in Items : /\ St(i)' = St(i)
                          /\ FreshTags(queue', i) \in SUBSET FreshTags(queue, i)
                          /\ ExactTag(queue, i) = {} => ExactTag(queue', i) = {}
  BY FreezeFacts
<1>2. \A i \in Items : Beside(i) /\ Unturned(i)
  BY <1>1 DEF Beside, Busy, Unturned
<1> QED BY <1>2, BesideUnborn

LEMMA QuietUnborn ==
  ASSUME Unborn, UNCHANGED <<book, base, queue, handler, born, mine>>,
         sync' = sync \/ sync'.at = "idle"
  PROVE  Unborn'
PROOF
<1>1. \A i \in Items : Beside(i)
  BY DEF Beside, Busy, St
<1>2. \A i \in Items : Unturned(i)
  BY DEF Synced, Unturned
<1> QED BY <1>1, <1>2, BesideUnborn

(* The rows of the user are rows of the queue.                              *)
LEMMA UserEntriesAmong ==
  ASSUME NEW q, Neat(q), UserEntries(q) # <<>>
  PROVE  UserEntries(q)[1] \in Range(q)
PROOF
<1>0. q \in Seq(Rows)
  BY DEF Neat
<1>1. PICK P \in SUBSET (DOMAIN q) : P = {k \in DOMAIN q : isUserEntry(q[k])}
  OBVIOUS
<1>2. PICK s : s = Keeping(q, P)
  OBVIOUS
<1>3. s = UserEntries(q)
  BY <1>1, <1>2 DEF UserEntries
<1>4. s \in Seq(Rows) /\ Range(s) = {q[p] : p \in P}
  BY <1>0, <1>2, KeepingFacts
<1>5. s[1] \in Range(s)
  BY <1>3, <1>4 DEF Range
<1>6. s[1] \in Range(q)
  BY <1>4, <1>5 DEF Range
<1> QED BY <1>3, <1>6

(* A sync begins with a list only to create it, or if it has been there.    *)
LEMMA BeginUnborn ==
  ASSUME TS, Unborn, NEW i \in Items, Pull(i) \/ Push(i)
  PROVE  Unborn'
PROOF
<1>0. Neat(queue)
  BY DEF TS, Typed
<1>1. UNCHANGED <<book, base, queue, handler, born, mine>> /\ sync'.item = i
  BY DEF Pull, Push
<1>2. Push(i) => St(i) # NoStatus
  <2> SUFFICES ASSUME Push(i) PROVE St(i) # NoStatus
    OBVIOUS
  <2>1. PICK r : r = UserEntries(queue)[1]
    OBVIOUS
  <2>2. UserEntries(queue) # <<>> /\ sameRow(r, Id(i), BY_USER)
    BY <2>1 DEF Push
  <2>3. r \in Range(queue)
    BY <1>0, <2>1, <2>2, UserEntriesAmong
  <2>4. r \in Rows
    BY <1>0, <2>3 DEF Neat, Range
  <2>5. KeyOf(r) = Id(i) /\ r.status \in UserStatuses /\ Id(i) \in IdSet
    BY <2>2, <2>4, IdFacts, RowFacts
  <2> QED BY <1>0, <2>3, <2>5, StatusFacts DEF St
<1>3. \A j \in Items : Beside(j)
  BY <1>1 DEF Beside, Busy, St
<1>4. ASSUME NEW j \in Lists PROVE UnbornList(j)'
  <2>1. UnbornList(j) /\ j \in Items /\ Beside(j)
    BY <1>3, ItemKinds DEF Unborn
  <2>2. ASSUME j \notin born, Synced(j)'
        PROVE  sync'.at = "markServerWrite" /\ sync'.op = "created"
    <3>1. j = i /\ book[i] = NoCard /\ base[i] = NoCard /\ St(i) = NoStatus
      BY <1>1, <2>1, <2>2 DEF Synced, UnbornList
    <3>2. Pull(i)
      BY <1>2, <3>1
    <3>3. /\ server[i] # NoCard /\ sync'.at = "markServerWrite"
          /\ sync'.op = OpOf(book[i], server[i])
      BY <3>1, <3>2 DEF Pull
    <3>4. OpOf(book[i], server[i]) = "created"
      BY <3>1, <3>3 DEF OpOf
    <3> QED BY <3>3, <3>4
  <2> QED BY <1>1, <2>1, <2>2, UnbornListKept DEF Beside
<1>5. ASSUME NEW j \in Memberships PROVE UnbornMember(j)'
  <2>1. UnbornMember(j) /\ j \in Items /\ Beside(j) /\ j[1] \in Lists
    BY <1>3, <1>5, ItemKinds DEF Unborn
  <2>2. j[1] \notin born => ~Synced(j)'
    <3> SUFFICES ASSUME j[1] \notin born, Synced(j)' PROVE FALSE
      OBVIOUS
    <3>1. /\ j = i /\ book[i] = NoCard /\ base[i] = NoCard /\ St(i) = NoStatus
          /\ book[i[1]] = NoCard
      BY <1>1, <2>1 DEF Synced, UnbornMember, Unborn, UnbornList
    <3>2. Pull(i)
      BY <1>2, <3>1
    <3>3. server[i] # NoCard /\ Possible(book, i, server[i])
      BY <3>1, <3>2 DEF Pull
    <3> QED BY <1>5, <3>1, <3>3 DEF Possible
  <2>3. j[1] \notin born' => ~Synced(j)'
    BY <1>1, <2>2
  <2> QED BY <1>1, <2>1, <2>3, UnbornMemberKept DEF Beside
<1> QED BY <1>4, <1>5 DEF Unborn

LEMMA MarkUnborn ==
  ASSUME TS, Unborn, markServerWrite
  PROVE  Unborn'
PROOF
<1>0. Neat(queue) /\ FreshOnes(queue) /\ sync \in SyncRec
  BY DEF TS, Typed, Sound
<1>00. sync.item \in Items /\ sync.op \in Ops
  BY <1>0 DEF SyncRec
<1>1. PICK i \in Items : i = sync.item
  BY <1>00
<1>2. /\ UNCHANGED <<book, server, base, hashes, handler, badge,
                     edits, serverEdits, born, mine, excused>>
      /\ sync.at = "markServerWrite"
      /\ queue' = markServerWriteUpdater(queue, TagId(i, sync.op), TagFor(sync.op))
  BY <1>1 DEF markServerWrite
<1>3. PICK c \in BOOLEAN : sync' = [sync EXCEPT !.at = "write", !.covers = c]
  BY DEF markServerWrite
<1>4. sync'.at = "write" /\ sync'.op = sync.op /\ sync'.item = i
  BY <1>0, <1>1, <1>3, SyncMoves
<1>5. /\ Neat(queue') /\ \A j \in Items : j # i => About(queue', j) = About(queue, j)
      /\ i \in Lists /\ sync.op = "created" =>
           /\ UserStatus(queue', Id(i)) = UserStatus(queue, Id(i))
           /\ ExactTag(queue', i) = ExactTag(queue, i)
  BY <1>0, <1>00, <1>2, MarkFacts
<1>6. \A j \in Items : j # i =>
        /\ St(j)' = St(j) /\ FreshTags(queue', j) = FreshTags(queue, j)
        /\ ExactTag(queue', j) = ExactTag(queue, j)
  BY <1>0, <1>5, SameAbout DEF St
<1>7. Synced(i) /\ \A j \in Items : Synced(j)' => j = i
  BY <1>1, <1>2, <1>4 DEF Synced
<1>8. \A j : \A h \in Slots : Busy(h, j)' => Busy(h, j)
  BY <1>2 DEF Busy
<1>9. ASSUME NEW j \in Lists PROVE UnbornList(j)'
  <2>1. UnbornList(j) /\ j \in Items
    BY ItemKinds DEF Unborn
  <2>2. CASE j # i
    <3>1. ~Synced(j)'
      BY <1>7, <2>1, <2>2
    <3> QED BY <1>2, <1>6, <1>8, <2>1, <2>2, <3>1, UnbornListKept
  <2>3. CASE j = i
    <3>1. j \notin born => sync.op = "created"
      BY <1>2, <1>7, <2>1, <2>3 DEF UnbornList
    <3>2. j \notin born => St(j)' = St(j) /\ ExactTag(queue', j) = ExactTag(queue, j)
      BY <1>5, <2>3, <3>1 DEF St
    <3> QED BY <1>2, <1>4, <1>8, <2>1, <3>1, <3>2, UnbornListKept
  <2> QED BY <2>2, <2>3
<1>10. ASSUME NEW j \in Memberships PROVE UnbornMember(j)'
  <2>1. UnbornMember(j) /\ j \in Items
    BY ItemKinds DEF Unborn
  <2>2. Synced(j)' => Synced(j)
    BY <1>7, <2>1
  <2>3. j[1] \notin born => j # i
    BY <1>7, <2>1 DEF UnbornMember
  <2>4. j[1] \notin born => St(j)' = St(j) /\ FreshTags(queue', j) = FreshTags(queue, j)
    BY <1>6, <2>1, <2>3
  <2> QED BY <1>2, <1>8, <2>1, <2>2, <2>4, UnbornMemberKept
<1> QED BY <1>9, <1>10 DEF Unborn

LEMMA WriteUnborn ==
  ASSUME TS, Unborn, Write
  PROVE  Unborn'
PROOF
<1>0. sync \in SyncRec /\ sync.item \in Items
  BY DEF TS, Typed, SyncRec
<1>1. PICK i \in Items : i = sync.item
  BY <1>0
<1>2. PICK card : card = sync.card
  OBVIOUS
<1>3. /\ sync.at = "write" /\ sync' = [sync EXCEPT !.at = "report"]
      /\ UNCHANGED <<server, queue, hashes, writes, badge, edits, serverEdits>>
      /\ Made \/ Refused
  BY <1>0, WriteIs
<1>4. sync'.at = "report" /\ sync'.item = i
  BY <1>0, <1>1, <1>3, SyncMoves
<1>5. Synced(i) /\ \A j \in Items : Synced(j)' => j = i
  BY <1>1, <1>3, <1>4 DEF Synced
<1>6. \A j : St(j)' = St(j)
  BY <1>3 DEF St
<1>7. CASE Refused
  <2>1. UNCHANGED <<book, base, handler, born, mine>>
    BY <1>7 DEF Refused
  <2>2. \A j \in Items : Beside(j) /\ Unturned(j)
    BY <1>3, <1>4, <1>5, <1>6, <2>1 DEF Beside, Busy, Unturned
  <2> QED BY <2>2, BesideUnborn
<1>8. CASE Made
  <2>1. /\ base' = With(base, i, card) /\ book' = With(book, i, card)
        /\ mine' = mine \ {i} /\ BornWith(i, card)
    BY <1>1, <1>2, <1>8 DEF Made
  <2>2. \A h \in Slots : \A j \in Items : Busy(h, j)' /\ ~Busy(h, j) => Touched(i, card, j)
    BY <1>1, <1>2, <1>8, MadeFires
  <2>3. born \in SUBSET born' /\ (i \in Lists /\ card # NoCard => i \in born')
    BY <2>1 DEF BornWith
  <2>4. sync.op = "deleted" <=> card = NoCard
    BY <1>2, <1>3 DEF TS, Sound
  <2>5. ASSUME NEW j \in Lists PROVE UnbornList(j)'
    <3>1. UnbornList(j) /\ j \in Items /\ j \notin Memberships
      BY ItemKinds DEF Unborn
    <3>2. j = i => j \in born'
      BY <1>3, <1>5, <2>3, <2>4, <2>5, <3>1 DEF UnbornList
    <3>3. j # i => book'[j] = book[j] /\ ~Touched(i, card, j)
      BY <2>1, <3>1, WithIs DEF Touched
    <3>4. j # i => base'[j] = base[j]
      BY <2>1, <3>1, WithIs
    <3> QED BY <1>3, <1>4, <1>6, <2>2, <2>3, <3>1, <3>2, <3>3, <3>4, UnbornListKept
  <2>6. ASSUME NEW j \in Memberships PROVE UnbornMember(j)'
    <3>1. UnbornMember(j) /\ j \in Items
      BY <2>6, ItemKinds DEF Unborn
    <3>2. j[1] \notin born => j # i
      BY <1>5, <3>1 DEF UnbornMember
    <3>3. j # i => book'[j] \in {book[j], NoCard}
      BY <2>1, <3>1, WithIs
    <3>4. j # i => base'[j] \in {base[j], NoCard}
      BY <2>1, <3>1, WithIs
    <3>5. ASSUME j[1] \notin born PROVE ~Touched(i, card, j)
      <4>1. book[j] = NoCard /\ book'[j] = NoCard
        BY <3>1, <3>2, <3>3, <3>5 DEF UnbornMember
      <4> QED BY <2>1, <3>2, <3>5, <4>1 DEF Touched
    <3>6. Synced(j)' => Synced(j)
      BY <1>5, <3>1
    <3> QED BY <1>3, <1>6, <2>1, <2>2, <2>3, <3>1, <3>2, <3>3, <3>4, <3>5, <3>6, UnbornMemberKept
  <2> QED BY <2>5, <2>6 DEF Unborn
<1> QED BY <1>3, <1>7, <1>8

LEMMA SentUnborn ==
  ASSUME TS, Unborn, NEW accepted \in BOOLEAN, Sent(accepted)
  PROVE  Unborn'
PROOF
<1>0. sync \in SyncRec /\ sync.item \in Items
  BY DEF TS, Typed, SyncRec
<1>1. PICK i \in Items : i = sync.item
  BY <1>0
<1>2. PICK card : card = sync.card
  OBVIOUS
<1>3. /\ UNCHANGED <<book, queue, hashes, handler, badge, edits, serverEdits, born>>
      /\ sync.at = "send"
      /\ sync' = [sync EXCEPT !.at = IF accepted THEN "remove" ELSE "moveToTail"]
      /\ base' = IF accepted THEN With(base, i, card) ELSE base
      /\ mine' = IF accepted THEN mine \ {i} ELSE mine
  BY <1>1, <1>2 DEF Sent
<1>4. sync'.at # "idle" /\ sync'.item = i
  BY <1>0, <1>1, <1>3, SyncMoves
<1>5. Synced(i) /\ \A j \in Items : Synced(j)' => j = i
  BY <1>1, <1>3, <1>4 DEF Synced
<1>6. \A j : St(j)' = St(j) /\ \A h \in Slots : Busy(h, j)' => Busy(h, j)
  BY <1>3 DEF St, Busy
<1>7. ASSUME NEW j \in Lists PROVE UnbornList(j)'
  <2>1. UnbornList(j) /\ j \in Items /\ j \notin Memberships
    BY ItemKinds DEF Unborn
  <2>2. j \notin born => j # i
    BY <1>3, <1>5, <2>1 DEF UnbornList
  <2>3. j # i => With(base, i, card)[j] = base[j]
    BY <2>1, WithIs
  <2>4. j # i => base'[j] = base[j] /\ ~Synced(j)'
    BY <1>3, <1>5, <2>1, <2>3
  <2> QED BY <1>3, <1>6, <2>1, <2>2, <2>4, UnbornListKept
<1>8. ASSUME NEW j \in Memberships PROVE UnbornMember(j)'
  <2>1. UnbornMember(j) /\ j \in Items
    BY <1>8, ItemKinds DEF Unborn
  <2>2. j[1] \notin born => j # i
    BY <1>5, <2>1 DEF UnbornMember
  <2>3. j # i => With(base, i, card)[j] \in {base[j], NoCard}
    BY <2>1, WithIs
  <2>4. j # i => base'[j] \in {base[j], NoCard} /\ ~Synced(j)'
    BY <1>3, <1>5, <2>1, <2>3
  <2> QED BY <1>3, <1>6, <2>1, <2>2, <2>4, UnbornMemberKept
<1> QED BY <1>7, <1>8 DEF Unborn

LEMMA SettledUnborn ==
  ASSUME TS, Unborn, Settled
  PROVE  Unborn'
PROOF
<1>0. Neat(queue)
  BY DEF TS, Typed
<1>1. /\ UNCHANGED <<book, server, base, hashes, handler, badge,
                     edits, serverEdits, born, mine, excused>>
      /\ sync.at \in {"remove", "moveToTail"} /\ sync.item \in Items
      /\ sync'.at = "report" /\ sync'.item = sync.item
      /\ Neat(queue')
      /\ \A j \in Items : j # sync.item => About(queue', j) = About(queue, j)
  BY SettledFacts
<1>2. \A j \in Items : j # sync.item =>
        /\ St(j)' = St(j) /\ FreshTags(queue', j) = FreshTags(queue, j)
        /\ ExactTag(queue', j) = ExactTag(queue, j)
  BY <1>0, <1>1, SameAbout DEF St
<1>3. \A j : (Synced(j)' <=> Synced(j)) /\ \A h \in Slots : Busy(h, j)' => Busy(h, j)
  BY <1>1 DEF Synced, Busy
<1>4. Synced(sync.item)
  BY <1>1 DEF Synced
<1>5. ASSUME NEW j \in Lists PROVE UnbornList(j)'
  <2>1. UnbornList(j) /\ j \in Items
    BY ItemKinds DEF Unborn
  <2>2. j \notin born => j # sync.item
    BY <1>1, <1>4, <2>1 DEF UnbornList
  <2> QED BY <1>1, <1>2, <1>3, <2>1, <2>2, UnbornListKept
<1>6. ASSUME NEW j \in Memberships PROVE UnbornMember(j)'
  <2>1. UnbornMember(j) /\ j \in Items
    BY ItemKinds DEF Unborn
  <2>2. j[1] \notin born => j # sync.item
    BY <1>4, <2>1 DEF UnbornMember
  <2> QED BY <1>1, <1>2, <1>3, <2>1, <2>2, UnbornMemberKept
<1> QED BY <1>5, <1>6 DEF Unborn

LEMMA UnbornNext == TS /\ Unborn /\ [Next]_vars => Unborn'
PROOF
<1> SUFFICES ASSUME TS, Unborn, [Next]_vars PROVE Unborn'
  OBVIOUS
<1>1. CASE \E h \in Slots : Step(h)
  BY <1>1, HandlerTyped, HandlerUnborn
<1>2. CASE \E i \in Items : \E card \in Contents(i) : UserEdit(i, card) \/ ServerEdit(i, card)
  <2>1. ASSUME NEW i \in Items, NEW card, ServerEdit(i, card) PROVE Unborn'
    <3>1. UNCHANGED <<book, base, queue, handler, born, mine, sync>>
      BY <2>1 DEF ServerEdit
    <3> QED BY <3>1, QuietUnborn
  <2> QED BY <1>2, <2>1, UserEditUnborn
<1>3. CASE \E i \in Contacts : Ghost(i)
  BY <1>3, GhostUnborn
<1>4. CASE \E k \in DOMAIN queue : FreezeEnds(k)
  BY <1>4, FreezeUnborn
<1>5. CASE SyncStep
  <2>1. ASSUME Report PROVE Unborn'
    <3>1. UNCHANGED <<book, base, queue, handler, born, mine>> /\ sync'.at = "idle"
      BY <2>1 DEF Report, NoSync
    <3> QED BY <3>1, QuietUnborn
  <2> QED BY <1>5, <2>1, BeginUnborn, MarkUnborn, WriteUnborn, SentUnborn, SettledUnborn
          DEF SyncStep
<1>6. CASE UNCHANGED vars
  <2>1. UNCHANGED <<book, base, queue, handler, born, mine, sync>>
    BY <1>6 DEF vars
  <2> QED BY <2>1, QuietUnborn
<1> QED BY <1>1, <1>2, <1>3, <1>4, <1>5, <1>6 DEF Next

-----------------------------------------------------------------------------
(* Lists that are gone, and the badge                                       *)

LEMMA GoneNext == TS /\ Unborn /\ Gone /\ [Next]_vars => Gone'
PROOF
<1> SUFFICES ASSUME TS, Unborn, Gone, [Next]_vars,
                    sync'.at = "send", sync'.item \in Lists, sync'.card = NoCard
             PROVE  book'[sync'.item] = NoCard
  BY DEF Gone
<1>1. CASE sync' = sync /\ book' = book
  BY <1>1 DEF Gone
<1>2. CASE \E h \in Slots : Step(h)
  <2>1. Typed /\ Filled(book)
    BY DEF TS, Sound
  <2> QED BY <1>1, <1>2, <2>1, HandlerStep
<1>3. ASSUME NEW i \in Items, NEW card \in Contents(i), UserEdit(i, card)
      PROVE  book'[sync'.item] = NoCard
  <2>1. PICK l \in Lists : l = sync.item
    BY <1>3 DEF UserEdit
  <2>2. sync' = sync /\ Possible(book, i, card) /\ book' = With(book, i, card)
    BY <1>3 DEF UserEdit
  <2>3. book[l] = NoCard /\ l \in Items /\ l \notin Memberships
    BY <2>1, <2>2, ItemKinds DEF Gone
  <2>4. l \in born
    <3>1. Synced(l)
      BY <2>1, <2>2 DEF Synced
    <3> QED BY <2>1, <2>2, <3>1 DEF Unborn, UnbornList
  <2>5. l # i
    BY <2>2, <2>3, <2>4 DEF Possible
  <2>6. book'[l] = book[l]
    BY <2>2, <2>3, <2>5, WithIs
  <2> QED BY <2>1, <2>2, <2>3, <2>6
<1>4. CASE \E i \in Items : \E card \in Contents(i) : UserEdit(i, card) \/ ServerEdit(i, card)
  <2>1. CASE \E i \in Items : \E card \in Contents(i) : ServerEdit(i, card)
    BY <1>1, <2>1 DEF ServerEdit
  <2> QED BY <1>3, <1>4, <2>1
<1>5. CASE (\E i \in Contacts : Ghost(i)) \/ (\E k \in DOMAIN queue : FreezeEnds(k))
  BY <1>1, <1>5 DEF Ghost, FreezeEnds
<1>6. CASE SyncStep
  <2>0. sync \in SyncRec
    BY DEF TS, Typed
  <2>1. ASSUME NEW i \in Items, Pull(i) PROVE FALSE
    BY <2>1 DEF Pull
  <2>2. ASSUME NEW i \in Items, Push(i) PROVE book'[sync'.item] = NoCard
    BY <2>2 DEF Push
  <2>3. ASSUME markServerWrite PROVE FALSE
    <3>1. PICK c \in BOOLEAN : sync' = [sync EXCEPT !.at = "write", !.covers = c]
      BY <2>3 DEF markServerWrite
    <3> QED BY <2>0, <3>1, SyncMoves
  <2>4. ASSUME Write PROVE FALSE
    <3>1. sync' = [sync EXCEPT !.at = "report"]
      BY <2>4 DEF Write
    <3> QED BY <2>0, <3>1, SyncMoves
  <2>5. ASSUME NEW accepted \in BOOLEAN, Sent(accepted) PROVE FALSE
    <3>1. sync' = [sync EXCEPT !.at = IF accepted THEN "remove" ELSE "moveToTail"]
      BY <2>5 DEF Sent
    <3> QED BY <2>0, <3>1, SyncMoves
  <2>6. ASSUME Settled PROVE FALSE
    BY <2>6, SettledFacts
  <2>7. ASSUME Report PROVE FALSE
    BY <2>7 DEF Report, NoSync
  <2> QED BY <1>6, <2>1, <2>2, <2>3, <2>4, <2>5, <2>6, <2>7 DEF SyncStep
<1>7. CASE UNCHANGED vars
  BY <1>1, <1>7 DEF vars
<1> QED BY <1>2, <1>4, <1>5, <1>6, <1>7 DEF Next

(* Who would still paint the badge goes on to; what the badge should say    *)
(* is the same.                                                             *)
LEMMA BadgeKept ==
  ASSUME BadgeInv, badge' = badge, Len(UserEntries(queue')) = Len(UserEntries(queue)),
         sync.at # "idle" => sync'.at # "idle",
         \A h \in Slots : handler[h].at = "count" => handler'[h] = handler[h]
  PROVE  BadgeInv'
PROOF
<1>1. CASE badge = localChanges
  BY <1>1 DEF BadgeInv, localChanges
<1>2. CASE sync.at # "idle"
  BY <1>2 DEF BadgeInv
<1>3. CASE \E h \in Slots : handler[h].at = "count"
  BY <1>3 DEF BadgeInv
<1> QED BY <1>1, <1>2, <1>3 DEF BadgeInv

LEMMA HandlerBadge ==
  ASSUME TS, BadgeInv, NEW h \in Slots, Step(h)
  PROVE  BadgeInv'
PROOF
<1>0. /\ Typed /\ Filled(book) /\ Neat(queue) /\ FreshOnes(queue)
      /\ handler \in [Slots -> HandlerRec]
  BY DEF TS, Typed, Sound
<1>00. handler[h].item \in Items /\ handler[h].op \in Ops
  BY <1>0 DEF HandlerRec
<1>1. /\ sync' = sync /\ \A g \in Slots : g # h => handler'[g] = handler[g]
  BY <1>0, HandlerStep
<1>2. handler[h].at # "count" =>
        \A g \in Slots : handler[g].at = "count" => handler'[g] = handler[g]
  BY <1>1
<1>3. CASE handle(h) \/ ghostGate(h) \/ storeHash(h)
  <2>1. badge' = badge /\ queue' = queue /\ handler[h].at # "count"
    BY <1>3 DEF handle, ghostGate, storeHash
  <2> QED BY <1>1, <1>2, <2>1, BadgeKept
<1>4. CASE consumeServerTag(h)
  <2>1. PICK k : k = findConsumableServerTag(queue, Id(handler[h].item), handler[h].op)
    OBVIOUS
  <2>2. /\ badge' = badge /\ handler[h].at = "consumeServerTag"
        /\ queue' = IF k = 0 THEN queue ELSE RemoveAt(queue, k)
    BY <1>4, <2>1 DEF consumeServerTag
  <2>3. Len(UserEntries(queue')) = Len(UserEntries(queue))
    <3>1. CASE k = 0
      BY <2>2, <3>1
    <3>2. CASE k # 0
      <4>1. /\ k \in DOMAIN queue /\ KeyOf(queue[k]) \in Ids(handler[h].item)
            /\ queue[k].status \in SERVER_TAG_STATUSES
        BY <1>0, <1>00, <2>1, <3>2, TagPlace
      <4> QED BY <1>0, <1>00, <2>2, <3>2, <4>1, UntagFacts
    <3> QED BY <3>1, <3>2
  <2> QED BY <1>1, <1>2, <2>2, <2>3, BadgeKept
<1>5. CASE recordEvent(h)
  <2>1. PICK next : next = applyEvent(queue, Id(handler[h].item), handler[h].item, handler[h].op)
    OBVIOUS
  <2>2. /\ badge' = badge /\ handler[h].at = "recordEvent" /\ queue' = next
        /\ IF userFacingDiffers(queue, next) THEN Goto(h, "count") ELSE Ends(h)
    BY <1>5, <2>1 DEF recordEvent
  <2>3. CASE userFacingDiffers(queue, next)
    <3>1. handler'[h].at = "count"
      BY <1>0, <2>2, <2>3, GotoFacts DEF Awaits
    <3> QED BY <3>1 DEF BadgeInv
  <2>4. CASE ~userFacingDiffers(queue, next)
    <3>1. Neat(next)
      BY <1>0, <1>00, <2>1, EventFacts
    <3>2. Len(UserEntries(queue')) = Len(UserEntries(queue))
      BY <1>0, <2>2, <2>4, <3>1, SameFacing
    <3> QED BY <1>1, <1>2, <2>2, <3>2, BadgeKept
  <2> QED BY <2>3, <2>4
<1>6. CASE count(h)
  BY <1>6 DEF count, BadgeInv, localChanges
<1> QED BY <1>3, <1>4, <1>5, <1>6 DEF Step

LEMMA FireCounts ==
  ASSUME TS, NEW E \in SUBSET Event, Fire(E)
  PROVE  \A h \in Slots : handler[h].at = "count" => handler'[h] = handler[h]
PROOF
<1>1. handler \in [Slots -> HandlerRec]
  BY DEF TS, Typed
<1> QED BY <1>1, FireFacts

LEMMA BadgeNext == TS /\ BadgeInv /\ [Next]_vars => BadgeInv'
PROOF
<1> SUFFICES ASSUME TS, BadgeInv, [Next]_vars PROVE BadgeInv'
  OBVIOUS
<1>0. sync \in SyncRec
  BY DEF TS, Typed
<1>1. CASE \E h \in Slots : Step(h)
  BY <1>1, HandlerBadge
<1>2. ASSUME NEW i \in Items, NEW card, UserEdit(i, card) PROVE BadgeInv'
  <2>1. badge' = badge /\ queue' = queue /\ sync' = sync /\ Fire(EventsOf(i, card))
    BY <1>2 DEF UserEdit
  <2>2. PICK E : E = EventsOf(i, card)
    OBVIOUS
  <2>3. E \in SUBSET Event /\ Fire(E)
    BY <2>1, <2>2, EditEvents
  <2> QED BY <2>1, <2>3, FireCounts, BadgeKept
<1>3. ASSUME NEW i \in Contacts, Ghost(i) PROVE BadgeInv'
  <2>1. badge' = badge /\ queue' = queue /\ sync' = sync /\ Fire({[op |-> "updated", item |-> i]})
    BY <1>3 DEF Ghost
  <2>2. PICK E : E = {[op |-> "updated", item |-> i]}
    OBVIOUS
  <2>3. E \in SUBSET Event /\ Fire(E)
    BY <2>1, <2>2, ItemKinds DEF Event, Ops
  <2> QED BY <2>1, <2>3, FireCounts, BadgeKept
<1>4. ASSUME NEW k \in DOMAIN queue, FreezeEnds(k) PROVE BadgeInv'
  <2>1. /\ badge' = badge /\ sync' = sync /\ handler' = handler
        /\ Len(UserEntries(queue')) = Len(UserEntries(queue))
    BY <1>4, FreezeFacts
  <2> QED BY <2>1, BadgeKept
<1>5. ASSUME NEW i, NEW card, ServerEdit(i, card) PROVE BadgeInv'
  <2>1. badge' = badge /\ queue' = queue /\ sync' = sync /\ handler' = handler
    BY <1>5 DEF ServerEdit
  <2> QED BY <2>1, BadgeKept
<1>6. CASE SyncStep
  <2>1. ASSUME NEW i \in Items, Pull(i) \/ Push(i) PROVE BadgeInv'
    BY <2>1 DEF Pull, Push, BadgeInv
  <2>2. ASSUME markServerWrite PROVE BadgeInv'
    <3>1. PICK c \in BOOLEAN : sync' = [sync EXCEPT !.at = "write", !.covers = c]
      BY <2>2 DEF markServerWrite
    <3>2. sync'.at = "write"
      BY <1>0, <3>1, SyncMoves
    <3> QED BY <3>2 DEF BadgeInv
  <2>3. ASSUME Write PROVE BadgeInv'
    <3>1. sync' = [sync EXCEPT !.at = "report"]
      BY <2>3 DEF Write
    <3>2. sync'.at = "report"
      BY <1>0, <3>1, SyncMoves
    <3> QED BY <3>2 DEF BadgeInv
  <2>4. ASSUME NEW accepted \in BOOLEAN, Sent(accepted) PROVE BadgeInv'
    <3>1. sync' = [sync EXCEPT !.at = IF accepted THEN "remove" ELSE "moveToTail"]
      BY <2>4 DEF Sent
    <3>2. sync'.at # "idle"
      BY <1>0, <3>1, SyncMoves
    <3> QED BY <3>2 DEF BadgeInv
  <2>5. ASSUME Settled PROVE BadgeInv'
    BY <2>5, SettledFacts DEF BadgeInv
  <2>6. ASSUME Report PROVE BadgeInv'
    BY <2>6 DEF Report, BadgeInv, localChanges
  <2> QED BY <1>6, <2>1, <2>2, <2>3, <2>4, <2>5, <2>6 DEF SyncStep
<1>7. CASE UNCHANGED vars
  <2>1. badge' = badge /\ queue' = queue /\ sync' = sync /\ handler' = handler
    BY <1>7 DEF vars
  <2> QED BY <2>1, BadgeKept
<1> QED BY <1>1, <1>2, <1>3, <1>4, <1>5, <1>6, <1>7 DEF Next

-----------------------------------------------------------------------------
(* The start, and what follows                                              *)

LEMMA GoodInit == Init => Fine /\ Unborn /\ Gone /\ BadgeInv
PROOF
<1> SUFFICES ASSUME Init PROVE Fine /\ Unborn /\ Gone /\ BadgeInv
  OBVIOUS
<1>0. Closed(book)
  BY ObserverAssumption DEF Init
<1>1. /\ base = book /\ queue = <<>> /\ hashes = [i \in Contacts |-> book[i]]
      /\ handler = [h \in Slots |-> Idle] /\ sync = NoSync /\ badge = 0
      /\ born = {i \in Lists : book[i] # NoCard} /\ mine = {} /\ excused = {}
  BY DEF Init
<1>2. \A i : (\A h \in Slots : ~Busy(h, i)) /\ ~Synced(i)
  BY <1>1, IdleFacts DEF Busy, Synced, NoSync
<1>3. Neat(queue) /\ Range(queue) = {}
  BY <1>1 DEF Neat, Distinct, Lone, Range
<1>4. \A i \in Items : St(i) = NoStatus
  <2> SUFFICES ASSUME NEW i \in Items PROVE St(i) = NoStatus
    OBVIOUS
  <2>1. Id(i) \in IdSet
    BY IdFacts
  <2> QED BY <1>3, <2>1, StatusFacts DEF St
<1>5. \A i : FreshTags(queue, i) = {} /\ ExactTag(queue, i) = {}
  BY <1>3 DEF FreshTags, ExactTag, About
<1>6. Fine
  <2> SUFFICES ASSUME NEW i \in Items PROVE Good(i)
    BY DEF Fine
  <2>1. Clean(i)
    BY <1>1, <1>4, InStep
  <2> QED BY <1>1, <1>2, <2>1 DEF Good, Hears, Rests, Syncs, AtWork
<1>7. Unborn
  <2>1. \A i \in Lists : UnbornList(i)
    BY <1>1, <1>2, <1>4, <1>5, ItemKinds DEF UnbornList
  <2>2. \A i \in Memberships : UnbornMember(i)
    BY <1>0, <1>1, <1>2, <1>4, <1>5, ItemKinds DEF UnbornMember, Closed
  <2> QED BY <2>1, <2>2 DEF Unborn
<1>8. Gone
  BY <1>1 DEF Gone, NoSync
<1>9. BadgeInv
  <2>1. {k \in DOMAIN queue : queue[k].status \in UserStatuses} = {}
    BY <1>1
  <2>2. Len(UserEntries(queue)) = 0
    BY <1>3, <2>1, CountFacts, FS_EmptySet
  <2> QED BY <1>1, <2>2 DEF BadgeInv, localChanges
<1> QED BY <1>6, <1>7, <1>8, <1>9

Whole == TS /\ Fine /\ Unborn /\ Gone /\ BadgeInv

LEMMA WholeAlways == Spec => []Whole
PROOF
<1>1. Init => Whole
  BY TypedInit, GoodInit DEF Whole
<1>2. Whole /\ [Next]_vars => Whole'
  BY TypedNext, FineNext, UnbornNext, GoneNext, BadgeNext DEF Whole
<1> QED BY <1>1, <1>2, PTL DEF Spec

(* The types hold: in particular the queue never has two rows of one item   *)
(* and family, whatever events, announcements and pushes come in between    *)
(* (Changelog's updaters keep it so).                                       *)
THEOREM ObserverTyped == Spec => []TypeOK
PROOF
<1>1. Whole => TypeOK
  BY TypedIs DEF Whole, TS
<1> QED BY <1>1, WholeAlways, PTL

(* What the user did to the book, and the server does not have, is queued   *)
(* as what it is once nothing goes on about the item: the observer's        *)
(* handlers, the storage queue and the sync's announcements lose nothing.   *)
THEOREM NoEditLost == Spec => []EditsQueued
PROOF
<1>1. Whole => EditsQueued
  <2> SUFFICES ASSUME Whole, NEW i \in Items, Moment(i) = "rest", i \notin excused,
                      book[i] # base[i], i \in Memberships => book[i[1]] # NoCard
               PROVE  UserStatus(queue, Id(i)) =
                        CASE book[i] = NoCard                     -> "deleted_by_user"
                          [] book[i] # NoCard /\ base[i] = NoCard -> "added_by_user"
                          [] book[i] # NoCard /\ base[i] # NoCard -> "modified_by_user"
    BY DEF EditsQueued
  <2>1. Still(i) /\ Good(i)
    BY RestIs DEF Whole, TS, Fine
  <2>2. Right(St(i), book[i], base[i])
    BY <2>1, StillGood DEF Clean, Listed
  <2> QED BY <2>2 DEF Right, St
<1> QED BY <1>1, WholeAlways, PTL

(* What the sync wrote itself, and a ghost, is never queued as the user's:  *)
(* a row stands only for an item the user touched since it was in step.     *)
THEOREM OwnWritesNotQueued == Spec => []NoPhantoms
PROOF
<1>1. Whole => NoPhantoms
  <2> SUFFICES ASSUME Whole, NEW i \in Items \ (mine \cup excused), Moment(i) = "rest"
               PROVE  UserStatus(queue, Id(i)) = NoStatus
    BY DEF NoPhantoms
  <2>1. Still(i) /\ Good(i)
    BY RestIs DEF Whole, TS, Fine
  <2> QED BY <2>1, StillGood DEF Clean, St
<1> QED BY <1>1, WholeAlways, PTL

(* The badge shows the number of rows of the user once no handler and no    *)
(* sync is on its way: record tells the host whenever that number changes.  *)
THEOREM BadgeRight == Spec => []BadgeAgrees
PROOF
<1>1. Whole => BadgeAgrees
  <2> SUFFICES ASSUME Whole, Live = {}, sync.at = "idle"
               PROVE  badge = Cardinality({k \in DOMAIN queue : queue[k].status \in UserStatuses})
    BY DEF BadgeAgrees
  <2>1. badge = Len(UserEntries(queue))
    BY DEF Whole, BadgeInv, Live, localChanges
  <2>2. Neat(queue)
    BY DEF Whole, TS, Typed
  <2> QED BY <2>1, <2>2, CountFacts
<1> QED BY <1>1, WholeAlways, PTL
=============================================================================
