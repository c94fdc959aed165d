------------------------ MODULE LegacyMigration_proofs ------------------------
(***************************************************************************)
(* Proofs about LegacyMigration: for every changelog the old version can   *)
(* have left, every server, any folders, cards and lists, wherever the     *)
(* host stops and whether or not a pull goes through.                      *)
(***************************************************************************)
EXTENDS LegacyMigration, FiniteSetTheorems, WellFoundedInduction, TLAPS

-----------------------------------------------------------------------------
(* Induction over the edits of a changelog rests on this: a set of numbers  *)
(* has a least one.                                                         *)
LEMMA Least ==
  ASSUME NEW T \in SUBSET Nat, T # {}
  PROVE  \E x \in T : \A y \in T : x <= y
PROOF
<1> DEFINE R == {p \in Nat \X Nat : p[1] < p[2]}
<1>1. IsWellFoundedOn(R, Nat)
  BY NatLessThanWellFounded DEF OpToRel
<1> HIDE DEF R
<1>2. PICK x \in T : \A y \in T : ~ (<<y, x>> \in R)
  BY <1>1, WFMin
<1>3. ASSUME NEW y \in T PROVE x <= y
  <2>1. ~(<<y, x>> \in R)
    BY <1>2
  <2> QED BY <2>1 DEF R
<1> QED BY <1>3

LEMMA Greatest ==
  ASSUME NEW T \in SUBSET Nat, T # {}, NEW b \in Nat, \A y \in T : y <= b
  PROVE  \E x \in T : \A y \in T : y <= x
PROOF
<1> DEFINE U == {b - y : y \in T}
<1>1. U \in SUBSET Nat /\ U # {}
  <2>1. \A y \in T : b - y \in Nat
    OBVIOUS
  <2> QED BY <2>1
<1>2. PICK u \in U : \A v \in U : u <= v
  BY <1>1, Least
<1>3. PICK x \in T : u = b - x
  OBVIOUS
<1>4. ASSUME NEW y \in T PROVE y <= x
  <2>1. b - x <= b - y
    BY <1>2, <1>3
  <2> QED BY <2>1
<1> QED BY <1>4

RowSet == [at : Nat, op : Ops, by : {"user", "server"}]

LEMMA RowsTyped ==
  ASSUME NEW h \in Seq(RowSet)
  PROVE  /\ Len(h) \in Nat /\ DOMAIN h = 1..Len(h)
         /\ \A k \in 1..Len(h) : h[k].at \in Nat /\ h[k].op \in Ops
PROOF
<1>1. Len(h) \in Nat /\ DOMAIN h = 1..Len(h)
  OBVIOUS
<1>2. \A k \in 1..Len(h) : h[k] \in RowSet
  OBVIOUS
<1>3. \A k \in 1..Len(h) : h[k].at \in Nat /\ h[k].op \in Ops
  BY <1>2 DEF RowSet
<1> QED BY <1>1, <1>3

(* No row of a changelog is younger than some moment.                       *)
LEMMA Bounded ==
  ASSUME NEW h \in Seq(RowSet)
  PROVE  \E b \in Nat : \A k \in DOMAIN h : h[k].at <= b
PROOF
<1> DEFINE Up(m) == \E u \in Nat : \A i \in 1..m : h[i].at <= u
           Bad == {m \in 0..Len(h) : ~Up(m)}
<1>0. Len(h) \in Nat /\ DOMAIN h = 1..Len(h) /\ \A k \in 1..Len(h) : h[k].at \in Nat
  BY RowsTyped
<1>1. Bad = {}
  <2>1. SUFFICES ASSUME Bad # {} PROVE FALSE
    OBVIOUS
  <2>2. PICK n \in Bad : \A m \in Bad : n <= m
    <3>1. Bad \in SUBSET Nat
      BY <1>0
    <3> HIDE DEF Bad
    <3> QED BY <3>1, <2>1, Least
  <2>3. n # 0
    <3>1. 0 \in Nat /\ \A k \in 1..0 : h[k].at <= 0
      OBVIOUS
    <3>2. Up(0)
      BY <3>1
    <3> QED BY <2>2, <3>2
  <2>4. Up(n - 1)
    <3>1. n - 1 \in 0..Len(h) /\ ~(n <= n - 1)
      BY <1>0, <2>2, <2>3
    <3>2. n - 1 \notin Bad
      BY <2>2, <3>1
    <3> QED BY <3>1, <3>2
  <2>5. PICK b \in Nat : \A k \in 1..(n - 1) : h[k].at <= b
    BY <2>4
  <2>6. h[n].at \in Nat /\ n \in 1..Len(h)
    BY <1>0, <2>2, <2>3
  <2> HIDE DEF Bad
  <2>7. PICK a \in Nat : a = h[n].at
    BY <2>6
  <2>9. b + a \in Nat
    OBVIOUS
  <2>10. ASSUME NEW k \in 1..n PROVE h[k].at <= b + a
    <3>1. n \in Nat /\ k \in 1..Len(h)
      BY <1>0, <2>6
    <3>2. PICK x \in Nat : x = h[k].at
      BY <1>0, <3>1
    <3>3. x <= a \/ x <= b
      BY <2>5, <2>7, <3>1, <3>2
    <3>4. x <= b + a
      BY <2>5, <2>7, <3>2, <3>3
    <3> QED BY <3>2, <3>4
  <2>8. Up(n)
    BY <2>9, <2>10
  <2> QED BY <2>2, <2>8 DEF Bad
<1>2. Up(Len(h))
  <2> HIDE DEF Up
  <2>1. Len(h) \in 0..Len(h)
    BY <1>0
  <2> QED BY <1>1, <2>1
<1> QED BY <1>0, <1>2

-----------------------------------------------------------------------------
(* The order of the edits.                                                  *)
LEMMA BeforeOrder ==
  ASSUME NEW h \in Seq(RowSet), NEW i \in DOMAIN h, NEW j \in DOMAIN h, NEW k \in DOMAIN h
  PROVE  /\ ~Before(h, k, k)
         /\ Before(h, i, j) /\ Before(h, j, k) => Before(h, i, k)
         /\ Before(h, j, k) \/ j = k \/ Before(h, k, j)
         /\ ~(Before(h, j, k) /\ Before(h, k, j))
PROOF
<1>1. /\ h[i].at \in Nat /\ h[j].at \in Nat /\ h[k].at \in Nat
      /\ i \in Nat /\ j \in Nat /\ k \in Nat
  BY RowsTyped
<1> QED BY <1>1 DEF Before

LEMMA FirstIs ==
  ASSUME NEW h \in Seq(RowSet), NEW S \in SUBSET DOMAIN h, S # {}
  PROVE  FirstOf(h, S) \in S /\ \A j \in S \ {FirstOf(h, S)} : Before(h, FirstOf(h, S), j)
PROOF
<1> DEFINE At == {h[k].at : k \in S}
<1>0. DOMAIN h \subseteq Nat /\ \A k \in DOMAIN h : h[k].at \in Nat
  BY RowsTyped
<1>1. At \in SUBSET Nat /\ At # {}
  BY <1>0
<1>2. PICK a \in At : \A x \in At : a <= x
  BY <1>1, Least
<1> DEFINE Same == {k \in S : h[k].at = a}
<1>3. Same \in SUBSET Nat /\ Same # {}
  BY <1>0, <1>2
<1>4. PICK k \in Same : \A j \in Same : k <= j
  BY <1>3, Least
<1>5. ASSUME NEW j \in S \ {k} PROVE Before(h, k, j)
  <2>1. h[j].at \in Nat /\ a \in Nat /\ a <= h[j].at /\ h[k].at = a
    BY <1>0, <1>1, <1>2, <1>4
  <2>2. CASE h[j].at = a
    <3>1. k <= j /\ k \in Nat /\ j \in Nat
      BY <1>0, <1>4, <2>2
    <3>2. k < j
      BY <3>1
    <3> QED BY <2>1, <2>2, <3>2 DEF Before
  <2>3. CASE h[j].at # a
    BY <2>1, <2>3 DEF Before
  <2> QED BY <2>2, <2>3
<1>6. \E m \in S : \A j \in S \ {m} : Before(h, m, j)
  BY <1>5
<1> QED BY <1>6 DEF FirstOf

LEMMA LastIs ==
  ASSUME NEW h \in Seq(RowSet), NEW S \in SUBSET DOMAIN h, S # {}
  PROVE  LastOf(h, S) \in S /\ \A j \in S \ {LastOf(h, S)} : Before(h, j, LastOf(h, S))
PROOF
<1> DEFINE At == {h[k].at : k \in S}
<1>0. DOMAIN h = 1..Len(h) /\ Len(h) \in Nat /\ \A k \in DOMAIN h : h[k].at \in Nat
  BY RowsTyped
<1>1. At \in SUBSET Nat /\ At # {}
  BY <1>0
<1>2. PICK b \in Nat : \A k \in DOMAIN h : h[k].at <= b
  BY Bounded
<1>3. PICK a \in At : \A x \in At : x <= a
  <2>1. \A x \in At : x <= b
    BY <1>2
  <2> QED BY <1>1, <2>1, Greatest
<1> DEFINE Same == {k \in S : h[k].at = a}
<1>4. Same \in SUBSET Nat /\ Same # {} /\ \A k \in Same : k <= Len(h)
  BY <1>0, <1>3
<1>5. PICK k \in Same : \A j \in Same : j <= k
  BY <1>0, <1>4, Greatest
<1>6. ASSUME NEW j \in S \ {k} PROVE Before(h, j, k)
  <2>1. h[j].at \in Nat /\ a \in Nat /\ h[j].at <= a /\ h[k].at = a
    BY <1>0, <1>1, <1>3, <1>5
  <2>2. CASE h[j].at = a
    <3>1. j <= k /\ k \in Nat /\ j \in Nat
      BY <1>0, <1>5, <2>2
    <3>2. j < k
      BY <3>1
    <3> QED BY <2>1, <2>2, <3>2 DEF Before
  <2>3. CASE h[j].at # a
    BY <2>1, <2>3 DEF Before
  <2> QED BY <2>2, <2>3
<1>7. \E m \in S : \A j \in S \ {m} : Before(h, j, m)
  BY <1>6
<1> QED BY <1>7 DEF LastOf

-----------------------------------------------------------------------------
(* The merge of a changelog.                                                *)

(* One step of it: edit k on top of what f says was owed after the edits    *)
(* before it.                                                               *)
Step(h, f, k) ==
  MERGE(IF EarlierThan(h, k) = {} THEN None ELSE f[LastOf(h, EarlierThan(h, k))], OPS(h[k]))
UpTo(h, k) == EarlierThan(h, k) \cup {k}
Merged(h) == CHOOSE f : f = [k \in Edits(h) |-> Step(h, f, k)]

LEMMA ParseMerges ==
  ASSUME NEW h
  PROVE  parseLegacyChangelog(h) =
           IF Edits(h) = {} THEN None ELSE Merged(h)[LastOf(h, Edits(h))]
PROOF
  BY DEF parseLegacyChangelog, Merged, Step

(* Who comes before the edit before k comes before k, and nobody is between.*)
LEMMA UpToLast ==
  ASSUME NEW h \in Seq(RowSet), NEW k \in Edits(h), EarlierThan(h, k) # {},
         NEW p, p = LastOf(h, EarlierThan(h, k))
  PROVE  /\ p \in Edits(h) /\ Before(h, p, k) /\ p # k
         /\ UpTo(h, p) = EarlierThan(h, k)
PROOF
<1>0. Edits(h) \subseteq DOMAIN h /\ EarlierThan(h, k) \subseteq Edits(h)
  BY DEF Edits, EarlierThan
<1>1. /\ p \in EarlierThan(h, k)
      /\ \A j \in EarlierThan(h, k) \ {p} : Before(h, j, p)
  BY <1>0, LastIs
<1>2. p \in Edits(h) /\ Before(h, p, k)
  BY <1>1 DEF EarlierThan
<1>3. p # k
  BY <1>0, <1>2, BeforeOrder
<1>4. ASSUME NEW j \in Edits(h) PROVE j \in UpTo(h, p) <=> j \in EarlierThan(h, k)
  <2>1. j \in UpTo(h, p) <=> Before(h, j, p) \/ j = p
    BY <1>2 DEF UpTo, EarlierThan
  <2>2. j \in EarlierThan(h, k) <=> Before(h, j, k)
    BY DEF EarlierThan
  <2>3. Before(h, j, p) => Before(h, j, k)
    BY <1>0, <1>2, BeforeOrder
  <2>4. Before(h, j, k) => Before(h, j, p) \/ j = p
    BY <1>1, <2>2
  <2> QED BY <1>2, <2>1, <2>2, <2>3, <2>4
<1>5. UpTo(h, p) \subseteq Edits(h)
  BY <1>2 DEF UpTo, EarlierThan
<1>6. UpTo(h, p) = EarlierThan(h, k)
  <2>1. \A j : j \in UpTo(h, p) <=> j \in EarlierThan(h, k)
    BY <1>0, <1>4, <1>5
  <2> QED BY <2>1
<1> QED BY <1>2, <1>3, <1>6

(* The edits up to k can be merged.                                         *)
LEMMA MergesUpTo ==
  ASSUME NEW h \in Seq(RowSet), NEW k \in Edits(h)
  PROVE  \E f : f = [j \in UpTo(h, k) |-> Step(h, f, j)]
PROOF
<1> DEFINE Fine(x) == \E f : f = [j \in UpTo(h, x) |-> Step(h, f, j)]
           Bad == {x \in Edits(h) : ~Fine(x)}
<1>0. Edits(h) \subseteq DOMAIN h
  BY DEF Edits
<1>1. SUFFICES ASSUME Bad # {} PROVE FALSE
  OBVIOUS
<1>2. PICK x \in Bad : \A y \in Bad \ {x} : Before(h, x, y)
  <2>1. Bad \in SUBSET DOMAIN h
    BY <1>0
  <2> HIDE DEF Bad
  <2>2. FirstOf(h, Bad) \in Bad
        /\ \A y \in Bad \ {FirstOf(h, Bad)} : Before(h, FirstOf(h, Bad), y)
    BY <1>1, <2>1, FirstIs
  <2> QED BY <2>2
<1>3. x \in Edits(h) /\ ~Fine(x)
  BY <1>2
<1> HIDE DEF Fine
<1>4. CASE EarlierThan(h, x) = {}
  <2> DEFINE f == [j \in {x} |-> MERGE(None, OPS(h[x]))]
  <2>1. UpTo(h, x) = {x}
    BY <1>4 DEF UpTo
  <2>2. Step(h, f, x) = MERGE(None, OPS(h[x]))
    BY <1>4 DEF Step
  <2>3. f = [j \in UpTo(h, x) |-> Step(h, f, j)]
    <3> HIDE DEF f
    <3>1. f = [j \in {x} |-> MERGE(None, OPS(h[x]))]
      BY DEF f
    <3>2. [j \in {x} |-> MERGE(None, OPS(h[x]))] = [j \in {x} |-> Step(h, f, j)]
      BY <2>2
    <3> QED BY <2>1, <3>1, <3>2
  <2> HIDE DEF f
  <2>4. Fine(x)
    BY <2>3 DEF Fine
  <2> QED BY <1>3, <2>4
<1>5. CASE EarlierThan(h, x) # {}
  <2>1. PICK p : p = LastOf(h, EarlierThan(h, x))
    OBVIOUS
  <2>2. p \in Edits(h) /\ Before(h, p, x) /\ p # x /\ UpTo(h, p) = EarlierThan(h, x)
    BY <1>3, <1>5, <2>1, UpToLast
  <2>3. Fine(p)
    <3>1. ~Before(h, x, p)
      BY <1>0, <1>3, <2>2, BeforeOrder
    <3>2. p \notin Bad
      BY <1>2, <2>2, <3>1
    <3> QED BY <2>2, <3>2
  <2>4. PICK g : g = [j \in UpTo(h, p) |-> Step(h, g, j)]
    BY <2>3 DEF Fine
  <2> DEFINE f == [j \in UpTo(h, x) |-> IF j = x THEN Step(h, g, x) ELSE g[j]]
  <2>5. ASSUME NEW j \in UpTo(h, x), EarlierThan(h, j) # {},
               NEW q, q = LastOf(h, EarlierThan(h, j))
        PROVE  f[q] = g[q]
    <3>1. j \in Edits(h) /\ (j = x \/ Before(h, j, x))
      BY <1>3 DEF UpTo, EarlierThan
    <3>2. q \in Edits(h) /\ Before(h, q, j)
      BY <2>5, <3>1, UpToLast
    <3>3. Before(h, q, x)
      BY <1>0, <1>3, <3>1, <3>2, BeforeOrder
    <3>4. q # x
      BY <1>0, <1>3, <3>3, BeforeOrder
    <3>5. q \in UpTo(h, x)
      BY <3>2, <3>3 DEF UpTo, EarlierThan
    <3> QED BY <3>4, <3>5
  <2>6. ASSUME NEW j \in UpTo(h, x) PROVE Step(h, f, j) = Step(h, g, j)
    <3> HIDE DEF f
    <3>1. CASE EarlierThan(h, j) = {}
      BY <3>1 DEF Step
    <3>2. CASE EarlierThan(h, j) # {}
      <4>1. f[LastOf(h, EarlierThan(h, j))] = g[LastOf(h, EarlierThan(h, j))]
        BY <2>5, <3>2
      <4> QED BY <4>1 DEF Step
    <3> QED BY <3>1, <3>2
  <2>7. ASSUME NEW j \in UpTo(h, x) PROVE f[j] = Step(h, g, j)
    <3>1. CASE j = x
      BY <3>1
    <3>2. CASE j # x
      <4>1. j \in UpTo(h, p)
        BY <2>2, <3>2 DEF UpTo
      <4>2. g[j] = Step(h, g, j)
        BY <2>4, <4>1
      <4> QED BY <3>2, <4>2
    <3> QED BY <3>1, <3>2
  <2>8. f = [j \in UpTo(h, x) |-> Step(h, f, j)]
    <3>1. \A j \in UpTo(h, x) : f[j] = Step(h, f, j)
      BY <2>6, <2>7
    <3>2. f = [j \in UpTo(h, x) |-> f[j]]
      OBVIOUS
    <3> HIDE DEF f
    <3>3. [j \in UpTo(h, x) |-> f[j]] = [j \in UpTo(h, x) |-> Step(h, f, j)]
      BY <3>1
    <3> QED BY <3>2, <3>3
  <2> HIDE DEF f
  <2>9. Fine(x)
    BY <2>8 DEF Fine
  <2> QED BY <1>3, <2>9
<1> QED BY <1>4, <1>5

(* So the recursion has a solution, which is what is computed.              *)
LEMMA MergedIs ==
  ASSUME NEW h \in Seq(RowSet), NEW k \in Edits(h)
  PROVE  Merged(h)[k] = Step(h, Merged(h), k)
PROOF
<1>0. Edits(h) \in SUBSET DOMAIN h
  BY DEF Edits
<1>1. PICK e : e = LastOf(h, Edits(h))
  OBVIOUS
<1>2. e \in Edits(h) /\ \A j \in Edits(h) \ {e} : Before(h, j, e)
  BY <1>0, <1>1, LastIs
<1>3. UpTo(h, e) = Edits(h)
  BY <1>2 DEF UpTo, EarlierThan
<1>4. \E f : f = [j \in Edits(h) |-> Step(h, f, j)]
  BY <1>2, <1>3, MergesUpTo
<1>5. PICK m : m = Merged(h)
  OBVIOUS
<1>6. m = [j \in Edits(h) |-> Step(h, m, j)]
  BY <1>4, <1>5 DEF Merged
<1>7. m[k] = Step(h, m, k)
  BY <1>6
<1> QED BY <1>5, <1>7

(* What is owed after an edit of a lawful changelog is what the first edit  *)
(* and this one amount to.                                                  *)
Amounts(first, last) ==
  IF first = "added" THEN IF last = "deleted" THEN None ELSE "added"
  ELSE IF last = "deleted" THEN "deleted" ELSE "modified"

LEMMA MergeAmounts ==
  ASSUME NEW f \in Ops, NEW p \in Ops, NEW q \in Ops, q = "added" <=> p = "deleted"
  PROVE  /\ MERGE(Amounts(f, p), q) = Amounts(f, q)
         /\ MERGE(None, f) = Amounts(f, f)
PROOF
  BY DEF MERGE, Amounts, Ops, None

LEMMA MergedAmounts ==
  ASSUME NEW h, Lawful(h), NEW k \in Edits(h)
  PROVE  Merged(h)[k] = Amounts(h[FirstOf(h, Edits(h))].op, h[k].op)
PROOF
<1>0. /\ h \in Seq(RowSet)
      /\ Edits(h) \in SUBSET DOMAIN h /\ Edits(h) \subseteq 1..Len(h)
      /\ \A x \in Edits(h) : h[x].op \in Ops /\ OPS(h[x]) = h[x].op
  <2>1. h \in Seq(RowSet)
    BY DEF Lawful, RowSet
  <2>2. Edits(h) \in SUBSET DOMAIN h
    BY DEF Edits
  <2>3. \A x \in Edits(h) : OPS(h[x]) = h[x].op
    BY DEF Edits, OPS
  <2> QED BY <2>1, <2>2, <2>3, RowsTyped
<1>1. PICK fst : fst = FirstOf(h, Edits(h))
  OBVIOUS
<1>2. fst \in Edits(h) /\ \A j \in Edits(h) \ {fst} : Before(h, fst, j)
  BY <1>0, <1>1, FirstIs
<1> DEFINE Fine(x) == Merged(h)[x] = Amounts(h[fst].op, h[x].op)
           Bad == {x \in Edits(h) : ~Fine(x)}
<1>3. SUFFICES ASSUME Bad # {} PROVE FALSE
  BY <1>1
<1>4. PICK x \in Bad : \A y \in Bad \ {x} : Before(h, x, y)
  <2>1. Bad \in SUBSET DOMAIN h
    BY <1>0
  <2> HIDE DEF Bad
  <2>2. FirstOf(h, Bad) \in Bad
        /\ \A y \in Bad \ {FirstOf(h, Bad)} : Before(h, FirstOf(h, Bad), y)
    BY <1>0, <1>3, <2>1, FirstIs
  <2> QED BY <2>2
<1>5. x \in Edits(h) /\ ~Fine(x)
  BY <1>4
<1>6. Merged(h)[x] = Step(h, Merged(h), x)
  BY <1>0, <1>5, MergedIs
<1>7. CASE EarlierThan(h, x) = {}
  <2>1. x = fst
    <3>1. fst \in EarlierThan(h, x) \/ x = fst
      BY <1>2, <1>5 DEF EarlierThan
    <3> QED BY <1>7, <3>1
  <2>2. Merged(h)[x] = MERGE(None, h[x].op)
    BY <1>0, <1>5, <1>6, <1>7 DEF Step
  <2>3. MERGE(None, h[x].op) = Amounts(h[x].op, h[x].op)
    BY <1>0, <1>5, MergeAmounts DEF Ops
  <2> QED BY <1>5, <2>1, <2>2, <2>3
<1>8. CASE EarlierThan(h, x) # {}
  <2>1. PICK p : p = LastOf(h, EarlierThan(h, x))
    OBVIOUS
  <2>2. p \in Edits(h) /\ Before(h, p, x) /\ p # x
    BY <1>0, <1>5, <1>8, <2>1, UpToLast
  <2>3. Merged(h)[p] = Amounts(h[fst].op, h[p].op)
    <3>1. ~Before(h, x, p)
      BY <1>0, <1>5, <2>2, BeforeOrder
    <3>2. p \notin Bad
      BY <1>4, <2>2, <3>1
    <3> QED BY <2>2, <3>2
  <2>4. Merged(h)[x] = MERGE(Merged(h)[p], h[x].op)
    BY <1>0, <1>5, <1>6, <1>8, <2>1 DEF Step
  <2>5. h[x].op = "added" <=> h[p].op = "deleted"
    BY <1>5, <1>8, <2>1 DEF Lawful
  <2>6. MERGE(Amounts(h[fst].op, h[p].op), h[x].op) = Amounts(h[fst].op, h[x].op)
    BY <1>0, <1>2, <1>5, <2>2, <2>5, MergeAmounts
  <2> QED BY <1>5, <2>3, <2>4, <2>6
<1> QED BY <1>7, <1>8

(* The merge says what the edits amount to, and a card nobody edited owes   *)
(* nothing.                                                                 *)
LEMMA OwedIsNet ==
  ASSUME NEW c \in Cards, Lawful(rows[c])
  PROVE  Owed[c] = Net(c)
PROOF
<1>1. PICK h : h = rows[c]
  OBVIOUS
<1>2. Lawful(h) /\ h \in Seq(RowSet)
  BY <1>1 DEF Lawful, RowSet
<1>3. Mine(c) = Edits(h)
  <2>1. \A k \in DOMAIN h : h[k].op \in Ops
    BY <1>2, RowsTyped
  <2>2. \A k \in DOMAIN h : h[k].by = "user" <=> OPS(h[k]) # None
    BY <2>1 DEF OPS, Ops, None
  <2> QED BY <1>1, <2>2 DEF Mine, Edits
<1>4. Owed[c] = parseLegacyChangelog(h)
  BY <1>1 DEF Owed
<1>5. CASE Edits(h) = {}
  <2>1. Owed[c] = None
    BY <1>4, <1>5, ParseMerges
  <2>2. ~Edited(c)
    BY <1>3, <1>5 DEF Edited
  <2>3. Net(c) = None
    BY <2>2 DEF Net, Known, Present
  <2> QED BY <2>1, <2>3
<1>6. CASE Edits(h) # {}
  <2>1. PICK e : e = LastOf(h, Edits(h))
    OBVIOUS
  <2>2. PICK f : f = FirstOf(h, Edits(h))
    OBVIOUS
  <2>3. Edits(h) \in SUBSET DOMAIN h
    BY DEF Edits
  <2>4. e \in Edits(h) /\ f \in Edits(h)
    BY <1>2, <1>6, <2>1, <2>2, <2>3, LastIs, FirstIs
  <2>5. h[e].op \in Ops /\ h[f].op \in Ops
    BY <1>2, <2>3, <2>4, RowsTyped
  <2>6. Owed[c] = Amounts(h[f].op, h[e].op)
    BY <1>2, <1>4, <1>6, <2>1, <2>2, <2>4, ParseMerges, MergedAmounts
  <2>7. Edited(c) /\ Earliest(c) = h[f] /\ Latest(c) = h[e]
    BY <1>1, <1>3, <1>6, <2>1, <2>2 DEF Edited, Earliest, Latest
  <2>8. /\ Known(c) <=> h[f].op # "added"
        /\ Present(c) <=> h[e].op # "deleted"
    BY <2>7 DEF Known, Present
  <2>9. Net(c) = Amounts(h[f].op, h[e].op)
    BY <2>7, <2>8 DEF Net, Amounts
  <2> QED BY <2>6, <2>9
<1> QED BY <1>5, <1>6

-----------------------------------------------------------------------------
(* The inductive invariant.                                                 *)

(* The account is listed, and it has folders.                               *)
Whole == listed = Folders /\ Folders # {}

Places == {"idle", "next", "delete", "deselect", "enable", "sync", "replay", "flags", "drop"}
Rebuilding == {"next", "delete", "deselect", "enable", "sync"}
OnFolder == {"delete", "deselect", "enable", "sync"}
Working == Rebuilding \cup {"replay", "flags"}
Open == {"intro", "running", "replay", "applying"}
Jobs == [at : Places, left : SUBSET Folders, f : Folders \cup {None},
         take : SUBSET (Cards \cup Lists)]
Teardowns == {"idle", "disable", "flags", "drop", "clear", "clearRemove", "dropRemove", "remove"}

(* The control state.                                                       *)
Shaped ==
  /\ \A c \in Cards : Lawful(rows[c])
  /\ disk \in [accounts : BOOLEAN, folders : BOOLEAN, done : BOOLEAN]
  /\ acc \in [exists : BOOLEAN, enabled : BOOLEAN, imported : BOOLEAN, replay : BOOLEAN]
  /\ listed \in {{}, Folders} /\ bound \subseteq selected /\ selected \subseteq listed
  /\ frozen \subseteq Folders
  /\ host \in {"off", "folders", "freeze", "rescue", "release", "up"}
  /\ job \in Jobs /\ (job.at \in OnFolder => job.f \in Folders)
  /\ dialog \in Open \cup {"closed", "done"}
  /\ offer \subseteq Cards \cup Lists
  /\ teardown \in Teardowns
  /\ taken = NotYet \/ taken \subseteq Cards \cup Lists

(* What is only in memory is not there before boot is through; the way out  *)
(* is open to an account that owes nothing; and what removes it takes the   *)
(* rows first.                                                              *)
Ordered ==
  /\ host # "up" => job = NoJob /\ dialog = "closed" /\ offer = {} /\ teardown = "idle"
  /\ (disk.done => disk.accounts) /\ (disk.accounts \/ host = "off")
  /\ host = "folders" => acc.exists /\ acc.imported /\ acc.replay
  /\ acc.exists \/ listed = {}
  /\ teardown \in {"disable", "flags"} => ~acc.replay
  /\ teardown = "drop" \/ job.at = "drop" => ~acc.imported
  /\ teardown \in {"dropRemove", "remove"} => listed = {}
  /\ dialog = "replay" => job.at = "idle"
  /\ job.at \in OnFolder => job.f \notin bound
  /\ job.at = "sync" => job.f \notin listed \/ job.f \in selected

(* The books as the old version left them.                                  *)
OriginalLists == {[of |-> l, members |-> {c \in Members[l] : Present(c)}] : l \in Lists}
AsLeft ==
  /\ res = [f \in Folders |-> "original"]
  /\ local = [c \in Cards |-> Original(c)]
  /\ lists = OriginalLists

(* All that was ever owed, as it is read from the books.                    *)
PresentIn(f) == {c \in Cards : Present(c)} \cap InFolder(f)
Full == UNION {Rescued(Owed, f, PresentIn(f)) : f \in Folders}

(* The migration goes on only with all of it.                               *)
Live == acc.imported /\ acc.replay /\ rescue = Full /\ rescue # NoRescue

Secured ==
  /\ rescue \in {NoRescue, {}, Full}
  /\ ~disk.accounts \/ host = "folders" =>
       listed = {} /\ AsLeft /\ rescue = NoRescue /\ taken = NotYet
  /\ Whole /\ acc.imported /\ rescue = NoRescue => AsLeft /\ bound = Folders /\ acc.replay
  /\ Whole /\ rescue # NoRescue => rescue = Full
  /\ Whole /\ acc.imported /\ countHeld(rescue) # 0 => acc.replay
  /\ host = "release" => rescue # NoRescue /\ countHeld(rescue) = 0
  /\ Whole /\ (job.at \in Working \/ (dialog \in Open /\ job.at # "drop")) => Live

(* A card of a rebuilt folder before the replay, and after it.              *)
Fresh(c) == local[c] = Pulled(c) \/ (PullMayFail /\ local[c] = Nothing)
Outcome(c, take) ==
  IF c \in take /\ Net(c) # "deleted"
  THEN Versions(c) = 1 /\ (local[c].made > 0 => ~local[c].held)
  ELSE Versions(c) = 0 /\ (c \in take => ~local[c].held)
ListBack(l) ==
  [of |-> l, members |-> {c \in Members[l] : Present(c) /\ There(c)}] \in lists
Offerable ==
  {e.of : e \in {k \in Kept : /\ In[k.of] \in bound /\ k.op # "context"
                              /\ effectiveOp(k, HeldCards) # None}}
Entries == {e.of : e \in {k \in Full : k.op # "context"}}

Rebuilt ==
  /\ job.at \in {"deselect", "enable", "sync"} =>
       \A c \in InFolder(job.f) : local[c] = Nothing
  /\ Whole /\ job.at \in Rebuilding =>
       \A c \in Cards : In[c] \in bound \ job.left => Fresh(c)
  /\ Whole /\ dialog = "replay" =>
       offer = Offerable /\ \A c \in Cards : In[c] \in bound => Fresh(c)

Replayed ==
  /\ job.at = "flags" => job.left = {}
  /\ Whole /\ job.at \in {"replay", "flags"} =>
       /\ job.take \subseteq Entries /\ \A x \in job.take : In[x] \in bound
       /\ \A c \in Cards : In[c] \in bound =>
            IF In[c] \in job.left THEN Fresh(c) ELSE Outcome(c, job.take)
       /\ \A l \in Lists \cap job.take : In[l] \in job.left \/ ListBack(l)
  /\ Whole /\ taken # NotYet =>
       /\ ~acc.imported
       /\ \A c \in Cards : In[c] \in bound => Outcome(c, taken)
       /\ \A l \in Lists \cap taken : ListBack(l)

(* The types of what is copied.                                             *)
Copied ==
  /\ \A c \in server : c \in Cards /\ Known(c)
  /\ res \in [Folders -> {"original", "gone", "empty", "pulled"}]
  /\ local \in [Cards -> Copies]
  /\ \A l \in lists : l.of \in Lists /\ l.members \subseteq Cards

IInv == Shaped /\ Ordered /\ Secured /\ Rebuilt /\ Replayed /\ Copied

-----------------------------------------------------------------------------
(* The control state.                                                       *)

LEMMA JobTo ==
  ASSUME job \in Jobs, NEW at \in Places, job' = [job EXCEPT !.at = at]
  PROVE  /\ job' \in Jobs /\ job'.at = at /\ job'.f = job.f /\ job'.left = job.left
         /\ job'.take = job.take
PROOF
  BY DEF Jobs

LEMMA JobOn ==
  ASSUME job \in Jobs, NEW f \in Folders, job' = [job EXCEPT !.at = "delete", !.f = f]
  PROVE  job' \in Jobs /\ job'.at = "delete" /\ job'.f = f /\ job'.left = job.left
PROOF
<1>1. "delete" \in Places
  BY DEF Places
<1> QED BY <1>1 DEF Jobs

LEMMA JobBack ==
  ASSUME job \in Jobs, NEW f, job' = [job EXCEPT !.at = "next", !.left = @ \ {f}]
  PROVE  job' \in Jobs /\ job'.at = "next" /\ job'.left = job.left \ {f}
PROOF
<1>1. "next" \in Places
  BY DEF Places
<1> QED BY <1>1 DEF Jobs

LEMMA JobLess ==
  ASSUME job \in Jobs, NEW f, job' = [job EXCEPT !.left = @ \ {f}]
  PROVE  /\ job' \in Jobs /\ job'.at = job.at /\ job'.left = job.left \ {f}
         /\ job'.take = job.take
PROOF
  BY DEF Jobs

LEMMA NoJobIs ==
  /\ NoJob \in Jobs /\ NoJob.at = "idle" /\ NoJob.left = {} /\ NoJob.take = {}
  /\ \A left \in SUBSET Folders :
       /\ [NoJob EXCEPT !.at = "next", !.left = left] \in Jobs
       /\ [NoJob EXCEPT !.at = "next", !.left = left].at = "next"
       /\ [NoJob EXCEPT !.at = "next", !.left = left].left = left
PROOF
  BY DEF NoJob, Jobs, Places

LEMMA AccSets ==
  ASSUME acc \in [exists : BOOLEAN, enabled : BOOLEAN, imported : BOOLEAN, replay : BOOLEAN]
  PROVE  /\ Released \in [exists : BOOLEAN, enabled : BOOLEAN, imported : BOOLEAN, replay : BOOLEAN]
         /\ Released.exists = acc.exists /\ Released.imported = acc.imported /\ ~Released.replay
         /\ Unlocked \in [exists : BOOLEAN, enabled : BOOLEAN, imported : BOOLEAN, replay : BOOLEAN]
         /\ Unlocked.exists = acc.exists /\ ~Unlocked.imported /\ ~Unlocked.replay
         /\ \A b \in BOOLEAN :
              /\ [acc EXCEPT !.enabled = b] \in
                   [exists : BOOLEAN, enabled : BOOLEAN, imported : BOOLEAN, replay : BOOLEAN]
              /\ [acc EXCEPT !.enabled = b].exists = acc.exists
              /\ [acc EXCEPT !.enabled = b].imported = acc.imported
              /\ [acc EXCEPT !.enabled = b].replay = acc.replay
PROOF
  BY DEF Released, Unlocked

-----------------------------------------------------------------------------
(* What is in the rescue.                                                   *)

LEMMA NetFacts ==
  ASSUME NEW c \in Cards
  PROVE  /\ Net(c) \in Ops \cup {None}
         /\ Net(c) = "deleted" <=> (Known(c) /\ ~Present(c))
         /\ Net(c) = "added" <=> (~Known(c) /\ Present(c))
         /\ Net(c) = "modified" <=> (Edited(c) /\ Known(c) /\ Present(c))
PROOF
<1>1. ~Edited(c) => Known(c) /\ Present(c)
  BY DEF Known, Present
<1>2. CASE ~Edited(c) \/ (~Known(c) /\ ~Present(c))
  BY <1>1, <1>2 DEF Net, Ops, None
<1>3. CASE Edited(c) /\ Known(c) /\ ~Present(c)
  BY <1>3 DEF Net, Ops, None
<1>4. CASE Edited(c) /\ Known(c) /\ Present(c)
  BY <1>4 DEF Net, Ops, None
<1>5. CASE Edited(c) /\ ~Known(c) /\ Present(c)
  BY <1>5 DEF Net, Ops, None
<1> QED BY <1>2, <1>3, <1>4, <1>5

(* The entries of one folder.                                               *)
Edit(c) == Entry(c, Net(c), {})
Owes(f) == \E c \in Cards : In[c] = f /\ Net(c) # None
Named(l, e) == /\ e.of = l /\ e.op = "added"
               /\ {n.card : n \in e.names} = {c \in Members[l] : Present(c)}

LEMMA FolderEntries ==
  ASSUME \A c \in Cards : Lawful(rows[c]), NEW f \in Folders
  PROVE  /\ \A e \in Rescued(Owed, f, PresentIn(f)) :
              \/ \E c \in Cards : In[c] = f /\ Net(c) # None /\ e = Edit(c)
              \/ \E l \in Lists : In[l] = f /\ Named(l, e)
              \/ \E c \in Cards : /\ In[c] = f /\ Net(c) = None /\ Present(c)
                                  /\ e = Entry(c, "context", {})
         /\ \A c \in Cards : In[c] = f /\ Net(c) # None =>
              Edit(c) \in Rescued(Owed, f, PresentIn(f))
         /\ \A d, e \in Rescued(Owed, f, PresentIn(f)) :
              d.of \in Lists /\ d.of = e.of => d = e
         /\ \A l \in Lists : \A c \in Members[l] :
              Owes(f) /\ In[l] = f /\ Present(c) =>
                \E d \in Rescued(Owed, f, PresentIn(f)) : d.of = c /\ d.op # "deleted"
         /\ ~Owes(f) => Rescued(Owed, f, PresentIn(f)) = {}
PROOF
<1> DEFINE nodes == PresentIn(f)
           R == Rescued(Owed, f, nodes)
           items == resolveTarget(Owed, f, nodes)
           lls == {l \in Lists : In[l] = f}
           members(l) == Members[l] \cap nodes
           named == UNION {members(l) : l \in lls}
           created == createdBy(items)
<1>0. /\ \A c \in Cards : Owed[c] = Net(c)
      /\ \A c : c \in nodes <=> c \in Cards /\ Present(c) /\ In[c] = f
  BY OwedIsNet DEF PresentIn, InFolder
<1>1. CASE ~Owes(f)
  <2>1. R = {}
    BY <1>0, <1>1 DEF Rescued, Owes
  <2> QED BY <1>1, <2>1 DEF Owes
<1>2. CASE Owes(f)
  <2>1. R = items \cup ({listToGroupVCard(l, members(l), created) : l \in lls}
                          \cup Context(items, named))
    BY <1>0, <1>2 DEF Rescued, rescueMailingLists, Owes
  <2>2. \A e : e \in items <=> \E c \in Cards : In[c] = f /\ Net(c) # None /\ e = Edit(c)
    <3>1. \A c \in Cards : In[c] = f =>
            ((Owed[c] = "deleted" \/ (Owed[c] \in {"added", "modified"} /\ c \in nodes))
               <=> Net(c) # None)
      BY <1>0, NetFacts DEF Ops, None
    <3>2. \A c \in Cards : Entry(c, Owed[c], {}) = Edit(c)
      BY <1>0 DEF Edit
    <3> QED BY <3>1, <3>2 DEF resolveTarget
  <2>3. {e.of : e \in items} = {c \in Cards : In[c] = f /\ Net(c) # None}
    <3>1. \A c : Edit(c).of = c
      BY DEF Edit, Entry
    <3> HIDE DEF items
    <3> QED BY <2>2, <3>1
  <2>4. \A c : c \in named <=> \E l \in lls : c \in Members[l] /\ Present(c)
    <3>1. \A l \in lls : \A c \in Members[l] : c \in Cards /\ In[c] = f
      BY RescueAssumption
    <3> QED BY <1>0, <3>1
  <2>5. \A c \in named : c \in Cards /\ In[c] = f /\ Present(c)
    BY <1>0
  <2>6. \A e : e \in Context(items, named) <=>
           \E c \in named : Net(c) = None /\ e = Entry(c, "context", {})
    <3> HIDE DEF items, named
    <3> QED BY <2>3, <2>5 DEF Context
  <2>7. ASSUME NEW l \in lls PROVE Named(l, listToGroupVCard(l, members(l), created))
    <3> HIDE DEF created
    <3>1. PICK e : e = listToGroupVCard(l, members(l), created)
      OBVIOUS
    <3>2. members(l) = {c \in Members[l] : Present(c)}
      <4>1. \A c \in Members[l] : c \in Cards /\ In[c] = f
        BY RescueAssumption
      <4> QED BY <1>0, <4>1
    <3> HIDE DEF members
    <3>3. /\ e.of = l /\ e.op = "added"
          /\ e.names = {[card |-> c, by |-> IF c \in created THEN "rescueId" ELSE "serverId"] :
                          c \in members(l)}
      BY <3>1 DEF listToGroupVCard, Entry
    <3>4. {n.card : n \in e.names} = members(l)
      <4>1. \A x : x \in {n.card : n \in e.names} => x \in members(l)
        BY <3>3
      <4>2. \A x \in members(l) : x \in {n.card : n \in e.names}
        <5>1. ASSUME NEW x \in members(l) PROVE \E n \in e.names : n.card = x
          <6>1. PICK n : n = [card |-> x, by |-> IF x \in created THEN "rescueId" ELSE "serverId"]
            OBVIOUS
          <6>2. n \in e.names /\ n.card = x
            BY <3>3, <6>1
          <6> QED BY <6>2
        <5> QED BY <5>1
      <4> QED BY <4>1, <4>2
    <3> QED BY <3>1, <3>2, <3>3, <3>4 DEF Named
  <2> DEFINE card(l) == listToGroupVCard(l, members(l), created)
  <2> HIDE DEF items, named, created, members
  <2>8. \A e \in R : \/ e \in items
                     \/ \E l \in lls : e = card(l)
                     \/ \E c \in named : Net(c) = None /\ e = Entry(c, "context", {})
    BY <2>1, <2>6
  <2>9. items \subseteq R /\ Context(items, named) \subseteq R
    BY <2>1
  <2> HIDE DEF card, R
  <2>10. \A l \in lls : Named(l, card(l))
    BY <2>7 DEF card
  <2>11. ASSUME NEW e \in R
         PROVE  \/ \E c \in Cards : In[c] = f /\ Net(c) # None /\ e = Edit(c)
                \/ \E l \in Lists : In[l] = f /\ Named(l, e)
                \/ \E c \in Cards : /\ In[c] = f /\ Net(c) = None /\ Present(c)
                                    /\ e = Entry(c, "context", {})
    BY <2>2, <2>5, <2>8, <2>10
  <2>12. ASSUME NEW c \in Cards, In[c] = f, Net(c) # None PROVE Edit(c) \in R
    BY <2>2, <2>9, <2>12
  <2>13. ASSUME NEW d \in R, d.of \in Lists PROVE d.of \in lls /\ d = card(d.of)
    <3>1. d \notin items
      <4>1. \A c \in Cards : c \notin Lists /\ Edit(c).of = c
        BY RescueAssumption DEF Edit, Entry
      <4> QED BY <2>2, <2>13, <4>1
    <3>2. \A c \in named : d # Entry(c, "context", {})
      <4>1. \A c \in named : c \notin Lists /\ Entry(c, "context", {}).of = c
        BY <2>5, RescueAssumption DEF Entry
      <4> QED BY <2>13, <4>1
    <3>3. PICK l \in lls : d = card(l)
      BY <2>8, <3>1, <3>2
    <3>4. d.of = l
      BY <2>10, <3>3 DEF Named
    <3> QED BY <3>3, <3>4
  <2>14. ASSUME NEW l \in Lists, NEW c \in Members[l], In[l] = f, Present(c)
         PROVE  \E d \in R : d.of = c /\ d.op # "deleted"
    <3>1. c \in Cards /\ In[c] = f /\ c \in named
      BY <2>4, <2>14, RescueAssumption
    <3>2. CASE Net(c) # None
      <4>1. Edit(c) \in R /\ Edit(c).of = c /\ Edit(c).op = Net(c)
        BY <2>12, <3>1, <3>2 DEF Edit, Entry
      <4>2. Net(c) # "deleted"
        BY <2>14, <3>1, NetFacts
      <4> QED BY <4>1, <4>2
    <3>3. CASE Net(c) = None
      <4>1. Entry(c, "context", {}) \in R
        BY <2>6, <2>9, <3>1, <3>3
      <4>2. Entry(c, "context", {}).of = c /\ Entry(c, "context", {}).op = "context"
        BY DEF Entry
      <4> QED BY <4>1, <4>2
    <3> QED BY <3>2, <3>3
  <2>15. \A d, e \in R : d.of \in Lists /\ d.of = e.of => d = e
    BY <2>13
  <2> HIDE DEF nodes
  <2> QED BY <1>2, <2>11, <2>12, <2>14, <2>15 DEF R, nodes
<1> QED BY <1>1, <1>2

(* The whole of it: of every card what is owed, of every list of a book in  *)
(* which something is owed the list, and of these lists the other cards.    *)
LEMMA FullIs ==
  ASSUME \A c \in Cards : Lawful(rows[c])
  PROVE  /\ \A e \in Full :
              \/ \E c \in Cards : Net(c) # None /\ e = Edit(c)
              \/ e.of \in Lists /\ Named(e.of, e)
              \/ \E c \in Cards : Net(c) = None /\ Present(c) /\ e = Entry(c, "context", {})
         /\ \A c \in Cards : Net(c) # None => Edit(c) \in Full
         /\ \A d, e \in Full : d.of = e.of => d = e
         /\ \A e \in Full : e.of \in Lists =>
              \A c \in Members[e.of] : Present(c) =>
                \E d \in Full : d.of = c /\ d.op # "deleted"
PROOF
<1> DEFINE R(f) == Rescued(Owed, f, PresentIn(f))
<1>0. \A e : e \in Full <=> \E f \in Folders : e \in R(f)
  BY DEF Full
<1>1. ASSUME NEW f \in Folders
      PROVE  /\ \A e \in R(f) :
              \/ \E c \in Cards : In[c] = f /\ Net(c) # None /\ e = Edit(c)
              \/ \E l \in Lists : In[l] = f /\ Named(l, e)
              \/ \E c \in Cards : /\ In[c] = f /\ Net(c) = None /\ Present(c)
                                  /\ e = Entry(c, "context", {})
             /\ \A c \in Cards : In[c] = f /\ Net(c) # None => Edit(c) \in R(f)
             /\ \A d, e \in R(f) : d.of \in Lists /\ d.of = e.of => d = e
             /\ \A l \in Lists : \A c \in Members[l] :
                  Owes(f) /\ In[l] = f /\ Present(c) =>
                    \E d \in R(f) : d.of = c /\ d.op # "deleted"
             /\ ~Owes(f) => R(f) = {}
  BY FolderEntries
<1> HIDE DEF R
<1>2. ASSUME NEW e \in Full
      PROVE  \/ \E c \in Cards : Net(c) # None /\ e = Edit(c)
             \/ e.of \in Lists /\ Named(e.of, e)
             \/ \E c \in Cards : Net(c) = None /\ Present(c) /\ e = Entry(c, "context", {})
  <2>1. PICK f \in Folders : e \in R(f)
    BY <1>0
  <2>2. \A l : Named(l, e) => e.of = l
    BY DEF Named
  <2> QED BY <1>1, <2>1, <2>2
<1>3. ASSUME NEW c \in Cards, Net(c) # None PROVE Edit(c) \in Full
  BY <1>0, <1>1, <1>3, RescueAssumption
<1>4. ASSUME NEW f \in Folders, NEW e \in R(f)
      PROVE  e.of \in Cards \cup Lists /\ In[e.of] = f
  <2>1. \A c \in Cards : Edit(c).of = c /\ Entry(c, "context", {}).of = c
    BY DEF Edit, Entry
  <2>2. \A l : Named(l, e) => e.of = l
    BY DEF Named
  <2> QED BY <1>1, <2>1, <2>2
<1>5. ASSUME NEW d \in Full, NEW e \in Full, d.of = e.of PROVE d = e
  <2>1. PICK f \in Folders : d \in R(f)
    BY <1>0
  <2>2. PICK g \in Folders : e \in R(g)
    BY <1>0
  <2>3. f = g /\ e \in R(f)
    BY <1>4, <1>5, <2>1, <2>2
  <2>4. CASE d.of \in Lists
    BY <1>1, <1>5, <2>1, <2>3, <2>4
  <2>5. CASE d.of \notin Lists
    <3>1. ASSUME NEW x \in Full, x.of = d.of
          PROVE  x = IF Net(d.of) # None THEN Edit(d.of) ELSE Entry(d.of, "context", {})
      <4>1. \A c \in Cards : Edit(c).of = c /\ Entry(c, "context", {}).of = c
        BY DEF Edit, Entry
      <4> QED BY <1>2, <2>5, <3>1, <4>1
    <3> QED BY <1>5, <3>1
  <2> QED BY <2>4, <2>5
<1>6. ASSUME NEW e \in Full, e.of \in Lists, NEW c \in Members[e.of], Present(c)
      PROVE  \E d \in Full : d.of = c /\ d.op # "deleted"
  <2>1. PICK f \in Folders : e \in R(f)
    BY <1>0
  <2>2. Owes(f) /\ In[e.of] = f
    BY <1>1, <1>4, <2>1
  <2>3. \E d \in R(f) : d.of = c /\ d.op # "deleted"
    BY <1>1, <1>6, <2>2
  <2> QED BY <1>0, <2>3
<1> QED BY <1>2, <1>3, <1>5, <1>6

(* What follows for an entry.                                               *)
LEMMA EntryFacts ==
  ASSUME \A c \in Cards : Lawful(rows[c]), NEW e \in Full
  PROVE  /\ e.of \in Cards \cup Lists /\ e.op \in Ops \cup {"context"}
         /\ e.of \in Cards => e.op = IF Net(e.of) # None THEN Net(e.of) ELSE "context"
         /\ e.of \in Lists => /\ e.op = "added"
                              /\ {n.card : n \in e.names} = {c \in Members[e.of] : Present(c)}
PROOF
<1>1. CASE \E c \in Cards : Net(c) # None /\ e = Edit(c)
  <2>1. PICK c \in Cards : Net(c) # None /\ e = Edit(c)
    BY <1>1
  <2>2. e.of = c /\ e.op = Net(c) /\ c \notin Lists
    BY <2>1, RescueAssumption DEF Edit, Entry
  <2> QED BY <2>1, <2>2, NetFacts
<1>2. CASE e.of \in Lists /\ Named(e.of, e)
  BY <1>2, RescueAssumption DEF Named, Ops
<1>3. CASE \E c \in Cards : Net(c) = None /\ Present(c) /\ e = Entry(c, "context", {})
  <2>1. PICK c \in Cards : Net(c) = None /\ e = Entry(c, "context", {})
    BY <1>3
  <2>2. e.of = c /\ e.op = "context" /\ c \notin Lists
    BY <2>1, RescueAssumption DEF Entry
  <2> QED BY <2>1, <2>2
<1> QED BY <1>1, <1>2, <1>3, FullIs

(* What is kept is that, or nothing; and nothing is no entry.               *)
LEMMA KeptFacts ==
  ASSUME Shaped, rescue \in {NoRescue, {}, Full}
  PROVE  /\ Kept \subseteq Full
         /\ \A e \in Kept : e.of \in Cards \cup Lists /\ In[e.of] \in Folders
         /\ rescue = Full /\ rescue # NoRescue => Kept = Full
         /\ \A e \in Full : e.op # None
PROOF
<1>1. Kept \subseteq Full /\ (rescue = Full /\ rescue # NoRescue => Kept = Full)
  BY DEF Kept
<1>2. \A e \in Full : e.of \in Cards \cup Lists /\ e.op \in Ops \cup {"context"}
  BY EntryFacts DEF Shaped
<1>3. \A x \in Cards \cup Lists : In[x] \in Folders
  BY RescueAssumption
<1> QED BY <1>1, <1>2, <1>3 DEF Ops, None

(* What is kept is finite, so a count of nothing is nothing.                *)
LEMMA CountFacts ==
  ASSUME Shaped
  PROVE  /\ countHeld({}) = 0
         /\ countHeld(Full) = 0 <=> \A e \in Full : e.op = "context"
         /\ countHeld(NoRescue) # 0
PROOF
<1>1. IsFiniteSet(Cards \cup Lists)
  BY RescueAssumption, FS_Union
<1> DEFINE H == {e \in Full : e.op # "context"}
<1>2. IsFiniteSet(H)
  <2> DEFINE D == {x \in Cards \cup Lists : \E e \in H : e.of = x}
             g == [x \in D |-> CHOOSE e \in H : e.of = x]
  <2>1. \A d, e \in H : e.of \in D /\ (d.of = e.of => d = e)
    BY EntryFacts, FullIs DEF Shaped
  <2>2. IsFiniteSet(D)
    BY <1>1, FS_Subset
  <2> HIDE DEF H
  <2>3. \A x \in D : g[x] \in H /\ g[x].of = x
    OBVIOUS
  <2> HIDE DEF D
  <2>4. g \in [D -> H]
    BY <2>3
  <2>5. \A e \in H : \E x \in D : g[x] = e
    BY <2>1, <2>3
  <2> HIDE DEF g
  <2>6. g \in Surjection(D, H)
    BY <2>4, <2>5 DEF Surjection
  <2> QED BY <2>2, <2>6, FS_Surjection
<1>3. countHeld(Full) = Cardinality(H)
  BY DEF countHeld
<1>4. Cardinality(H) = 0 <=> H = {}
  <2> HIDE DEF H
  <2> QED BY <1>2, FS_EmptySet
<1>5. countHeld({}) = Cardinality({})
  <2>1. {e \in {} : e.op # "context"} = {}
    OBVIOUS
  <2> QED BY <2>1 DEF countHeld
<1>6. Cardinality({}) = 0
  BY FS_EmptySet
<1>7. countHeld(NoRescue) = 1
  <2>1. {e \in NoRescue : e.op # "context"} = {Entry(None, None, {})}
    BY DEF NoRescue, Entry, None
  <2>2. Cardinality({Entry(None, None, {})}) = 1
    BY FS_Singleton
  <2> QED BY <2>1, <2>2 DEF countHeld
<1> QED BY <1>3, <1>4, <1>5, <1>6, <1>7

-----------------------------------------------------------------------------
(* Every step keeps the control state.                                      *)
Control == Shaped /\ Ordered

LEMMA ControlInit == Init => Control
PROOF
<1> SUFFICES ASSUME Init PROVE Control
  OBVIOUS
<1>1. \A c \in Cards : Lawful(rows[c])
  BY MigrationAssumption DEF Init
<1>2. job = NoJob /\ job \in Jobs /\ job.at = "idle"
  BY NoJobIs DEF Init
<1>3. Ordered
  BY <1>2 DEF Init, Ordered, OnFolder
<1>4. Shaped
  BY <1>1, <1>2 DEF Init, Shaped, Teardowns, Open, OnFolder
<1> QED BY <1>3, <1>4 DEF Control

LEMMA ControlBoot ==
  ASSUME Control, Secured, Boot \/ Restart
  PROVE  Control'
PROOF
<1> USE DEF Control
<1>1. CASE runIfNeeded
  <2>1. host = "off" /\ UNCHANGED <<rows, rowVars, frozen, job, dialog, offer, teardown, taken>>
    BY <1>1 DEF runIfNeeded, bookVars, callVars
  <2>2. CASE disk.done \/ disk.accounts
    <3>1. host' = "freeze" /\ disk' = [disk EXCEPT !.done = TRUE] /\ acc' = acc /\ host = "off"
      BY <1>1, <2>2 DEF runIfNeeded
    <3>2. disk' \in [accounts : BOOLEAN, folders : BOOLEAN, done : BOOLEAN] /\ disk'.accounts
      BY <2>2, <3>1 DEF Shaped, Ordered
    <3>3. Shaped'
      BY <2>1, <3>1, <3>2 DEF Shaped, rowVars
    <3>4. Ordered'
      BY <2>1, <3>1, <3>2 DEF Ordered, rowVars
    <3> QED BY <3>3, <3>4
  <2>3. CASE ~(disk.done \/ disk.accounts)
    <3>1. /\ host' = "folders" /\ disk' = [disk EXCEPT !.accounts = TRUE] /\ host = "off"
          /\ acc' = [exists |-> TRUE, enabled |-> TRUE, imported |-> TRUE, replay |-> TRUE]
      BY <1>1, <2>3 DEF runIfNeeded
    <3>2. /\ disk' \in [accounts : BOOLEAN, folders : BOOLEAN, done : BOOLEAN]
          /\ disk'.accounts
      BY <3>1 DEF Shaped
    <3>3. /\ acc' \in [exists : BOOLEAN, enabled : BOOLEAN, imported : BOOLEAN, replay : BOOLEAN]
          /\ acc'.exists /\ acc'.imported /\ acc'.replay
      BY <3>1
    <3>4. Shaped'
      BY <2>1, <3>1, <3>2, <3>3 DEF Shaped, rowVars
    <3>5. job' = NoJob /\ job'.at = "idle"
      BY <2>1, NoJobIs DEF Ordered
    <3>6. Ordered'
      BY <2>1, <3>1, <3>2, <3>3, <3>5 DEF Ordered, rowVars, OnFolder
    <3> QED BY <3>4, <3>6
  <2> QED BY <2>2, <2>3
<1>2. CASE migrateFolders
  <2>1. /\ host = "folders" /\ host' = "freeze"
        /\ UNCHANGED <<rows, acc, frozen, job, dialog, offer, teardown, taken>>
    BY <1>2 DEF migrateFolders, bookVars, callVars
  <2>2. job' = NoJob /\ job'.at = "idle" /\ acc.exists /\ disk.accounts
    BY <2>1, NoJobIs DEF Ordered
  <2>3. /\ disk' \in [accounts : BOOLEAN, folders : BOOLEAN, done : BOOLEAN] /\ disk'.accounts
        /\ listed' \in {{}, Folders} /\ bound' \subseteq selected' /\ selected' \subseteq listed'
    BY <1>2, <2>2 DEF migrateFolders, Mishap, rowVars, Shaped
  <2>4. Shaped'
    BY <2>1, <2>2, <2>3 DEF Shaped, OnFolder
  <2>5. Ordered'
    BY <2>1, <2>2, <2>3 DEF Ordered, OnFolder
  <2> QED BY <2>4, <2>5
<1>3. CASE freezeLegacyTargets
  BY <1>3 DEF freezeLegacyTargets, BootUnchanged, callVars, Shaped, Ordered
<1>4. CASE rescueLegacyEdits
  BY <1>4 DEF rescueLegacyEdits, BootUnchanged, callVars, Shaped, Ordered
<1>5. CASE releaseHold
  BY <1>5, AccSets DEF releaseHold, BootUnchanged, callVars, Shaped, Ordered
<1>6. CASE Restart
  <2>1. /\ host' = "off" /\ job' = NoJob /\ dialog' = "closed" /\ offer' = {}
        /\ teardown' = "idle"
        /\ UNCHANGED <<rows, disk, acc, listed, selected, bound, frozen, taken>>
    BY <1>6 DEF Restart, rowVars, bookVars
  <2>2. job' \in Jobs /\ job'.at = "idle"
    BY <2>1, NoJobIs
  <2>3. Shaped'
    BY <2>1, <2>2 DEF Shaped, Teardowns, OnFolder
  <2>4. Ordered'
    BY <2>1, <2>2 DEF Ordered, OnFolder
  <2> QED BY <2>3, <2>4
<1> QED BY <1>1, <1>2, <1>3, <1>4, <1>5, <1>6 DEF Boot

LEMMA ControlUser ==
  ASSUME Control, Secured, User \/ CloseWindow
  PROVE  Control'
PROOF
<1> USE DEF Control
<1>1. CASE openMigrationDialog
  BY <1>1 DEF openMigrationDialog, WindowUnchanged, rowVars, bookVars, Shaped, Ordered, Open
<1>2. CASE CloseWindow
  BY <1>2 DEF CloseWindow, WindowUnchanged, rowVars, bookVars, Shaped, Ordered, Open
<1>3. CASE startMigration
  <2>1. selected \cap bound \in SUBSET Folders
    BY DEF Shaped
  <2> QED BY <1>3, <2>1, NoJobIs DEF startMigration, WindowUnchanged, rowVars, bookVars, Shaped,
                     Ordered, Open, OnFolder
<1>4. CASE applyMigration
  <2>1. /\ host = "up" /\ dialog' = "applying"
        /\ UNCHANGED <<rows, disk, acc, rowVars, bookVars, host, offer, teardown, taken>>
    BY <1>4 DEF applyMigration, WindowUnchanged, Ordered
  <2>2. PICK take \in SUBSET offer :
          job' = [at |-> "replay", left |-> {In[e.of] : e \in Kept}, f |-> None, take |-> take]
    BY <1>4 DEF applyMigration
  <2>3. {In[e.of] : e \in Kept} \subseteq Folders
    BY KeptFacts DEF Secured
  <2>4. job' \in Jobs /\ job'.at = "replay"
    <3>1. PICK left \in SUBSET Folders : left = {In[e.of] : e \in Kept}
      BY <2>3
    <3>2. job' = [at |-> "replay", left |-> left, f |-> None, take |-> take]
      BY <2>2, <3>1
    <3> QED BY <3>2 DEF Jobs, Places, Shaped
  <2> QED BY <2>1, <2>4 DEF rowVars, bookVars, Shaped, Ordered, Open, OnFolder
<1> QED BY <1>1, <1>2, <1>3, <1>4 DEF User

LEMMA ControlJob ==
  ASSUME Control, Secured, Job \/ JobFails
  PROVE  Control'
PROOF
<1> USE DEF Control
<1>0. /\ job \in Jobs /\ dialog \in Open \cup {"closed", "done"}
      /\ job.left \subseteq Folders /\ job.take \subseteq Cards \cup Lists
  BY DEF Shaped, Jobs
<1>1. ASSUME job.at # "idle" PROVE host = "up" /\ dialog # "replay"
  BY <1>1, NoJobIs DEF Ordered
<1>2. ASSUME job' = NoJob, dialog' \in {dialog, "intro", "done", "replay"},
             offer' \subseteq Cards \cup Lists, frozen' = frozen, job.at # "idle",
             UNCHANGED <<rows, disk, acc, listed, selected, bound, host, teardown, taken>>
      PROVE  Control'
  <2>1. job' \in Jobs /\ job'.at = "idle"
    BY <1>2, NoJobIs
  <2>2. Shaped'
    BY <1>0, <1>2, <2>1 DEF Shaped, Open, OnFolder
  <2>3. Ordered'
    BY <1>1, <1>2, <2>1 DEF Ordered, OnFolder
  <2> QED BY <2>2, <2>3
<1>3. ASSUME job' \in Jobs, job.at # "idle", dialog' = dialog, offer' = offer,
             job'.at \in OnFolder => job'.f \in Folders \ bound',
             job'.at = "sync" => job'.f \notin listed \/ job'.f \in selected',
             job'.at # "drop",
             frozen' \subseteq frozen, bound' \subseteq selected', selected' \subseteq listed',
             UNCHANGED <<rows, disk, acc, listed, host, teardown, taken>>
      PROVE  Control'
  <2>1. Shaped'
    BY <1>3 DEF Shaped
  <2>2. Ordered'
    BY <1>1, <1>3 DEF Ordered
  <2> QED BY <2>1, <2>2
<1>4. CASE JobFails
  <2>1. /\ job' = NoJob /\ dialog' \in {dialog, "intro"} /\ job.at # "idle"
        /\ UNCHANGED <<rows, disk, acc, listed, selected, bound, host, teardown, taken, offer,
                       frozen>>
    BY <1>4 DEF JobFails, JobOver, JobUnchanged, rowVars, bookVars
  <2> QED BY <1>2, <2>1 DEF Shaped
<1>5. ASSUME NEW f \in job.left, disableFolder(f)
      PROVE  Control'
  <2>0. /\ job.at = "next" /\ f \in Folders
        /\ UNCHANGED <<rows, disk, acc, listed, selected, host, teardown, taken,
                       offer>>
    BY <1>0, <1>5 DEF disableFolder, JobUnchanged
  <2>1. CASE f \notin listed
    <3>1. job' = NoJob /\ dialog' \in {dialog, "intro"} /\ UNCHANGED <<bound, frozen>>
      BY <1>5, <2>1 DEF disableFolder, JobOver
    <3> QED BY <1>2, <2>0, <3>1 DEF Shaped
  <2>2. CASE f \in listed
    <3>1. /\ job' = [job EXCEPT !.at = "delete", !.f = f] /\ UNCHANGED dialog
          /\ bound' = bound \ {f} /\ frozen' = frozen \ bound
      BY <1>5, <2>2 DEF disableFolder, thawLegacyTargets
    <3>2. job' \in Jobs /\ job'.at = "delete" /\ job'.f = f
      BY <1>0, <2>0, <3>1, JobOn
    <3>3. bound' \subseteq selected' /\ selected' \subseteq listed'
      BY <2>0, <3>1 DEF Shaped
    <3> QED BY <1>3, <2>0, <3>1, <3>2, <3>3
  <2> QED BY <2>1, <2>2
<1>6. CASE deleteTarget
  <2>1. /\ job' = [job EXCEPT !.at = "deselect"] /\ job.at = "delete" /\ frozen' \subseteq frozen
        /\ UNCHANGED <<rows, disk, acc, listed, selected, bound, dialog, host, teardown, taken,
                       offer>>
    BY <1>6 DEF deleteTarget, JobAt, Emptied, JobUnchanged, rowVars
  <2>2. job' \in Jobs /\ job'.at = "deselect" /\ job'.f = job.f
    <3>1. "deselect" \in Places
      BY DEF Places
    <3> QED BY <1>0, <2>1, <3>1, JobTo
  <2>3. job.f \in Folders \ bound /\ bound \subseteq selected /\ selected \subseteq listed
    BY <2>1 DEF Shaped, Ordered, OnFolder
  <2> QED BY <1>3, <2>1, <2>2, <2>3
<1>7. CASE deselectFolder
  <2>1. /\ job' = [job EXCEPT !.at = "enable"] /\ job.at = "deselect"
        /\ selected' = selected \ {job.f}
        /\ UNCHANGED <<rows, disk, acc, listed, bound, frozen, dialog, host, teardown, taken,
                       offer>>
    BY <1>7 DEF deselectFolder, JobAt, JobUnchanged, bookVars
  <2>2. job' \in Jobs /\ job'.at = "enable" /\ job'.f = job.f
    <3>1. "enable" \in Places
      BY DEF Places
    <3> QED BY <1>0, <2>1, <3>1, JobTo
  <2>3. job.f \in Folders \ bound /\ bound \subseteq selected /\ selected \subseteq listed
    BY <2>1 DEF Shaped, Ordered, OnFolder
  <2>4. bound' \subseteq selected' /\ selected' \subseteq listed'
    BY <2>1, <2>3
  <2> QED BY <1>3, <2>1, <2>2, <2>3, <2>4
<1>8. CASE enableFolder
  <2>0. /\ job.at = "enable"
        /\ UNCHANGED <<rows, disk, acc, listed, bound, frozen, host, teardown, taken,
                       offer>>
    BY <1>8 DEF enableFolder, JobUnchanged, bookVars
  <2>1. CASE job.f \notin listed
    <3>1. job' = NoJob /\ dialog' \in {dialog, "intro"} /\ UNCHANGED selected
      BY <1>8, <2>1 DEF enableFolder, JobOver
    <3> QED BY <1>2, <2>0, <3>1 DEF Shaped
  <2>2. CASE job.f \in listed
    <3>1. job' = [job EXCEPT !.at = "sync"] /\ selected' = selected \cup {job.f} /\ dialog' = dialog
      BY <1>8, <2>2 DEF enableFolder, JobAt
    <3>2. job' \in Jobs /\ job'.at = "sync" /\ job'.f = job.f
      <4>1. "sync" \in Places
        BY DEF Places
      <4> QED BY <1>0, <3>1, <4>1, JobTo
    <3>3. job.f \in Folders \ bound /\ bound \subseteq selected /\ selected \subseteq listed
      BY <2>0 DEF Shaped, Ordered, OnFolder
    <3>4. bound' \subseteq selected' /\ selected' \subseteq listed'
      BY <2>0, <2>2, <3>1, <3>3
    <3> QED BY <1>3, <2>0, <3>1, <3>2, <3>3, <3>4
  <2> QED BY <2>1, <2>2
<1>9. CASE syncFolder
  <2>1. /\ job' = [job EXCEPT !.at = "next", !.left = @ \ {job.f}] /\ job.at = "sync"
        /\ UNCHANGED <<rows, disk, acc, listed, selected, frozen, dialog, host, teardown, taken,
                       offer>>
        /\ bound' = bound \/ (job.f \in listed /\ bound' = bound \cup {job.f})
    BY <1>9 DEF syncFolder, JobUnchanged
  <2>2. job' \in Jobs /\ job'.at = "next"
    BY <1>0, <2>1, JobBack
  <2>3. bound' \subseteq selected' /\ selected' \subseteq listed'
    BY <2>1 DEF Shaped, Ordered
  <2> QED BY <1>3, <2>1, <2>2, <2>3 DEF OnFolder
<1>10. CASE describeLegacyReplay
  <2>1. offer' \subseteq Cards \cup Lists
    BY <1>10, KeptFacts DEF describeLegacyReplay, Secured
  <2>2. /\ job' = NoJob /\ dialog' \in {dialog, "replay"} /\ job.at # "idle"
        /\ UNCHANGED <<rows, disk, acc, listed, selected, bound, frozen, host, teardown, taken>>
    BY <1>10 DEF describeLegacyReplay, JobOver, JobUnchanged, rowVars, bookVars
  <2> QED BY <1>2, <2>1, <2>2
<1>11. ASSUME NEW f \in job.left, applyLegacyReplay(f)
       PROVE  Control'
  <2>1. /\ job' = [job EXCEPT !.left = @ \ {f}] /\ job.at = "replay"
        /\ UNCHANGED <<rows, disk, acc, listed, selected, bound, frozen, dialog, host, teardown, taken,
                       offer>>
    BY <1>11 DEF applyLegacyReplay, JobUnchanged, rowVars
  <2>2. job' \in Jobs /\ job'.at = "replay"
    BY <1>0, <2>1, JobLess
  <2> QED BY <1>3, <2>1, <2>2 DEF Shaped, OnFolder
<1>12. CASE liftThaw
  <2>1. /\ job' = [job EXCEPT !.at = "flags"] /\ job.at = "replay" /\ frozen' \subseteq frozen
        /\ UNCHANGED <<rows, disk, acc, listed, selected, bound, dialog, host, teardown, taken,
                       offer>>
    BY <1>12 DEF liftThaw, thawLegacyTargets, JobAt, JobUnchanged, rowVars
  <2>2. job' \in Jobs /\ job'.at = "flags"
    <3>1. "flags" \in Places
      BY DEF Places
    <3> QED BY <1>0, <2>1, <3>1, JobTo
  <2> QED BY <1>3, <2>1, <2>2 DEF Shaped, OnFolder
<1>13. CASE liftFlags
  <2>1. /\ job' = [job EXCEPT !.at = "drop"] /\ job.at = "flags" /\ acc' = Unlocked
        /\ taken' = taken \/ taken' = job.take
        /\ UNCHANGED <<rows, disk, listed, selected, bound, frozen, dialog, host, teardown, offer>>
    BY <1>13 DEF liftFlags, JobAt, JobUnchanged, rowVars, bookVars
  <2>2. job' \in Jobs /\ job'.at = "drop"
    <3>1. "drop" \in Places
      BY DEF Places
    <3> QED BY <1>0, <2>1, <3>1, JobTo
  <2>3. /\ acc' \in [exists : BOOLEAN, enabled : BOOLEAN, imported : BOOLEAN, replay : BOOLEAN]
        /\ acc'.exists = acc.exists /\ ~acc'.imported /\ ~acc'.replay
    BY <2>1, AccSets DEF Shaped
  <2>4. Shaped'
    BY <1>0, <2>1, <2>2, <2>3 DEF Shaped, OnFolder
  <2>5. Ordered'
    BY <1>1, <2>1, <2>2, <2>3 DEF Ordered, OnFolder
  <2> QED BY <2>4, <2>5
<1>14. CASE dropLegacyRescue
  <2>1. /\ job' = NoJob /\ dialog' \in {dialog, "done"} /\ job.at # "idle"
        /\ UNCHANGED <<rows, disk, acc, listed, selected, bound, host, teardown, taken, offer,
                       frozen>>
    BY <1>14 DEF dropLegacyRescue, JobOver, JobUnchanged, rowVars, bookVars
  <2> QED BY <1>2, <2>1 DEF Shaped
<1> QED BY <1>4, <1>5, <1>6, <1>7, <1>8, <1>9, <1>10, <1>11, <1>12, <1>13, <1>14 DEF Job

LEMMA ControlTeardown ==
  ASSUME Control, Secured, setAccountEnabled \/ ConnectAgain \/ deleteAccount \/ Teardown
  PROVE  Control'
PROOF
<1> USE DEF Control, TeardownUnchanged, rowVars, bookVars, Teardowns
<1>1. CASE setAccountEnabled
  BY <1>1 DEF setAccountEnabled, canDisconnect, Shaped, Ordered
<1>2. CASE ConnectAgain
  <2>1. /\ acc' = [acc EXCEPT !.enabled = TRUE] /\ TeardownUnchanged
        /\ UNCHANGED <<rowVars, bookVars, rescue, teardown>>
    BY <1>2 DEF ConnectAgain
  <2>2. /\ acc' \in [exists : BOOLEAN, enabled : BOOLEAN, imported : BOOLEAN, replay : BOOLEAN]
        /\ acc'.exists = acc.exists /\ acc'.imported = acc.imported /\ acc'.replay = acc.replay
    BY <2>1, AccSets DEF Shaped
  <2>3. Shaped'
    BY <2>1, <2>2 DEF Shaped
  <2>4. Ordered'
    BY <2>1, <2>2 DEF Ordered
  <2> QED BY <2>3, <2>4
<1>3. CASE deleteAccount
  BY <1>3 DEF deleteAccount, Shaped, Ordered
<1>4. CASE TeardownDisable
  <2>1. /\ acc' = [acc EXCEPT !.enabled = FALSE] /\ teardown' \in {"flags", "clear"}
        /\ frozen' \subseteq frozen /\ teardown = "disable"
        /\ UNCHANGED <<rowVars, res, local, lists, rescue>>
    BY <1>4 DEF TeardownDisable, thawLegacyTargets
  <2>2. TeardownUnchanged
    BY <1>4 DEF TeardownDisable
  <2>3. /\ acc' \in [exists : BOOLEAN, enabled : BOOLEAN, imported : BOOLEAN, replay : BOOLEAN]
        /\ acc'.exists = acc.exists /\ acc'.imported = acc.imported /\ acc'.replay = acc.replay
    BY <2>1, AccSets DEF Shaped
  <2>4. Shaped'
    BY <2>1, <2>2, <2>3 DEF Shaped
  <2>5. Ordered'
    BY <2>1, <2>2, <2>3 DEF Ordered
  <2> QED BY <2>4, <2>5
<1>5. CASE TeardownFlags
  BY <1>5, AccSets DEF TeardownFlags, Shaped, Ordered
<1>6. CASE TeardownDrop
  <2>1. \/ teardown = "drop" /\ teardown' = "clear"
        \/ teardown = "dropRemove" /\ teardown' = "remove"
    BY <1>6 DEF TeardownDrop
  <2> QED BY <1>6, <2>1 DEF TeardownDrop, Shaped, Ordered
<1>7. CASE TeardownClear
  <2>1. /\ listed' = {} /\ selected' = {} /\ bound' = {} /\ frozen' \subseteq frozen
        /\ teardown' \in {"idle", "dropRemove"} /\ UNCHANGED <<acc, rescue>>
        /\ TeardownUnchanged /\ teardown # "idle"
    BY <1>7 DEF TeardownClear, Emptied
  <2> QED BY <2>1 DEF Shaped, Ordered
<1>8. CASE TeardownRemove
  <2>1. /\ acc' \in [exists : BOOLEAN, enabled : BOOLEAN, imported : BOOLEAN, replay : BOOLEAN]
        /\ teardown = "remove" /\ teardown' = "idle"
        /\ UNCHANGED <<rowVars, bookVars, rescue>> /\ TeardownUnchanged
    BY <1>8 DEF TeardownRemove, Shaped
  <2>2. ~acc'.imported /\ ~acc'.replay /\ listed = {}
    BY <1>8 DEF TeardownRemove, Shaped, Ordered
  <2>3. Shaped'
    BY <2>1 DEF Shaped
  <2>4. Ordered'
    BY <2>1, <2>2 DEF Ordered
  <2> QED BY <2>3, <2>4
<1> QED BY <1>1, <1>2, <1>3, <1>4, <1>5, <1>6, <1>7, <1>8 DEF Teardown

LEMMA ControlStep == Control /\ Secured /\ [Next]_vars => Control'
PROOF
<1>1. CASE UNCHANGED vars
  BY <1>1 DEF vars, rowVars, bookVars, callVars, Control, Shaped, Ordered
<1> QED BY <1>1, ControlBoot, ControlUser, ControlJob, ControlTeardown DEF Next

-----------------------------------------------------------------------------
(* What is owed is secured, or still in the books.                          *)

LEMMA SamePast ==
  ASSUME rows' = rows
  PROVE  /\ Full' = Full /\ OriginalLists' = OriginalLists
         /\ \A c \in Cards : /\ Net(c)' = Net(c) /\ Original(c)' = Original(c)
                             /\ Present(c)' <=> Present(c)
PROOF
<1>1. \A c \in Cards : Mine(c)' = Mine(c)
  BY DEF Mine
<1>2. \A c \in Cards : /\ Edited(c)' <=> Edited(c)
                      /\ Latest(c)' = Latest(c) /\ Earliest(c)' = Earliest(c)
  BY <1>1 DEF Edited, Latest, Earliest
<1>3. \A c \in Cards : (Present(c)' <=> Present(c)) /\ (Known(c)' <=> Known(c))
  BY <1>2 DEF Present, Known
<1>4. \A c \in Cards : Net(c)' = Net(c) /\ Original(c)' = Original(c)
  BY <1>2, <1>3 DEF Net, Original
<1>5. Owed' = Owed
  BY DEF Owed
<1>6. \A f \in Folders : PresentIn(f)' = PresentIn(f)
  BY <1>3 DEF PresentIn, InFolder
<1>7. Full' = Full
  BY <1>5, <1>6 DEF Full
<1>8. OriginalLists' = OriginalLists
  <2>1. \A l \in Lists : {c \in Members[l] : Present(c)'} = {c \in Members[l] : Present(c)}
    BY <1>3, RescueAssumption
  <2> QED BY <2>1 DEF OriginalLists
<1> QED BY <1>3, <1>4, <1>7, <1>8

LEMMA SameBooks ==
  ASSUME rows' = rows, UNCHANGED <<res, local, lists>>
  PROVE  AsLeft' <=> AsLeft
PROOF
<1>1. [c \in Cards |-> Original(c)'] = [c \in Cards |-> Original(c)]
  BY SamePast
<1> QED BY <1>1, SamePast DEF AsLeft

LEMMA FullIsRead ==
  ASSUME Shaped
  PROVE  {} # NoRescue /\ Full # NoRescue
PROOF
<1>1. Entry(None, None, {}) \in NoRescue /\ Entry(None, None, {}).op = None
  BY DEF NoRescue, Entry
<1>2. \A e \in Full : e.op # None
  <2>1. \A e \in Full : e.op \in Ops \cup {"context"}
    BY EntryFacts DEF Shaped
  <2> QED BY <2>1 DEF Ops, None
<1> QED BY <1>1, <1>2

LEMMA SecuredInit == Init => Secured
PROOF
<1> SUFFICES ASSUME Init PROVE Secured
  OBVIOUS
<1>1. AsLeft
  BY DEF Init, AsLeft, OriginalLists
<1>2. job.at = "idle"
  BY NoJobIs DEF Init
<1> QED BY <1>1, <1>2 DEF Init, Secured, Whole, Working, Rebuilding, Open

(* What is read at boot is all of it.                                       *)
LEMMA ReadIsFull ==
  ASSUME Shaped, AsLeft,
         NEW kept, kept = UNION {Rescued(Owed, f, {c \in Cards : There(c)} \cap InFolder(f)) :
                                   f \in Folders}
  PROVE  kept = Full
PROOF
<1>1. ASSUME NEW c \in Cards PROVE There(c) <=> Present(c)
  <2>1. local[c] = Original(c)
    BY DEF AsLeft
  <2>2. /\ local[c].held = (Known(c) /\ Present(c))
        /\ local[c].made = IF ~Known(c) /\ Present(c) THEN 1 ELSE 0
    BY <2>1 DEF Original, Card
  <2>3. CASE Present(c) /\ Known(c)
    BY <2>2, <2>3 DEF There
  <2>4. CASE Present(c) /\ ~Known(c)
    <3>1. local[c].made = 1
      BY <2>2, <2>4
    <3> QED BY <2>4, <3>1 DEF There
  <2>5. CASE ~Present(c)
    <3>1. local[c].made = 0 /\ ~local[c].held
      BY <2>2, <2>5
    <3> QED BY <2>5, <3>1 DEF There
  <2> QED BY <2>3, <2>4, <2>5
<1>2. {c \in Cards : There(c)} = {c \in Cards : Present(c)}
  BY <1>1
<1> QED BY <1>2 DEF Full, PresentIn

LEMMA SecuredBoot ==
  ASSUME Control, Secured, Boot \/ Restart
  PROVE  Secured'
PROOF
<1> USE DEF Control
<1>0. rows' = rows /\ UNCHANGED <<res, local, lists, taken>>
  BY DEF Boot, Restart, runIfNeeded, migrateFolders, freezeLegacyTargets, rescueLegacyEdits,
     releaseHold, BootUnchanged, bookVars
<1>1. Full' = Full /\ (AsLeft' <=> AsLeft)
  BY <1>0, SamePast, SameBooks
<1>2. job' = NoJob /\ dialog' = "closed"
  BY DEF Boot, Restart, runIfNeeded, migrateFolders, freezeLegacyTargets, rescueLegacyEdits,
     releaseHold, BootUnchanged, callVars, Ordered
<1>3. ~(job'.at \in Working \/ (dialog' \in Open /\ job'.at # "drop"))
  BY <1>2, NoJobIs DEF Working, Rebuilding, Open
<1>4. CASE runIfNeeded
  <2>1. CASE disk.done \/ disk.accounts
    <3>1. /\ host' = "freeze" /\ disk.accounts /\ disk' = [disk EXCEPT !.done = TRUE]
          /\ UNCHANGED <<acc, rowVars, rescue>>
      BY <1>4, <2>1 DEF runIfNeeded, bookVars, Ordered
    <3>2. disk'.accounts
      BY <3>1 DEF Shaped
    <3> QED BY <1>0, <1>1, <1>3, <3>1, <3>2 DEF Secured, Whole, rowVars
  <2>2. CASE ~(disk.done \/ disk.accounts)
    <3>1. host' = "folders" /\ UNCHANGED <<rowVars, rescue>> /\ ~disk.accounts
      BY <1>4, <2>2 DEF runIfNeeded, bookVars
    <3> QED BY <1>0, <1>1, <1>3, <3>1 DEF Secured, Whole, rowVars
  <2> QED BY <2>1, <2>2
<1>5. CASE migrateFolders
  <2>1. /\ host = "folders" /\ host' = "freeze" /\ UNCHANGED <<acc, rescue>>
    BY <1>5 DEF migrateFolders
  <2>2. /\ disk.accounts /\ acc.imported /\ acc.replay
        /\ listed = {} /\ AsLeft /\ rescue = NoRescue /\ taken = NotYet
    BY <2>1 DEF Ordered, Secured
  <2>3. disk'.accounts /\ (listed' = {} \/ bound' = Folders)
    BY <1>5, <2>2 DEF migrateFolders, Shaped, rowVars
  <2> QED BY <1>0, <1>1, <1>3, <2>1, <2>2, <2>3 DEF Secured, Whole
<1>6. CASE freezeLegacyTargets
  <2>1. host' = "rescue" /\ UNCHANGED <<disk, acc, rowVars, rescue>> /\ disk.accounts
    BY <1>6 DEF freezeLegacyTargets, BootUnchanged, Ordered, rowVars
  <2> QED BY <1>0, <1>1, <1>3, <2>1 DEF Secured, Whole, rowVars
<1>7. CASE rescueLegacyEdits
  <2>0. UNCHANGED <<disk, acc, rowVars>> /\ disk.accounts
    BY <1>7 DEF rescueLegacyEdits, BootUnchanged, Ordered, rowVars
  <2>1. CASE ~(acc.exists /\ NotYetRead(rescue))
    <3>1. host' = "up" /\ UNCHANGED rescue
      BY <1>7, <2>1 DEF rescueLegacyEdits
    <3> QED BY <1>0, <1>1, <1>3, <2>0, <3>1 DEF Secured, Whole, rowVars
  <2>2. CASE acc.exists /\ NotYetRead(rescue)
    <3>1. /\ rescue' = UNION {Rescued(Owed, f, {c \in Cards : There(c)} \cap InFolder(f)) :
                                 f \in bound}
          /\ host' = IF countHeld(rescue') = 0 THEN "release" ELSE "up"
      BY <1>7, <2>2 DEF rescueLegacyEdits
    <3>2. acc.imported /\ rescue = NoRescue
      BY <2>2 DEF NotYetRead
    <3>3. CASE Whole
      <4>1. AsLeft /\ bound = Folders /\ acc.replay
        BY <3>2, <3>3 DEF Secured
      <4>2. rescue' = Full
        BY <3>1, <4>1, ReadIsFull
      <4> QED BY <1>0, <1>1, <1>3, <2>0, <3>1, <4>1, <4>2, FullIsRead DEF Secured, Whole, rowVars
    <3>4. CASE ~Whole
      <4>1. bound = {}
        BY <3>4 DEF Shaped, Whole
      <4>2. rescue' = {}
        BY <3>1, <4>1
      <4> QED BY <1>0, <1>1, <1>3, <2>0, <3>1, <3>4, <4>2, FullIsRead DEF Secured, Whole, rowVars
    <3> QED BY <3>3, <3>4
  <2> QED BY <2>1, <2>2
<1>8. CASE releaseHold
  <2>1. /\ host' = "up" /\ UNCHANGED <<disk, rowVars, rescue>> /\ disk.accounts
        /\ acc' = Released /\ host = "release"
    BY <1>8 DEF releaseHold, BootUnchanged, Ordered, rowVars
  <2>2. rescue # NoRescue /\ countHeld(rescue) = 0
    BY <2>1 DEF Secured
  <2> QED BY <1>0, <1>1, <1>3, <2>1, <2>2 DEF Secured, Whole, rowVars
<1>9. CASE Restart
  <2>1. host' = "off" /\ UNCHANGED <<disk, acc, rowVars, rescue>>
    BY <1>9 DEF Restart
  <2> QED BY <1>0, <1>1, <1>3, <2>1 DEF Secured, Whole, rowVars
<1> QED BY <1>4, <1>5, <1>6, <1>7, <1>8, <1>9 DEF Boot

LEMMA SecuredUser ==
  ASSUME Control, Secured, User \/ CloseWindow
  PROVE  Secured'
PROOF
<1> USE DEF Control
<1>0. /\ rows' = rows
      /\ UNCHANGED <<disk, acc, listed, selected, bound, res, local, lists, rescue, host, taken>>
  BY DEF User, CloseWindow, openMigrationDialog, startMigration, applyMigration, WindowUnchanged,
     bookVars, rowVars
<1>1. Full' = Full /\ (AsLeft' <=> AsLeft) /\ (Whole' <=> Whole) /\ (Live' <=> Live)
  BY <1>0, SamePast, SameBooks DEF Whole, Live
<1>2. ASSUME Whole /\ (job'.at \in Working \/ (dialog' \in Open /\ job'.at # "drop"))
      PROVE  Live
  <2>1. CASE openMigrationDialog
    <3>1. acc.imported /\ Held > 0
      BY <2>1 DEF openMigrationDialog, canMigrate
    <3>2. rescue # NoRescue /\ countHeld(rescue) # 0
      BY <3>1 DEF Held
    <3> QED BY <1>2, <3>1, <3>2 DEF Secured, Live
  <2>2. CASE CloseWindow
    <3>1. job' = job /\ dialog' = "closed"
      BY <2>2 DEF CloseWindow
    <3> QED BY <1>2, <3>1 DEF Secured, Open
  <2>3. CASE startMigration
    <3>1. dialog = "intro" /\ job.at = "idle"
      BY <2>3 DEF startMigration
    <3> QED BY <1>2, <3>1 DEF Secured, Open
  <2>4. CASE applyMigration
    <3>1. dialog = "replay" /\ job.at = "idle"
      BY <2>4 DEF applyMigration
    <3> QED BY <1>2, <3>1 DEF Secured, Open
  <2> QED BY <2>1, <2>2, <2>3, <2>4 DEF User
<1> QED BY <1>0, <1>1, <1>2 DEF Secured

LEMMA SecuredJob ==
  ASSUME Control, Secured, Job \/ JobFails
  PROVE  Secured'
PROOF
<1> USE DEF Control
<1>0. UNCHANGED <<rows, disk, host, listed>>
  BY DEF Job, JobFails, disableFolder, deleteTarget, deselectFolder, enableFolder, syncFolder,
     describeLegacyReplay, applyLegacyReplay, liftThaw, liftFlags, dropLegacyRescue, JobUnchanged,
     rowVars
<1>1. Full' = Full /\ (Whole' <=> Whole)
  BY <1>0, SamePast DEF Whole
<1>2. job.at # "idle"
  BY DEF Job, JobFails, disableFolder, deleteTarget, deselectFolder, enableFolder, syncFolder,
     describeLegacyReplay, applyLegacyReplay, liftThaw, liftFlags, dropLegacyRescue
<1>3. host = "up" /\ disk.accounts
  BY <1>2, NoJobIs DEF Ordered
<1>4. CASE job.at \in Working /\ UNCHANGED <<acc, rescue, taken>>
  <2>1. Whole => Live
    BY <1>4 DEF Secured
  <2> QED BY <1>0, <1>1, <1>3, <1>4, <2>1 DEF Secured, Live
<1>5. CASE liftFlags
  <2>1. /\ job' = [job EXCEPT !.at = "drop"] /\ acc' = Unlocked /\ UNCHANGED rescue
    BY <1>5 DEF liftFlags, JobAt
  <2>2. job'.at = "drop"
    BY <2>1 DEF Shaped, Jobs
  <2>3. ~acc'.imported
    BY <2>1, AccSets DEF Shaped
  <2> QED BY <1>0, <1>1, <1>3, <2>1, <2>2, <2>3 DEF Secured, Working, Rebuilding
<1>6. CASE dropLegacyRescue
  <2>1. /\ job' = NoJob /\ dialog' \in {dialog, "done"} /\ dialog' \notin Open
        /\ rescue' = NoRescue /\ UNCHANGED acc /\ job.at = "drop"
    BY <1>6 DEF dropLegacyRescue, JobOver, Open, Shaped
  <2>2. ~acc.imported /\ job'.at = "idle"
    BY <2>1, NoJobIs DEF Ordered
  <2> QED BY <1>0, <1>1, <1>3, <2>1, <2>2 DEF Secured, Working, Rebuilding
<1>7. JobFails \/ (\E f \in job.left : disableFolder(f) \/ applyLegacyReplay(f))
        \/ deleteTarget \/ deselectFolder \/ enableFolder \/ syncFolder
        \/ describeLegacyReplay \/ liftThaw
        => job.at \in Working /\ UNCHANGED <<acc, rescue, taken>>
  BY DEF JobFails, disableFolder, deleteTarget, deselectFolder, enableFolder, syncFolder,
     describeLegacyReplay, applyLegacyReplay, liftThaw, Working, Rebuilding
<1> QED BY <1>4, <1>5, <1>6, <1>7 DEF Job

LEMMA SecuredTeardown ==
  ASSUME Control, Secured, setAccountEnabled \/ ConnectAgain \/ deleteAccount \/ Teardown
  PROVE  Secured'
PROOF
<1> USE DEF Control
<1>0. UNCHANGED <<rows, disk, host, job, dialog, taken>>
  BY DEF setAccountEnabled, ConnectAgain, deleteAccount, Teardown, TeardownDisable, TeardownFlags,
     TeardownDrop, TeardownClear, TeardownRemove, TeardownUnchanged
<1>1. Full' = Full
  BY <1>0, SamePast
<1>2. CASE setAccountEnabled \/ deleteAccount
  <2>1. UNCHANGED <<acc, listed, selected, bound, res, local, lists, rescue>>
    BY <1>2 DEF setAccountEnabled, deleteAccount, rowVars, bookVars
  <2>2. AsLeft' <=> AsLeft
    BY <1>0, <2>1, SameBooks
  <2> QED BY <1>0, <1>1, <2>1, <2>2 DEF Secured, Whole, Live
<1>3. CASE ConnectAgain \/ TeardownDisable
  <2>1. /\ UNCHANGED <<listed, selected, bound, res, local, lists, rescue>>
        /\ \E b \in BOOLEAN : acc' = [acc EXCEPT !.enabled = b]
    BY <1>3 DEF ConnectAgain, TeardownDisable, rowVars, bookVars
  <2>2. acc'.imported = acc.imported /\ acc'.replay = acc.replay
    BY <2>1, AccSets DEF Shaped
  <2>3. AsLeft' <=> AsLeft
    BY <1>0, <2>1, SameBooks
  <2> QED BY <1>0, <1>1, <2>1, <2>2, <2>3 DEF Secured, Whole, Live
<1>4. CASE Teardown /\ ~TeardownDisable
  <2>0. host = "up" /\ disk.accounts
    BY <1>4 DEF Teardown, TeardownDisable, TeardownFlags, TeardownDrop, TeardownClear,
       TeardownRemove, Ordered
  <2>1. CASE TeardownFlags
    <3>1. teardown = "flags" /\ acc' = Unlocked /\ UNCHANGED <<listed, bound, rescue>>
      BY <2>1 DEF TeardownFlags, rowVars
    <3>2. ~acc.replay /\ ~acc'.imported
      BY <3>1, AccSets DEF Shaped, Ordered
    <3>3. ~(Whole /\ (job.at \in Working \/ (dialog \in Open /\ job.at # "drop")))
      BY <3>2 DEF Secured, Live
    <3> QED BY <1>0, <1>1, <2>0, <3>1, <3>2, <3>3 DEF Secured, Whole
  <2>2. CASE TeardownDrop
    <3>1. /\ rescue' = NoRescue /\ UNCHANGED <<acc, listed, bound>>
          /\ teardown = "drop" \/ teardown = "dropRemove"
      BY <2>2 DEF TeardownDrop, rowVars
    <3>2. ~acc.imported \/ ~Whole
      BY <3>1 DEF Ordered, Whole
    <3>3. ~(Whole /\ (job.at \in Working \/ (dialog \in Open /\ job.at # "drop")))
      BY <3>2 DEF Secured, Live
    <3> QED BY <1>0, <1>1, <2>0, <3>1, <3>2, <3>3 DEF Secured, Whole
  <2>3. CASE TeardownClear \/ TeardownRemove
    <3>1. listed' = {} /\ UNCHANGED rescue
      BY <2>3 DEF TeardownClear, TeardownRemove, rowVars, Ordered
    <3> QED BY <1>0, <1>1, <2>0, <3>1 DEF Secured, Whole
  <2> QED BY <1>4, <2>1, <2>2, <2>3 DEF Teardown
<1> QED BY <1>2, <1>3, <1>4 DEF Teardown

LEMMA SecuredStep == Control /\ Secured /\ [Next]_vars => Secured'
PROOF
<1>1. CASE UNCHANGED vars
  <2>1. /\ UNCHANGED <<rows, disk, acc, listed, selected, bound, res, local, lists, rescue, host>>
        /\ UNCHANGED <<job, dialog, taken>>
    BY <1>1 DEF vars, rowVars, bookVars, callVars
  <2>2. Full' = Full /\ (AsLeft' <=> AsLeft)
    BY <2>1, SamePast, SameBooks
  <2> QED BY <2>1, <2>2 DEF Secured, Whole, Live
<1> QED BY <1>1, SecuredBoot, SecuredUser, SecuredJob, SecuredTeardown DEF Next

-----------------------------------------------------------------------------
(* The books, while they are rebuilt.                                       *)

LEMMA SameFresh ==
  ASSUME NEW c \in Cards, server' = server, local'[c] = local[c]
  PROVE  Fresh(c)' <=> Fresh(c)
PROOF
  BY DEF Fresh, Pulled

LEMMA SameOffer ==
  ASSUME UNCHANGED <<rescue, bound, local>>
  PROVE  Offerable' = Offerable
PROOF
<1>1. Kept' = Kept
  BY DEF Kept
<1>2. HeldCards' = HeldCards
  BY DEF HeldCards
<1> QED BY <1>1, <1>2 DEF Offerable

LEMMA RebuiltIdle ==
  ASSUME job' = NoJob, dialog' # "replay"
  PROVE  Rebuilt'
PROOF
  BY NoJobIs DEF Rebuilt, Rebuilding

LEMMA RebuiltInit == Init => Rebuilt
PROOF
  BY NoJobIs DEF Init, Rebuilt, Rebuilding

LEMMA RebuiltBoot ==
  ASSUME Control, Boot \/ Restart
  PROVE  Rebuilt'
PROOF
<1>1. job' = NoJob /\ dialog' = "closed"
  BY DEF Boot, Restart, runIfNeeded, migrateFolders, freezeLegacyTargets, rescueLegacyEdits,
     releaseHold, BootUnchanged, callVars, Control, Ordered
<1> QED BY <1>1, RebuiltIdle

LEMMA RebuiltSame ==
  ASSUME Rebuilt, UNCHANGED <<server, listed, bound, local, job>>,
         dialog' = "replay" => dialog = "replay" /\ offer' = offer /\ Offerable' = Offerable
  PROVE  Rebuilt'
PROOF
<1>1. \A c \in Cards : Fresh(c)' <=> Fresh(c)
  BY SameFresh
<1> QED BY <1>1 DEF Rebuilt, Whole, InFolder

LEMMA RebuiltUser ==
  ASSUME Control, Secured, Rebuilt, User \/ CloseWindow
  PROVE  Rebuilt'
PROOF
<1> USE DEF Control
<1>0. UNCHANGED <<server, listed, selected, bound, local, rescue>>
  BY DEF User, CloseWindow, openMigrationDialog, startMigration, applyMigration, WindowUnchanged,
     bookVars, rowVars
<1>1. CASE openMigrationDialog
  BY <1>0, <1>1, RebuiltSame DEF openMigrationDialog
<1>2. CASE CloseWindow
  BY <1>0, <1>2, RebuiltSame DEF CloseWindow
<1>3. CASE startMigration
  <2>1. dialog' = "running" /\ job'.at = "next" /\ job'.left = selected \cap bound
    <3>1. selected \cap bound \in SUBSET Folders
      BY DEF Shaped
    <3> QED BY <1>3, <3>1, NoJobIs DEF startMigration
  <2>2. bound' \ job'.left = {}
    BY <1>0, <2>1 DEF Shaped
  <2> QED BY <2>1, <2>2 DEF Rebuilt
<1>4. CASE applyMigration
  <2>1. dialog' = "applying" /\ job'.at = "replay"
    BY <1>4 DEF applyMigration
  <2> QED BY <2>1 DEF Rebuilt, Rebuilding
<1> QED BY <1>1, <1>2, <1>3, <1>4 DEF User

LEMMA RebuiltJob ==
  ASSUME Control, Secured, Rebuilt, Job \/ JobFails
  PROVE  Rebuilt'
PROOF
<1> USE DEF Control
<1>0. UNCHANGED <<server, listed>> /\ job.at # "idle" /\ job \in Jobs
  BY DEF Job, JobFails, disableFolder, deleteTarget, deselectFolder, enableFolder, syncFolder,
     describeLegacyReplay, applyLegacyReplay, liftThaw, liftFlags, dropLegacyRescue, JobUnchanged,
     rowVars, Shaped
<1>1. dialog # "replay"
  BY <1>0 DEF Ordered
<1>2. CASE JobFails \/ dropLegacyRescue
  <2>1. job' = NoJob /\ dialog' # "replay"
    BY <1>1, <1>2 DEF JobFails, dropLegacyRescue, JobOver
  <2> QED BY <2>1, RebuiltIdle
<1>3. ASSUME NEW f \in job.left, disableFolder(f)
      PROVE  Rebuilt'
  <2>1. CASE f \notin listed
    <3>1. job' = NoJob /\ dialog' # "replay"
      BY <1>1, <1>3, <2>1 DEF disableFolder, JobOver
    <3> QED BY <3>1, RebuiltIdle
  <2>2. CASE f \in listed
    <3>1. /\ job' = [job EXCEPT !.at = "delete", !.f = f] /\ UNCHANGED <<dialog, local>>
          /\ bound' = bound \ {f} /\ f \in Folders /\ job.at = "next"
      BY <1>0, <1>3, <2>2 DEF disableFolder, Jobs
    <3>2. job'.at = "delete" /\ job'.left = job.left
      BY <1>0, <3>1, JobOn
    <3>3. \A c \in Cards : Fresh(c)' <=> Fresh(c)
      BY <1>0, <3>1, SameFresh
    <3>4. Whole => \A c \in Cards : In[c] \in bound \ job.left => Fresh(c)
      BY <3>1 DEF Rebuilt, Rebuilding
    <3> QED BY <1>0, <1>1, <3>1, <3>2, <3>3, <3>4 DEF Rebuilt, Whole
  <2> QED BY <2>1, <2>2
<1>4. CASE deleteTarget
  <2>1. /\ job' = [job EXCEPT !.at = "deselect"] /\ UNCHANGED <<bound, dialog>>
        /\ job.at = "delete"
        /\ local' = [c \in Cards |-> IF In[c] \in {job.f} THEN Nothing ELSE local[c]]
    BY <1>4 DEF deleteTarget, JobAt, Emptied, rowVars
  <2>2. job'.at = "deselect" /\ job'.f = job.f /\ job'.left = job.left
    <3>1. "deselect" \in Places
      BY DEF Places
    <3> QED BY <1>0, <2>1, <3>1, JobTo
  <2>3. job.f \notin bound
    BY <2>1 DEF Ordered, OnFolder
  <2>4. \A c \in Cards : In[c] = job.f => local'[c] = Nothing
    BY <2>1
  <2>5. \A c \in Cards : In[c] # job.f => (Fresh(c)' <=> Fresh(c))
    <3>1. \A c \in Cards : In[c] # job.f => local'[c] = local[c]
      BY <2>1
    <3> QED BY <1>0, <3>1, SameFresh
  <2>6. Whole => \A c \in Cards : In[c] \in bound \ job.left => Fresh(c)
    BY <2>1 DEF Rebuilt, Rebuilding
  <2> QED BY <1>0, <1>1, <2>1, <2>2, <2>3, <2>4, <2>5, <2>6 DEF Rebuilt, Whole, InFolder
<1>5. CASE deselectFolder \/ (enableFolder /\ job' # NoJob)
  <2>1. /\ UNCHANGED <<bound, dialog, local>> /\ job.at \in {"deselect", "enable"}
        /\ job' = [job EXCEPT !.at = "enable"] \/ job' = [job EXCEPT !.at = "sync"]
    BY <1>5 DEF deselectFolder, enableFolder, JobAt, JobOver, bookVars
  <2>2. job'.at \in {"enable", "sync"} /\ job'.f = job.f /\ job'.left = job.left
    <3>1. "enable" \in Places /\ "sync" \in Places
      BY DEF Places
    <3> QED BY <1>0, <2>1, <3>1, JobTo
  <2>3. \A c \in Cards : Fresh(c)' <=> Fresh(c)
    BY <1>0, <2>1, SameFresh
  <2>4. /\ \A c \in InFolder(job.f) : local[c] = Nothing
        /\ Whole => \A c \in Cards : In[c] \in bound \ job.left => Fresh(c)
    BY <2>1 DEF Rebuilt, Rebuilding
  <2> QED BY <1>0, <1>1, <2>1, <2>2, <2>3, <2>4 DEF Rebuilt, Whole, InFolder
<1>6. CASE enableFolder /\ job' = NoJob
  <2>1. dialog' # "replay"
    <3>1. dialog' = dialog \/ dialog' = "intro"
      BY <1>6 DEF enableFolder, JobOver
    <3> QED BY <1>1, <3>1
  <2> QED BY <1>6, <2>1, RebuiltIdle
<1>7. CASE syncFolder
  <2>1. /\ job' = [job EXCEPT !.at = "next", !.left = @ \ {job.f}]
        /\ dialog' = dialog /\ job.at = "sync"
    BY <1>7 DEF syncFolder
  <2>2. job'.at = "next" /\ job'.left = job.left \ {job.f}
    BY <1>0, <2>1, JobBack
  <2>3. /\ \A c \in Cards : In[c] = job.f => local[c] = Nothing
        /\ Whole => \A c \in Cards : In[c] \in bound \ job.left => Fresh(c)
        /\ job.f \notin bound
    BY <2>1 DEF Rebuilt, Rebuilding, InFolder, Ordered, OnFolder
  <2>4. CASE /\ bound' = bound \cup {job.f}
             /\ local' = [c \in Cards |-> IF In[c] = job.f THEN Pulled(c) ELSE local[c]]
    <3>1. \A c \in Cards : In[c] = job.f => Fresh(c)'
      <4>1. \A c \in Cards : Pulled(c)' = Pulled(c)
        BY <1>0 DEF Pulled
      <4> QED BY <2>4, <4>1 DEF Fresh
    <3>2. \A c \in Cards : In[c] # job.f => (Fresh(c)' <=> Fresh(c))
      <4>1. \A c \in Cards : In[c] # job.f => local'[c] = local[c]
        BY <2>4
      <4> QED BY <1>0, <4>1, SameFresh
    <3> QED BY <1>0, <1>1, <2>1, <2>2, <2>3, <2>4, <3>1, <3>2 DEF Rebuilt, Whole
  <2>5. CASE PullMayFail /\ bound' = bound \cup {job.f} /\ UNCHANGED local
    <3>1. \A c \in Cards : In[c] = job.f => Fresh(c)'
      BY <2>3, <2>5 DEF Fresh
    <3>2. \A c \in Cards : Fresh(c)' <=> Fresh(c)
      BY <1>0, <2>5, SameFresh
    <3> QED BY <1>0, <1>1, <2>1, <2>2, <2>3, <2>5, <3>1, <3>2 DEF Rebuilt, Whole
  <2>6. CASE UNCHANGED <<bound, local>>
    <3>1. \A c \in Cards : Fresh(c)' <=> Fresh(c)
      BY <1>0, <2>6, SameFresh
    <3> QED BY <1>0, <1>1, <2>1, <2>2, <2>3, <2>6, <3>1 DEF Rebuilt, Whole
  <2> QED BY <1>7, <2>4, <2>5, <2>6 DEF syncFolder
<1>8. CASE describeLegacyReplay
  <2>1. /\ job' = NoJob /\ UNCHANGED <<bound, local, rescue>>
        /\ job.at = "next" /\ job.left = {}
        /\ dialog' = "replay" => offer' = Offerable
    BY <1>1, <1>8 DEF describeLegacyReplay, JobOver, Offerable, rowVars, bookVars
  <2>2. Whole => \A c \in Cards : In[c] \in bound => Fresh(c)
    BY <2>1 DEF Rebuilt, Rebuilding
  <2>3. Offerable' = Offerable /\ \A c \in Cards : Fresh(c)' <=> Fresh(c)
    BY <1>0, <2>1, SameOffer, SameFresh
  <2>4. job'.at = "idle"
    BY <2>1, NoJobIs
  <2> QED BY <1>0, <2>1, <2>2, <2>3, <2>4 DEF Rebuilt, Whole, Rebuilding
<1>9. ASSUME NEW f \in job.left, applyLegacyReplay(f)
      PROVE  Rebuilt'
  <2>1. /\ job' = [job EXCEPT !.left = @ \ {f}] /\ job.at = "replay" /\ dialog' = dialog
    BY <1>9 DEF applyLegacyReplay
  <2>2. job'.at = "replay"
    BY <1>0, <2>1, JobLess
  <2> QED BY <1>1, <2>1, <2>2 DEF Rebuilt, Rebuilding
<1>10. CASE liftThaw \/ liftFlags
  <2>1. /\ job' = [job EXCEPT !.at = "flags"] \/ job' = [job EXCEPT !.at = "drop"]
        /\ dialog' = dialog
    BY <1>10 DEF liftThaw, liftFlags, JobAt
  <2>2. job'.at \in {"flags", "drop"}
    BY <1>0, <2>1 DEF Jobs
  <2> QED BY <1>1, <2>1, <2>2 DEF Rebuilt, Rebuilding
<1> QED BY <1>2, <1>3, <1>4, <1>5, <1>6, <1>7, <1>8, <1>9, <1>10 DEF Job

LEMMA RebuiltTeardown ==
  ASSUME Control, Secured, Rebuilt,
         setAccountEnabled \/ ConnectAgain \/ deleteAccount \/ Teardown
  PROVE  Rebuilt'
PROOF
<1> USE DEF Control
<1>0. UNCHANGED <<rows, server, job, dialog, offer>>
  BY DEF setAccountEnabled, ConnectAgain, deleteAccount, Teardown, TeardownDisable, TeardownFlags,
     TeardownDrop, TeardownClear, TeardownRemove, TeardownUnchanged
<1>1. CASE TeardownClear
  <2>1. listed' = {} /\ local' = [c \in Cards |-> IF In[c] \in bound THEN Nothing ELSE local[c]]
    BY <1>1 DEF TeardownClear, Emptied
  <2>2. \A c \in Cards : local[c] = Nothing => local'[c] = Nothing
    BY <2>1
  <2> QED BY <1>0, <2>1, <2>2 DEF Rebuilt, Whole, InFolder
<1>2. CASE TeardownDrop
  <2>1. UNCHANGED <<listed, bound, local, acc>> /\ (teardown = "drop" \/ teardown = "dropRemove")
    BY <1>2 DEF TeardownDrop, rowVars, bookVars
  <2>2. ~acc.imported \/ ~Whole
    BY <2>1 DEF Ordered, Whole
  <2>3. ~(Whole /\ dialog = "replay")
    <3>1. dialog = "replay" => dialog \in Open /\ job.at # "drop"
      BY DEF Ordered, Open
    <3> QED BY <2>2, <3>1 DEF Secured, Live
  <2>4. \A c \in Cards : Fresh(c)' <=> Fresh(c)
    BY <1>0, <2>1, SameFresh
  <2> QED BY <1>0, <2>1, <2>3, <2>4 DEF Rebuilt, Whole, InFolder
<1>3. CASE setAccountEnabled \/ ConnectAgain \/ deleteAccount \/ TeardownDisable \/ TeardownFlags
           \/ TeardownRemove
  <2>1. UNCHANGED <<listed, bound, local, rescue>>
    BY <1>3 DEF setAccountEnabled, ConnectAgain, deleteAccount, TeardownDisable, TeardownFlags,
       TeardownRemove, rowVars, bookVars
  <2> QED BY <1>0, <2>1, RebuiltSame, SameOffer
<1> QED BY <1>1, <1>2, <1>3 DEF Teardown

LEMMA RebuiltStep == Control /\ Secured /\ Rebuilt /\ [Next]_vars => Rebuilt'
PROOF
<1>1. CASE UNCHANGED vars
  BY <1>1, RebuiltSame, SameOffer DEF vars, rowVars, bookVars, callVars
<1> QED BY <1>1, RebuiltBoot, RebuiltUser, RebuiltJob, RebuiltTeardown DEF Next

-----------------------------------------------------------------------------
(* The replay.                                                              *)

LEMMA FreshIs ==
  ASSUME NEW c \in Cards, Fresh(c)
  PROVE  /\ local[c] \in Copies /\ ~local[c].mine /\ local[c].made = 0
         /\ local[c].held => c \in server
         /\ ~PullMayFail => (local[c].held <=> c \in server)
         /\ Versions(c) = 0
PROOF
<1>1. /\ local[c] \in Copies /\ ~local[c].mine /\ local[c].made = 0
      /\ local[c].held => c \in server
      /\ ~PullMayFail => (local[c].held <=> c \in server)
  <2>1. CASE local[c] = Pulled(c)
    <3>1. CASE c \in server
      <4>1. (c \in server) = TRUE
        BY <3>1
      <4>2. local[c] = [held |-> TRUE, mine |-> FALSE, made |-> 0]
        BY <2>1, <4>1 DEF Pulled, Card
      <4> QED BY <3>1, <4>2 DEF Copies
    <3>2. CASE c \notin server
      <4>1. (c \in server) = FALSE
        BY <3>2
      <4>2. local[c] = [held |-> FALSE, mine |-> FALSE, made |-> 0]
        BY <2>1, <4>1 DEF Pulled, Card
      <4> QED BY <3>2, <4>2 DEF Copies
    <3> QED BY <3>1, <3>2
  <2>2. CASE PullMayFail /\ local[c] = Nothing
    BY <2>2 DEF Nothing, Card, Copies
  <2> QED BY <2>1, <2>2 DEF Fresh
<1> QED BY <1>1 DEF Versions

LEMMA ReplayCard ==
  ASSUME Shaped, Copied, NEW c \in Cards, Fresh(c), Net(c) # None,
         NEW n, n = replayOne(Edit(c))
  PROVE  /\ n \in Copies
         /\ Net(c) = "deleted" => ~n.held /\ ~n.mine /\ n.made = 0
         /\ Net(c) # "deleted" => \/ n.made = 1 /\ ~n.held /\ ~n.mine
                                  \/ n.made = 0 /\ n.held /\ n.mine
PROOF
<1>0. PICK e : e = Edit(c)
  OBVIOUS
<1>1. e.of = c /\ e.op = Net(c)
  BY <1>0 DEF Edit, Entry
<1>2. Net(c) \in Ops
  BY NetFacts
<1>3. c \in HeldCards <=> local[c].held
  BY DEF HeldCards
<1>4. PICK old \in Copies : old = local[c] /\ ~old.mine /\ old.made = 0
  BY FreshIs
<1>5. Net(c) = "added" => ~old.held
  BY <1>4, FreshIs, NetFacts DEF Copied
<1>6. n = replayOne(e)
  BY <1>0
<1>7. CASE Net(c) = "added" \/ (Net(c) = "modified" /\ ~old.held)
  <2>1. effectiveOp(e, HeldCards) = "added"
    BY <1>1, <1>3, <1>4, <1>7 DEF effectiveOp
  <2>2. n = [old EXCEPT !.made = @ + 1]
    BY <1>1, <1>4, <1>6, <2>1 DEF replayOne, stripIdentity, None
  <2>3. ~old.held
    BY <1>5, <1>7
  <2> QED BY <1>4, <1>7, <2>2, <2>3 DEF Copies
<1>8. CASE Net(c) = "modified" /\ old.held
  <2>1. effectiveOp(e, HeldCards) = "modified"
    BY <1>1, <1>3, <1>4, <1>8 DEF effectiveOp
  <2>2. n = [old EXCEPT !.mine = old.held]
    BY <1>1, <1>4, <1>6, <2>1 DEF replayOne, transplantIdentity, None
  <2> QED BY <1>4, <1>8, <2>2 DEF Copies
<1>9. CASE Net(c) = "deleted" /\ old.held
  <2>1. effectiveOp(e, HeldCards) = "deleted"
    BY <1>1, <1>3, <1>4, <1>9 DEF effectiveOp
  <2>2. n = [old EXCEPT !.held = FALSE, !.mine = FALSE]
    BY <1>1, <1>4, <1>6, <2>1 DEF replayOne, deleteContact, None
  <2> QED BY <1>4, <1>9, <2>2 DEF Copies
<1>10. CASE Net(c) = "deleted" /\ ~old.held
  <2>1. effectiveOp(e, HeldCards) = None
    BY <1>1, <1>3, <1>4, <1>10 DEF effectiveOp
  <2>2. n = old
    BY <1>1, <1>4, <1>6, <2>1 DEF replayOne, None
  <2> QED BY <1>4, <1>10, <2>2 DEF Copies
<1> QED BY <1>2, <1>7, <1>8, <1>9, <1>10 DEF Ops

(* What a folder's replay does to its cards and its lists.                  *)
Mended(f) == {e \in Kept : In[e.of] = f /\ e.of \in job.take /\ e.op # "context"}
Afterwards(f) ==
  [c \in Cards |-> IF \E e \in Mended(f) : e.of = c
                   THEN replayOne(CHOOSE e \in Mended(f) : e.of = c) ELSE local[c]]

LEMMA ReplayOfFolder ==
  ASSUME Shaped, Copied, Kept = Full, NEW f \in Folders, NEW after, after = Afterwards(f),
         job.take \subseteq Entries
  PROVE  /\ \A c \in Cards : In[c] # f \/ c \notin job.take => after[c] = local[c]
         /\ \A c \in Cards : In[c] = f /\ c \in job.take =>
              Net(c) # None /\ after[c] = replayOne(Edit(c))
         /\ \A l \in Lists : In[l] = f /\ l \in job.take => \E e \in Mended(f) : e.of = l
PROOF
<1>1. \A e \in Mended(f) : /\ e \in Full /\ In[e.of] = f /\ e.of \in job.take
                           /\ e.op # "context"
  BY DEF Mended
<1>2. \A x \in job.take : In[x] = f => \E e \in Mended(f) : e.of = x
  BY DEF Entries, Mended
<1>3. ASSUME NEW c \in Cards, In[c] # f \/ c \notin job.take PROVE after[c] = local[c]
  BY <1>1, <1>3 DEF Afterwards
<1>4. ASSUME NEW c \in Cards, In[c] = f, c \in job.take
      PROVE  Net(c) # None /\ after[c] = replayOne(Edit(c))
  <2>1. PICK e \in Mended(f) : e.of = c
    BY <1>2, <1>4
  <2>2. Net(c) # None
    BY <1>1, <2>1, EntryFacts DEF Shaped
  <2>3. Edit(c) \in Full /\ Edit(c).of = c
    BY <2>2, FullIs DEF Shaped, Edit, Entry
  <2>4. \A d \in Mended(f) : d.of = c => d = Edit(c)
    BY <1>1, <2>3, FullIs DEF Shaped
  <2>5. (CHOOSE d \in Mended(f) : d.of = c) = Edit(c)
    BY <2>1, <2>4
  <2>6. after[c] = replayOne(CHOOSE d \in Mended(f) : d.of = c)
    BY <2>1 DEF Afterwards
  <2> QED BY <2>2, <2>5, <2>6
<1> QED BY <1>2, <1>3, <1>4

LEMMA SameOutcome ==
  ASSUME NEW c \in Cards, NEW take, rows' = rows, local'[c] = local[c]
  PROVE  Outcome(c, take)' <=> Outcome(c, take)
PROOF
<1>1. Net(c)' = Net(c)
  BY SamePast
<1>2. Versions(c)' = Versions(c)
  BY DEF Versions
<1> QED BY <1>1, <1>2 DEF Outcome

(* An untouched card is as it should be if it was not taken.                *)
LEMMA FreshOutcome ==
  ASSUME NEW c \in Cards, NEW take, c \notin take, Fresh(c)
  PROVE  Outcome(c, take)
PROOF
  BY FreshIs DEF Outcome

(* And after its replay it is as it should be if it was.                    *)
LEMMA ReplayOutcome ==
  ASSUME Shaped, Copied, NEW c \in Cards, NEW take, c \in take, Fresh(c), Net(c) # None,
         rows' = rows, local'[c] = replayOne(Edit(c))
  PROVE  Outcome(c, take)'
PROOF
<1>1. PICK n : n = replayOne(Edit(c))
  OBVIOUS
<1>2. /\ n \in Copies
      /\ Net(c) = "deleted" => ~n.held /\ ~n.mine /\ n.made = 0
      /\ Net(c) # "deleted" => \/ n.made = 1 /\ ~n.held /\ ~n.mine
                               \/ n.made = 0 /\ n.held /\ n.mine
  BY <1>1, ReplayCard
<1>3. local'[c] = n /\ Net(c)' = Net(c)
  BY <1>1, SamePast
<1>4. Versions(c)' = n.made + (IF n.held /\ n.mine THEN 1 ELSE 0)
  BY <1>3 DEF Versions
<1>5. CASE Net(c) = "deleted"
  <2>1. Versions(c)' = 0 /\ ~local'[c].held
    BY <1>2, <1>3, <1>4, <1>5
  <2> QED BY <1>3, <1>5, <2>1 DEF Outcome
<1>6. CASE Net(c) # "deleted"
  <2>1. Versions(c)' = 1 /\ (n.made > 0 => ~n.held)
    BY <1>2, <1>4, <1>6
  <2> QED BY <1>3, <1>6, <2>1 DEF Outcome
<1> QED BY <1>5, <1>6

(* A list stays as it is while its book is left alone.                      *)
LEMMA SameList ==
  ASSUME NEW l \in Lists, rows' = rows, lists \subseteq lists',
         \A c \in Cards : In[c] = In[l] => local'[c] = local[c], ListBack(l)
  PROVE  ListBack(l)'
PROOF
<1>1. \A c \in Members[l] : c \in Cards /\ In[c] = In[l]
  BY RescueAssumption
<1>2. \A c \in Members[l] : /\ Present(c)' <=> Present(c)
                            /\ There(c)' <=> There(c)
  BY <1>1, SamePast DEF There
<1>3. {c \in Members[l] : Present(c)' /\ There(c)'} = {c \in Members[l] : Present(c) /\ There(c)}
  BY <1>2
<1> QED BY <1>3 DEF ListBack

-----------------------------------------------------------------------------
(* Every step keeps what the replay has done.                               *)

LEMMA ReplayedInit == Init => Replayed
PROOF
  BY NoJobIs DEF Init, Replayed

(* Nothing that the replay is about moves.                                  *)
LEMMA ReplayedSame ==
  ASSUME Replayed, UNCHANGED <<rows, server, listed, bound, local, lists, taken>>,
         taken # NotYet => acc'.imported = acc.imported,
         job'.at \in {"replay", "flags"} => job' = job
  PROVE  Replayed'
PROOF
<1>1. \A c \in Cards : (Fresh(c)' <=> Fresh(c)) /\ \A take : Outcome(c, take)' <=> Outcome(c, take)
  BY SameFresh, SameOutcome
<1>2. \A l \in Lists : ListBack(l) => ListBack(l)'
  BY SameList
<1>3. Full' = Full /\ Entries' = Entries
  BY SamePast DEF Entries
<1>4. \A c \in Cards : (Fresh(c)' <=> Fresh(c)) /\ (Outcome(c, taken)' <=> Outcome(c, taken))
  BY <1>1
<1>5. ASSUME job' = job
      PROVE  \A c \in Cards : Outcome(c, job.take)' <=> Outcome(c, job.take)
  BY <1>1, <1>5
<1>6. (job'.at = "flags" => job'.left = {})
  BY DEF Replayed
<1>7. ASSUME Whole', job'.at \in {"replay", "flags"}
      PROVE  /\ job'.take \subseteq Entries' /\ \A x \in job'.take : In[x] \in bound'
             /\ \A c \in Cards : In[c] \in bound' =>
                  IF In[c] \in job'.left THEN Fresh(c)' ELSE Outcome(c, job.take)'
             /\ \A l \in Lists \cap job'.take : In[l] \in job'.left \/ ListBack(l)'
  <2>1. job' = job /\ Whole
    BY <1>7 DEF Whole
  <2> QED BY <1>2, <1>3, <1>4, <1>5, <1>7, <2>1 DEF Replayed
<1>8. ASSUME Whole', taken' # NotYet
      PROVE  /\ ~acc'.imported
             /\ \A c \in Cards : In[c] \in bound' => Outcome(c, taken)'
             /\ \A l \in Lists \cap taken' : ListBack(l)'
  <2>1. taken # NotYet /\ Whole
    BY <1>8 DEF Whole
  <2> QED BY <1>2, <1>4, <1>8, <2>1 DEF Replayed
<1> QED BY <1>6, <1>7, <1>8 DEF Replayed

LEMMA ReplayedBoot ==
  ASSUME Control, Secured, Replayed, Boot \/ Restart
  PROVE  Replayed'
PROOF
<1> USE DEF Control
<1>0. job' = NoJob /\ UNCHANGED <<rows, server, local, lists, taken>>
  BY DEF Boot, Restart, runIfNeeded, migrateFolders, freezeLegacyTargets, rescueLegacyEdits,
     releaseHold, BootUnchanged, callVars, bookVars, Ordered
<1>1. job'.at = "idle"
  BY <1>0, NoJobIs
<1>2. CASE migrateFolders
  <2>1. taken = NotYet
    BY <1>2 DEF migrateFolders, Secured
  <2> QED BY <1>0, <1>1, <2>1 DEF Replayed
<1>3. CASE runIfNeeded /\ ~(disk.done \/ disk.accounts)
  <2>1. taken = NotYet
    BY <1>3 DEF Secured
  <2> QED BY <1>0, <1>1, <2>1 DEF Replayed
<1>4. CASE \/ runIfNeeded /\ (disk.done \/ disk.accounts)
           \/ freezeLegacyTargets \/ rescueLegacyEdits \/ releaseHold \/ Restart
  <2>1. UNCHANGED <<listed, bound>> /\ acc'.imported = acc.imported
    BY <1>4, AccSets DEF runIfNeeded, freezeLegacyTargets, rescueLegacyEdits, releaseHold, Restart,
       BootUnchanged, rowVars, Shaped
  <2> QED BY <1>0, <1>1, <2>1, ReplayedSame
<1> QED BY <1>2, <1>3, <1>4 DEF Boot

LEMMA ReplayedUser ==
  ASSUME Control, Secured, Rebuilt, Replayed, User \/ CloseWindow
  PROVE  Replayed'
PROOF
<1> USE DEF Control
<1>0. /\ UNCHANGED <<rows, server, acc, listed, selected, bound, local, lists, taken, rescue>>
  BY DEF User, CloseWindow, openMigrationDialog, startMigration, applyMigration, WindowUnchanged,
     bookVars, rowVars
<1>1. CASE openMigrationDialog \/ CloseWindow
  <2>1. job' = job
    BY <1>1 DEF openMigrationDialog, CloseWindow
  <2> QED BY <1>0, <2>1, ReplayedSame
<1>2. CASE startMigration
  <2>1. job'.at = "next"
    <3>1. selected \cap bound \in SUBSET Folders
      BY DEF Shaped
    <3> QED BY <1>2, <3>1, NoJobIs DEF startMigration
  <2> QED BY <1>0, <2>1, ReplayedSame
<1>3. CASE applyMigration
  <2>1. dialog = "replay" /\ job.at = "idle"
    BY <1>3 DEF applyMigration
  <2>2. PICK take \in SUBSET offer :
          job' = [at |-> "replay", left |-> {In[e.of] : e \in Kept}, f |-> None, take |-> take]
    BY <1>3 DEF applyMigration
  <2>3. PICK left : left = {In[e.of] : e \in Kept}
    OBVIOUS
  <2>4. job'.at = "replay" /\ job'.left = left /\ job'.take = take
    BY <2>2, <2>3
  <2>5. ASSUME Whole
        PROVE  /\ take \subseteq Entries /\ \A x \in take : In[x] \in bound /\ In[x] \in left
               /\ \A c \in Cards : In[c] \in bound => Fresh(c)
               /\ ~(taken # NotYet)
    <3>1. Live
      BY <2>1, <2>5 DEF Secured, Open
    <3>2. Kept = Full
      BY <3>1, KeptFacts DEF Live
    <3>3. offer = Offerable /\ \A c \in Cards : In[c] \in bound => Fresh(c)
      BY <2>1, <2>5 DEF Rebuilt
    <3>4. \A x \in Offerable : x \in Entries /\ In[x] \in bound /\ In[x] \in left
      BY <2>3, <3>2 DEF Offerable, Entries
    <3>5. ~(taken # NotYet)
      BY <2>5, <3>1 DEF Replayed, Live
    <3> QED BY <2>2, <3>3, <3>4, <3>5
  <2>6. ASSUME Whole, NEW c \in Cards, In[c] \in bound
        PROVE  IF In[c] \in left THEN Fresh(c)' ELSE Outcome(c, job.take)'
    <3>1. Fresh(c) /\ (c \in take => In[c] \in left)
      BY <2>5, <2>6
    <3>2. CASE In[c] \in left
      BY <1>0, <3>1, <3>2, SameFresh
    <3>3. CASE In[c] \notin left
      <4>1. Outcome(c, take)
        BY <3>1, <3>3, FreshOutcome
      <4>2. Outcome(c, take)'
        BY <1>0, <4>1, SameOutcome
      <4> QED BY <2>4, <3>3, <4>2
    <3> QED BY <3>2, <3>3
  <2>7. Full' = Full /\ Entries' = Entries /\ (Whole' <=> Whole)
    BY <1>0, SamePast DEF Entries, Whole
  <2> QED BY <1>0, <2>4, <2>5, <2>6, <2>7 DEF Replayed
<1> QED BY <1>1, <1>2, <1>3 DEF User

LEMMA ReplayedJob ==
  ASSUME Control, Secured, Replayed, Copied, Job \/ JobFails
  PROVE  Replayed'
PROOF
<1> USE DEF Control
<1>0. UNCHANGED <<rows, server, listed>> /\ job.at # "idle" /\ job \in Jobs
  BY DEF Job, JobFails, disableFolder, deleteTarget, deselectFolder, enableFolder, syncFolder,
     describeLegacyReplay, applyLegacyReplay, liftThaw, liftFlags, dropLegacyRescue, JobUnchanged,
     rowVars, Shaped
<1>1. (Whole' <=> Whole) /\ Full' = Full /\ Entries' = Entries
  BY <1>0, SamePast DEF Whole, Entries
<1>2. Whole /\ job.at \in Working => Live /\ acc.imported /\ ~(taken # NotYet)
  BY DEF Secured, Replayed, Live
<1>3. ASSUME job.at \in Rebuilding, taken' = taken, job'.at \notin {"replay", "flags"}
      PROVE  Replayed'
  <2>1. Whole => ~(taken' # NotYet)
    BY <1>2, <1>3 DEF Working
  <2> QED BY <1>1, <1>3, <2>1 DEF Replayed
<1>4. CASE JobFails \/ (\E f \in job.left : disableFolder(f)) \/ deleteTarget \/ deselectFolder
           \/ enableFolder \/ syncFolder \/ describeLegacyReplay
  <2>1. job.at \in Rebuilding /\ taken' = taken
    BY <1>4 DEF JobFails, disableFolder, deleteTarget, deselectFolder, enableFolder, syncFolder,
       describeLegacyReplay, Rebuilding
  <2>2. \/ job' = NoJob
        \/ \E at \in Rebuilding : job' = [job EXCEPT !.at = at]
        \/ \E f \in job.left : job' = [job EXCEPT !.at = "delete", !.f = f]
        \/ job' = [job EXCEPT !.at = "next", !.left = @ \ {job.f}]
    BY <1>4 DEF JobFails, disableFolder, deleteTarget, deselectFolder, enableFolder, syncFolder,
       describeLegacyReplay, Rebuilding, JobOver, JobAt
  <2>3. job'.at \notin {"replay", "flags"}
    BY <1>0, <2>2, NoJobIs DEF Jobs, Rebuilding
  <2> QED BY <1>3, <2>1, <2>3
<1>5. CASE liftThaw
  <2>1. /\ job' = [job EXCEPT !.at = "flags"] /\ job.at = "replay" /\ job.left = {}
        /\ UNCHANGED <<acc, bound, local, lists, taken>>
    BY <1>5 DEF liftThaw, JobAt, rowVars
  <2>2. job'.at = "flags" /\ job'.left = {} /\ job'.take = job.take
    <3>1. "flags" \in Places
      BY DEF Places
    <3> QED BY <1>0, <2>1, <3>1, JobTo
  <2>3. \A c \in Cards : (Outcome(c, job.take) => Outcome(c, job.take)')
    BY <1>0, <2>1, <2>2, SameOutcome
  <2>4. \A l \in Lists : ListBack(l) => ListBack(l)'
    BY <1>0, <2>1, SameList
  <2>5. Whole => ~(taken' # NotYet)
    BY <1>2, <2>1 DEF Working
  <2> QED BY <1>1, <2>1, <2>2, <2>3, <2>4, <2>5 DEF Replayed
<1>6. CASE liftFlags
  <2>1. /\ job' = [job EXCEPT !.at = "drop"] /\ job.at = "flags"
        /\ UNCHANGED <<bound, local, lists>> /\ acc' = Unlocked
        /\ taken' = IF acc.exists THEN job.take ELSE taken
    BY <1>6 DEF liftFlags, JobAt, rowVars, bookVars
  <2>2. job'.at = "drop" /\ ~acc'.imported
    BY <1>0, <2>1, AccSets DEF Jobs, Shaped
  <2>3. ASSUME Whole
        PROVE  /\ \A c \in Cards : In[c] \in bound => Outcome(c, taken)'
               /\ \A l \in Lists \cap taken' : ListBack(l)'
    <3>1. taken' = job.take /\ job.left = {}
      BY <2>1, <2>3 DEF Ordered, Whole, Replayed
    <3>2. /\ \A c \in Cards : In[c] \in bound => Outcome(c, job.take)
          /\ \A l \in Lists \cap job.take : ListBack(l)
      BY <2>1, <2>3, <3>1 DEF Replayed
    <3>3. \A c \in Cards : Outcome(c, job.take) => Outcome(c, taken)'
      BY <1>0, <2>1, <3>1, SameOutcome
    <3>4. \A l \in Lists : ListBack(l) => ListBack(l)'
      BY <1>0, <2>1, SameList
    <3> QED BY <3>1, <3>2, <3>3, <3>4
  <2> QED BY <1>1, <2>1, <2>2, <2>3 DEF Replayed
<1>7. CASE dropLegacyRescue
  <2>1. job' = NoJob /\ UNCHANGED <<acc, bound, local, lists, taken>>
    BY <1>7 DEF dropLegacyRescue, JobOver, rowVars, bookVars
  <2>2. job'.at = "idle"
    BY <2>1, NoJobIs
  <2> QED BY <1>0, <2>1, <2>2, ReplayedSame
<1>8. ASSUME NEW f \in job.left, applyLegacyReplay(f)
      PROVE  Replayed'
  <2>0. PICK after : after = Afterwards(f)
    OBVIOUS
  <2>1. /\ job' = [job EXCEPT !.left = @ \ {f}] /\ job.at = "replay" /\ f \in Folders
        /\ UNCHANGED <<acc, bound, taken>>
        /\ IF f \notin bound THEN UNCHANGED <<local, lists>>
           ELSE /\ local' = after
                /\ lists' = lists \cup {[of |-> e.of, members |-> Found(e.names, after)] :
                                           e \in {k \in Mended(f) : k.of \in Lists}}
    <3>1. /\ job' = [job EXCEPT !.left = @ \ {f}] /\ job.at = "replay"
          /\ UNCHANGED <<acc, bound, taken>>
      BY <1>8 DEF applyLegacyReplay, rowVars
    <3>2. f \in Folders
      BY <1>0, <1>8 DEF Jobs
    <3>3. IF f \notin bound THEN UNCHANGED <<local, lists>>
          ELSE /\ local' = Afterwards(f)
               /\ lists' = lists \cup {[of |-> e.of, members |-> Found(e.names, Afterwards(f))] :
                                          e \in {k \in Mended(f) : k.of \in Lists}}
      BY <1>8, Zenon DEF applyLegacyReplay, Mended, Afterwards
    <3> QED BY <2>0, <3>1, <3>2, <3>3
  <2>2. job'.at = "replay" /\ job'.left = job.left \ {f} /\ job'.take = job.take
    BY <1>0, <2>1, JobLess
  <2>3. CASE ~Whole
    BY <1>1, <2>2, <2>3 DEF Replayed
  <2>4. CASE Whole
    <3>1. Kept = Full /\ ~(taken' # NotYet)
      BY <1>2, <2>1, <2>4, KeptFacts DEF Working, Live, Secured
    <3>2. /\ job.take \subseteq Entries /\ \A x \in job.take : In[x] \in bound
          /\ \A c \in Cards : In[c] \in bound =>
               IF In[c] \in job.left THEN Fresh(c) ELSE Outcome(c, job.take)
          /\ \A l \in Lists \cap job.take : In[l] \in job.left \/ ListBack(l)
      BY <2>1, <2>4 DEF Replayed
    <3>3. /\ \A c \in Cards : In[c] # f \/ c \notin job.take => after[c] = local[c]
          /\ \A c \in Cards : In[c] = f /\ c \in job.take =>
               Net(c) # None /\ after[c] = replayOne(Edit(c))
          /\ \A l \in Lists : In[l] = f /\ l \in job.take => \E e \in Mended(f) : e.of = l
      BY <2>0, <2>1, <3>1, <3>2, ReplayOfFolder
    <3>4. \A c \in Cards : In[c] # f => local'[c] = local[c]
      BY <2>1, <3>3
    <3>5. ASSUME NEW c \in Cards, In[c] \in bound
          PROVE  IF In[c] \in job'.left THEN Fresh(c)' ELSE Outcome(c, job.take)'
      <4>1. CASE In[c] # f
        <5>1. (Fresh(c)' <=> Fresh(c)) /\ (Outcome(c, job.take)' <=> Outcome(c, job.take))
          BY <1>0, <2>2, <3>4, <4>1, SameFresh, SameOutcome
        <5> QED BY <2>2, <3>2, <3>5, <4>1, <5>1
      <4>2. CASE In[c] = f /\ c \in job.take
        <5>1. Fresh(c) /\ Net(c) # None /\ local'[c] = replayOne(Edit(c))
          BY <1>8, <2>1, <3>2, <3>3, <3>5, <4>2
        <5>2. PICK take : take = job.take
          OBVIOUS
        <5>3. Outcome(c, take)'
          BY <1>0, <4>2, <5>1, <5>2, ReplayOutcome
        <5> QED BY <2>2, <4>2, <5>2, <5>3
      <4>3. CASE In[c] = f /\ c \notin job.take
        <5>1. Fresh(c) /\ local'[c] = local[c]
          BY <1>8, <2>1, <3>2, <3>3, <3>5, <4>3
        <5>2. Outcome(c, job.take)
          BY <4>3, <5>1, FreshOutcome
        <5>3. Outcome(c, job.take)'
          BY <1>0, <2>2, <5>1, <5>2, SameOutcome
        <5> QED BY <2>2, <4>3, <5>3
      <4> QED BY <4>1, <4>2, <4>3
    <3>6. ASSUME NEW l \in Lists, l \in job.take
          PROVE  In[l] \in job'.left \/ ListBack(l)'
      <4>1. CASE In[l] # f
        <5>1. In[l] \in job.left => In[l] \in job'.left
          BY <2>2, <4>1
        <5>2. ListBack(l) => ListBack(l)'
          <6>1. lists \subseteq lists'
            BY <2>1
          <6> QED BY <1>0, <3>4, <4>1, <6>1, SameList
        <5> QED BY <3>2, <3>6, <5>1, <5>2
      <4>2. CASE In[l] = f
        <5>1. f \in bound
          BY <3>2, <3>6, <4>2
        <5>2. PICK e \in Mended(f) : e.of = l
          BY <3>3, <3>6, <4>2
        <5>3. [of |-> l, members |-> Found(e.names, after)] \in lists' /\ local' = after
          BY <2>1, <5>1, <5>2
        <5>4. e \in Full
          BY <3>1, <5>2 DEF Mended
        <5>5. {n.card : n \in e.names} = {c \in Members[l] : Present(c)}
          BY <5>2, <5>4, EntryFacts DEF Shaped
        <5>6. Found(e.names, after) = {c \in Members[l] : Present(c) /\ There(c)'}
          <6>1. \A c : There(c)' <=> (after[c].held \/ after[c].made > 0)
            BY <5>3 DEF There
          <6>2. \A x : x \in Found(e.names, after) <=>
                        x \in {n.card : n \in e.names} /\ There(x)'
            BY <6>1 DEF Found
          <6> QED BY <5>5, <6>2
        <5>7. {c \in Members[l] : Present(c)' /\ There(c)'}
                = {c \in Members[l] : Present(c) /\ There(c)'}
          <6>1. \A c \in Members[l] : Present(c)' <=> Present(c)
            BY <1>0, SamePast, RescueAssumption
          <6> QED BY <6>1
        <5> QED BY <5>3, <5>6, <5>7 DEF ListBack
      <4> QED BY <4>1, <4>2
    <3> QED BY <1>1, <2>1, <2>2, <3>1, <3>2, <3>5, <3>6 DEF Replayed
  <2> QED BY <2>3, <2>4
<1> QED BY <1>4, <1>5, <1>6, <1>7, <1>8 DEF Job

LEMMA ReplayedTeardown ==
  ASSUME Control, Replayed, setAccountEnabled \/ ConnectAgain \/ deleteAccount \/ Teardown
  PROVE  Replayed'
PROOF
<1> USE DEF Control
<1>0. UNCHANGED <<rows, server, job, taken>>
  BY DEF setAccountEnabled, ConnectAgain, deleteAccount, Teardown, TeardownDisable, TeardownFlags,
     TeardownDrop, TeardownClear, TeardownRemove, TeardownUnchanged
<1>1. CASE TeardownClear \/ TeardownRemove
  <2>1. listed' = {}
    BY <1>1 DEF TeardownClear, TeardownRemove, rowVars, Ordered
  <2> QED BY <1>0, <2>1 DEF Replayed, Whole
<1>2. CASE TeardownFlags
  <2>1. UNCHANGED <<listed, bound, local, lists>> /\ acc' = Unlocked
    BY <1>2 DEF TeardownFlags, rowVars, bookVars
  <2>2. ~acc'.imported
    BY <2>1, AccSets DEF Shaped
  <2>3. CASE Whole /\ taken # NotYet
    <3>1. ~acc.imported
      BY <2>3 DEF Replayed
    <3>2. acc'.imported = acc.imported
      BY <2>1, <3>1, AccSets DEF Shaped, Unlocked
    <3> QED BY <1>0, <2>1, <3>2, ReplayedSame
  <2>4. CASE taken = NotYet
    BY <1>0, <2>1, <2>4, ReplayedSame
  <2>5. CASE ~Whole
    BY <1>0, <2>1, <2>5 DEF Replayed, Whole
  <2> QED BY <2>3, <2>4, <2>5
<1>3. CASE setAccountEnabled \/ ConnectAgain \/ deleteAccount \/ TeardownDisable \/ TeardownDrop
  <2>1. /\ UNCHANGED <<listed, bound, local, lists>>
        /\ acc' = acc \/ \E b \in BOOLEAN : acc' = [acc EXCEPT !.enabled = b]
    BY <1>3 DEF setAccountEnabled, ConnectAgain, deleteAccount, TeardownDisable, TeardownDrop,
       rowVars, bookVars
  <2>2. acc'.imported = acc.imported
    BY <2>1, AccSets DEF Shaped
  <2> QED BY <1>0, <2>1, <2>2, ReplayedSame
<1> QED BY <1>1, <1>2, <1>3 DEF Teardown

LEMMA ReplayedStep ==
  Control /\ Secured /\ Rebuilt /\ Replayed /\ Copied /\ [Next]_vars => Replayed'
PROOF
<1>1. CASE UNCHANGED vars
  BY <1>1, ReplayedSame DEF vars, rowVars, bookVars, callVars
<1> QED BY <1>1, ReplayedBoot, ReplayedUser, ReplayedJob, ReplayedTeardown DEF Next

-----------------------------------------------------------------------------
(* The types of what is copied.                                             *)

LEMMA CopiedInit == Init => Copied
PROOF
<1> SUFFICES ASSUME Init PROVE Copied
  OBVIOUS
<1>1. \A c \in Cards : Original(c) \in Copies
  <2>1. ASSUME NEW c \in Cards PROVE Original(c) \in Copies
    <3>1. PICK held \in BOOLEAN : held = (Known(c) /\ Present(c))
      BY DEF Known, Present
    <3>2. PICK mine \in BOOLEAN : mine = (Edited(c) /\ Known(c) /\ Present(c))
      BY DEF Edited, Known, Present
    <3>3. PICK made \in 0..1 : made = IF ~Known(c) /\ Present(c) THEN 1 ELSE 0
      OBVIOUS
    <3>4. Original(c) = [held |-> held, mine |-> mine, made |-> made]
      BY <3>1, <3>2, <3>3 DEF Original, Card
    <3> QED BY <3>4 DEF Copies
  <2> QED BY <2>1
<1>2. \A l \in Lists : Members[l] \subseteq Cards
  BY RescueAssumption
<1> QED BY <1>1, <1>2 DEF Init, Copied

LEMMA PulledIs ==
  ASSUME NEW c \in Cards
  PROVE  Pulled(c) \in Copies /\ Nothing \in Copies
PROOF
<1>1. PICK held \in BOOLEAN : held = (c \in server)
  <2>1. (c \in server) \in BOOLEAN
    OBVIOUS
  <2> QED BY <2>1
<1>2. Pulled(c) = [held |-> held, mine |-> FALSE, made |-> 0]
  BY <1>1 DEF Pulled, Card
<1> QED BY <1>2 DEF Nothing, Card, Copies

LEMMA CopiedStep ==
  ASSUME Control, Secured, Replayed, Copied, [Next]_vars
  PROVE  Copied'
PROOF
<1> USE DEF Control
<1>0. UNCHANGED <<rows, server>>
  BY DEF Next, Boot, Restart, User, CloseWindow, Job, JobFails, setAccountEnabled, ConnectAgain,
     deleteAccount, Teardown, runIfNeeded, migrateFolders, freezeLegacyTargets,
     rescueLegacyEdits, releaseHold, BootUnchanged, openMigrationDialog, startMigration,
     applyMigration, WindowUnchanged, disableFolder, deleteTarget, deselectFolder, enableFolder,
     syncFolder, describeLegacyReplay, applyLegacyReplay, liftThaw, liftFlags, dropLegacyRescue,
     JobUnchanged, TeardownDisable, TeardownFlags, TeardownDrop, TeardownClear, TeardownRemove,
     TeardownUnchanged, vars
<1>1. \A c \in server' : c \in Cards /\ Known(c)'
  <2>1. \A c \in Cards : Known(c)' <=> Known(c)
    BY <1>0 DEF Known, Edited, Earliest, Mine
  <2> QED BY <1>0, <2>1 DEF Copied
<1>2. CASE UNCHANGED <<res, local, lists>>
  BY <1>1, <1>2 DEF Copied
<1>3. CASE deleteTarget
  <2>1. /\ res' = [res EXCEPT ![job.f] = "gone"] /\ lists' \subseteq lists
        /\ local' = [c \in Cards |-> IF In[c] \in {job.f} THEN Nothing ELSE local[c]]
    BY <1>3 DEF deleteTarget, Emptied
  <2>2. res' \in [Folders -> {"original", "gone", "empty", "pulled"}]
    BY <2>1 DEF Copied
  <2>3. local' \in [Cards -> Copies]
    BY <2>1, PulledIs DEF Copied
  <2> QED BY <1>1, <2>1, <2>2, <2>3 DEF Copied
<1>4. CASE syncFolder
  <2>1. /\ res' = res \/ \E r \in {"pulled", "empty"} : res' = [res EXCEPT ![job.f] = r]
        /\ lists' = lists
        /\ local' = local \/ local' = [c \in Cards |-> IF In[c] = job.f THEN Pulled(c) ELSE local[c]]
    BY <1>4 DEF syncFolder
  <2>2. res' \in [Folders -> {"original", "gone", "empty", "pulled"}]
    BY <2>1 DEF Copied
  <2>3. local' \in [Cards -> Copies]
    BY <2>1, PulledIs DEF Copied
  <2> QED BY <1>1, <2>1, <2>2, <2>3 DEF Copied
<1>5. ASSUME NEW f \in job.left, applyLegacyReplay(f), ~UNCHANGED <<res, local, lists>>
      PROVE  Copied'
  <2>0. PICK after : after = Afterwards(f)
    OBVIOUS
  <2>1. /\ job.at = "replay" /\ f \in Folders /\ f \in bound /\ res' = res /\ local' = after
        /\ lists' = lists \cup {[of |-> e.of, members |-> Found(e.names, after)] :
                                  e \in {k \in Mended(f) : k.of \in Lists}}
    <3>1. job.at = "replay" /\ res' = res /\ f \in bound
      BY <1>5 DEF applyLegacyReplay
    <3>2. f \in Folders
      BY <1>5 DEF Jobs, Shaped
    <3>3. IF f \notin bound THEN UNCHANGED <<local, lists>>
          ELSE /\ local' = Afterwards(f)
               /\ lists' = lists \cup {[of |-> e.of, members |-> Found(e.names, Afterwards(f))] :
                                          e \in {k \in Mended(f) : k.of \in Lists}}
      BY <1>5, Zenon DEF applyLegacyReplay, Mended, Afterwards
    <3> QED BY <2>0, <3>1, <3>2, <3>3
  <2>2. Whole
    BY <2>1 DEF Whole, Shaped
  <2>3. Kept = Full
    BY <2>1, <2>2, KeptFacts DEF Secured, Live, Working
  <2>4. /\ job.take \subseteq Entries
        /\ \A c \in Cards : In[c] = f => Fresh(c)
    BY <1>5, <2>1, <2>2 DEF Replayed
  <2>5. /\ \A c \in Cards : In[c] # f \/ c \notin job.take => after[c] = local[c]
        /\ \A c \in Cards : In[c] = f /\ c \in job.take =>
               Net(c) # None /\ after[c] = replayOne(Edit(c))
    BY <2>0, <2>1, <2>3, <2>4, ReplayOfFolder
  <2>6. \A c \in Cards : after[c] \in Copies
    <3>1. ASSUME NEW c \in Cards, In[c] = f, c \in job.take PROVE after[c] \in Copies
      BY <2>4, <2>5, <3>1, ReplayCard
    <3> QED BY <2>5, <3>1 DEF Copied
  <2>7. local' \in [Cards -> Copies]
    BY <2>0, <2>1, <2>6 DEF Afterwards
  <2>8. ASSUME NEW e \in Mended(f), e.of \in Lists PROVE Found(e.names, after) \subseteq Cards
    <3>1. {n.card : n \in e.names} = {c \in Members[e.of] : Present(c)}
      BY <2>3, <2>8, EntryFacts DEF Shaped, Mended
    <3>2. Found(e.names, after) \subseteq {n.card : n \in e.names}
      BY DEF Found
    <3> QED BY <2>8, <3>1, <3>2, RescueAssumption
  <2>9. \A l \in lists' : l.of \in Lists /\ l.members \subseteq Cards
    BY <2>1, <2>8 DEF Copied
  <2> QED BY <1>1, <2>1, <2>7, <2>9 DEF Copied
<1>6. CASE TeardownClear
  <2>1. /\ res' = [f \in Folders |-> IF f \in bound THEN "gone" ELSE res[f]]
        /\ lists' \subseteq lists
        /\ local' = [c \in Cards |-> IF In[c] \in bound THEN Nothing ELSE local[c]]
    BY <1>6 DEF TeardownClear, Emptied
  <2>2. res' \in [Folders -> {"original", "gone", "empty", "pulled"}]
    BY <2>1 DEF Copied
  <2>3. local' \in [Cards -> Copies]
    BY <2>1, PulledIs DEF Copied
  <2> QED BY <1>1, <2>1, <2>2, <2>3 DEF Copied
<1>7. \/ UNCHANGED <<res, local, lists>> \/ deleteTarget \/ syncFolder \/ TeardownClear
      \/ \E f \in job.left : applyLegacyReplay(f)
  BY DEF Next, Boot, Restart, User, CloseWindow, Job, JobFails, setAccountEnabled, ConnectAgain,
     deleteAccount, Teardown, runIfNeeded, migrateFolders, freezeLegacyTargets,
     rescueLegacyEdits, releaseHold, BootUnchanged, openMigrationDialog, startMigration,
     applyMigration, WindowUnchanged, disableFolder, deselectFolder, enableFolder,
     describeLegacyReplay, liftThaw, liftFlags, dropLegacyRescue,
     TeardownDisable, TeardownFlags, TeardownDrop, TeardownRemove, vars, bookVars
<1> QED BY <1>2, <1>3, <1>4, <1>5, <1>6, <1>7

-----------------------------------------------------------------------------
(* What holds in every state.                                               *)

LEMMA Inductive == Spec => []IInv
PROOF
<1>1. Init => IInv
  BY ControlInit, SecuredInit, RebuiltInit, ReplayedInit, CopiedInit DEF IInv, Control
<1>2. IInv /\ [Next]_vars => IInv'
  BY ControlStep, SecuredStep, RebuiltStep, ReplayedStep, CopiedStep DEF IInv, Control
<1> QED BY <1>1, <1>2, PTL DEF Spec

(* A card or a list is in a folder, so a listed account with either is      *)
(* whole.                                                                   *)
LEMMA SomeFolder == \A x \in Cards \cup Lists : In[x] \in Folders
PROOF
  BY RescueAssumption

(* Every state has its type: no card has more than one copy made of it, the *)
(* rescue has one entry for an item, and the calls are where they can be.   *)
THEOREM MigrationTyped == Spec => []TypeOK
PROOF
<1>1. ASSUME IInv PROVE TypeOK
  <2>1. {listed, selected, bound, frozen} \subseteq SUBSET Folders
    BY <1>1 DEF IInv, Shaped
  <2>2. \A e \in Full : e.op \in Ops \cup {"context"} /\ \A d \in Full : e.of = d.of => e = d
    BY <1>1, EntryFacts, FullIs DEF IInv, Shaped
  <2>3. rescue # NoRescue => \A e \in rescue : /\ e.op \in Ops \cup {"context"}
                                             /\ \A d \in rescue : e.of = d.of => e = d
    BY <1>1, <2>2 DEF IInv, Secured
  <2>4. /\ job.at \in Places /\ dialog \in Open \cup {"closed", "done"}
    BY <1>1 DEF IInv, Shaped, Jobs
  <2> QED BY <1>1, <2>1, <2>3, <2>4 DEF IInv, Shaped, Copied, TypeOK, Places, Open
<1> QED BY <1>1, Inductive, PTL

(* Until the account is let go, every edit the old version owed the server  *)
(* is in the rescue as what it amounts to, or still in the book that the    *)
(* old version left; whatever stops on the way, and whatever is retried.    *)
THEOREM EditsSafe == Spec => []EditsKept
PROOF
<1>1. ASSUME IInv PROVE EditsKept
  <2>1. ASSUME Carried, NEW c \in Cards, Net(c) # None
        PROVE  \/ \E e \in Kept : e.of = c /\ e.op = Net(c)
               \/ /\ rescue = NoRescue /\ res[In[c]] = "original"
                  /\ local[c] = Original(c)
    <3>0. Whole /\ acc.imported
      BY <2>1, SomeFolder DEF Carried, Whole
    <3>1. CASE rescue = NoRescue
      <4>1. AsLeft
        BY <1>1, <3>0, <3>1 DEF IInv, Secured
      <4> QED BY <3>1, <4>1, SomeFolder DEF AsLeft
    <3>2. CASE rescue # NoRescue
      <4>1. Kept = Full
        BY <1>1, <3>0, <3>2, KeptFacts DEF IInv, Secured
      <4>2. Edit(c) \in Full /\ Edit(c).of = c /\ Edit(c).op = Net(c)
        BY <1>1, <2>1, FullIs DEF IInv, Shaped, Edit, Entry
      <4> QED BY <4>1, <4>2
    <3> QED BY <3>1, <3>2
  <2> QED BY <2>1 DEF EditsKept
<1> QED BY <1>1, Inductive, PTL

(* Once the account is let go, each change that was taken is in its rebuilt *)
(* book exactly once and in the user's version, and no other is.            *)
THEOREM ChoicesRestored == Spec => []RestoredAsChosen
PROOF
<1>1. ASSUME IInv PROVE RestoredAsChosen
  <2>1. ASSUME Settled, NEW c \in Cards, In[c] \in bound PROVE Outcome(c, taken)
    BY <1>1, <2>1, SomeFolder DEF IInv, Replayed, Settled, Whole
  <2> QED BY <2>1 DEF RestoredAsChosen, Outcome
<1> QED BY <1>1, Inductive, PTL

(* A mailing list that was put back names exactly those of its cards that   *)
(* are in the book, and the backup names all it had.                        *)
THEOREM ListsKeptWhole == Spec => []ListsWhole
PROOF
<1>1. ASSUME IInv PROVE ListsWhole
  <2>1. ASSUME Settled, NEW l \in Lists \cap taken PROVE ListBack(l)
    BY <1>1, <2>1, SomeFolder DEF IInv, Replayed, Settled, Whole
  <2>2. ASSUME NEW f \in Folders, NEW b \in getRescueBackup(f), b.of \in Lists
        PROVE  b.members = {c \in Members[b.of] : Present(c)}
    <3> DEFINE file == {e.of : e \in {k \in Kept : In[k.of] = f /\ k.op # "deleted"}}
    <3>1. PICK e \in Kept : /\ In[e.of] = f /\ e.op # "deleted"
                            /\ b = [of |-> e.of, members |-> {n.card : n \in e.names} \cap file]
      BY DEF getRescueBackup, backupFiles
    <3>2. Kept = Full /\ e \in Full
      BY <1>1, <3>1, KeptFacts, FullIsRead DEF IInv, Secured, Kept
    <3>3. {n.card : n \in e.names} = {c \in Members[e.of] : Present(c)} /\ e.of \in Lists
      BY <1>1, <2>2, <3>1, <3>2, EntryFacts DEF IInv, Shaped
    <3>4. ASSUME NEW c \in Members[e.of], Present(c) PROVE c \in file
      <4>1. PICK d \in Full : d.of = c /\ d.op # "deleted"
        BY <1>1, <3>2, <3>3, <3>4, FullIs DEF IInv, Shaped
      <4>2. In[c] = f
        BY <3>1, <3>3, RescueAssumption
      <4> QED BY <3>2, <4>1, <4>2
    <3> HIDE DEF file
    <3>5. {n.card : n \in e.names} \cap file = {c \in Members[e.of] : Present(c)}
      BY <3>3, <3>4
    <3> QED BY <3>1, <3>5
  <2> QED BY <2>1, <2>2 DEF ListsWhole, ListBack
<1> QED BY <1>1, Inductive, PTL

(* If every pull goes through, whatever can still be put back is offered.   *)
(* (A book that stayed empty shows no card, and a deletion from it nothing  *)
(* to delete.)                                                              *)
THEOREM AllOffered ==
  ASSUME PullMayFail = FALSE
  PROVE  Spec => []EverythingOffered
PROOF
<1>1. ASSUME IInv PROVE EverythingOffered
  <2>1. ASSUME dialog = "replay", listed = Folders, NEW c \in Cards, In[c] \in bound, Net(c) # None
        PROVE  c \in offer \/ (Net(c) = "deleted" /\ c \notin server)
    <3>0. Whole /\ dialog \in Open /\ job.at # "drop"
      BY <1>1, <2>1, SomeFolder DEF Whole, Open, IInv, Ordered
    <3>1. Kept = Full
      BY <1>1, <3>0, KeptFacts DEF IInv, Secured, Live
    <3>2. PICK e : e = Edit(c)
      OBVIOUS
    <3>3. e \in Full /\ e.of = c /\ e.op = Net(c)
      BY <1>1, <2>1, <3>2, FullIs DEF IInv, Shaped, Edit, Entry
    <3>4. offer = Offerable /\ Fresh(c)
      BY <1>1, <2>1, <3>0 DEF IInv, Rebuilt
    <3>5. c \in HeldCards <=> c \in server
      BY <3>4, FreshIs DEF HeldCards
    <3>6. Net(c) \in Ops
      BY <2>1, NetFacts
    <3>7. CASE effectiveOp(e, HeldCards) # None
      BY <2>1, <3>1, <3>3, <3>4, <3>6, <3>7 DEF Offerable, Ops
    <3>8. CASE effectiveOp(e, HeldCards) = None
      BY <3>3, <3>5, <3>6, <3>8 DEF effectiveOp, Ops, None
    <3> QED BY <3>7, <3>8
  <2> QED BY <2>1 DEF EverythingOffered
<1> QED BY <1>1, Inductive, PTL
===============================================================================
