---------------------------- MODULE EventLog_proofs ----------------------------
(* What EventLog promises for every size of the log and of the table, and   *)
(* any number of entries, logs, refreshes and faults.                       *)
EXTENDS EventLog, TLAPS

-----------------------------------------------------------------------------
(* Sequences of entries, without the variables.                             *)

(* e is no newer than the store st of log lg.                               *)
Known(e, st, lg) ==
  /\ e.log <= lg
  /\ e.log = lg => st # <<>> /\ e.seq <= st[Len(st)].seq

Increasing(st) == \A i, j \in DOMAIN st : i < j => st[i].seq < st[j].seq

Between(e, f, x) == x.log = e.log /\ e.seq < x.seq /\ x.seq < f.seq

(* s is in order, and between two entries of one log lacks none of st.      *)
Whole(s, st) ==
  \A i, j \in DOMAIN s :
    i < j =>
      /\ s[i].log <= s[j].log
      /\ s[i].log = s[j].log =>
           /\ s[i].seq < s[j].seq
           /\ \A k \in DOMAIN st :
                Between(s[i], s[j], st[k]) => \E h \in i..j : s[h] = st[k]

Sane(s, st, lg, n) ==
  /\ s \in Seq(Entry)
  /\ Whole(s, st)
  /\ \A i \in DOMAIN s : Known(s[i], st, lg) /\ s[i].seq < n

LEMMA AppendFacts ==
  ASSUME NEW S, NEW s \in Seq(S), NEW e \in S
  PROVE  /\ Append(s, e) \in Seq(S) /\ Append(s, e) # <<>>
         /\ Append(s, e)[Len(Append(s, e))] = e
         /\ \A k \in DOMAIN Append(s, e) :
              Append(s, e)[k] = e \/ (k \in DOMAIN s /\ Append(s, e)[k] = s[k])
PROOF
<1>1. /\ Append(s, e) \in Seq(S) /\ Len(Append(s, e)) = Len(s) + 1 /\ Len(s) \in Nat
      /\ Append(s, e)[Len(s) + 1] = e /\ DOMAIN s = 1..Len(s)
      /\ \A k \in 1..Len(s) : Append(s, e)[k] = s[k]
  OBVIOUS
<1>2. DOMAIN Append(s, e) = 1..Len(s) + 1
  OBVIOUS
<1>3. Append(s, e) # <<>>
  BY <1>1
<1>4. \A k \in 1..Len(s) + 1 : k = Len(s) + 1 \/ k \in 1..Len(s)
  BY <1>1
<1>5. \A k \in DOMAIN Append(s, e) :
        Append(s, e)[k] = e \/ (k \in DOMAIN s /\ Append(s, e)[k] = s[k])
  <2> SUFFICES ASSUME NEW k \in 1..Len(s) + 1
               PROVE  Append(s, e)[k] = e \/ (k \in DOMAIN s /\ Append(s, e)[k] = s[k])
    BY <1>2
  <2>1. CASE k = Len(s) + 1
    BY <1>1, <2>1
  <2>2. CASE k \in 1..Len(s)
    <3>1. Append(s, e)[k] = s[k] /\ k \in DOMAIN s
      BY <1>1, <2>2
    <3> QED BY <3>1
  <2> QED BY <1>4, <2>1, <2>2
<1>6. Append(s, e)[Len(Append(s, e))] = e
  BY <1>1
<1> QED BY <1>1, <1>3, <1>5, <1>6

(* A suffix is what it is of, index for index.                              *)
LEMMA SuffixOf ==
  ASSUME NEW S, NEW s \in Seq(S), NEW n \in 1..Len(s) + 1
  PROVE  /\ SubSeq(s, n, Len(s)) \in Seq(S)
         /\ Len(SubSeq(s, n, Len(s))) = Len(s) - n + 1
         /\ \A i \in 1..Len(s) - n + 1 : /\ n + i - 1 \in 1..Len(s)
                                         /\ SubSeq(s, n, Len(s))[i] = s[n + i - 1]
PROOF
  OBVIOUS

LEMMA NewestSuffix ==
  ASSUME NEW S, NEW s \in Seq(S), NEW n \in Nat \ {0}
  PROVE  \E o \in 0..Len(s) :
           /\ Newest(s, n) \in Seq(S)
           /\ Len(Newest(s, n)) = Len(s) - o
           /\ s # <<>> => Len(Newest(s, n)) > 0
           /\ \A i \in 1..Len(s) - o : /\ o + i \in 1..Len(s)
                                       /\ Newest(s, n)[i] = s[o + i]
PROOF
<1>1. CASE Len(s) > n
  <2>1. Newest(s, n) = SubSeq(s, (Len(s) - n) + 1, Len(s))
    BY <1>1 DEF Newest
  <2>2. /\ Len(s) \in Nat
        /\ (Len(s) - n) + 1 \in 1..Len(s) + 1
        /\ Len(s) - n \in 0..Len(s)
    BY <1>1
  <2> HIDE DEF Newest
  <2> WITNESS Len(s) - n \in 0..Len(s)
  <2> QED BY <1>1, <2>1, <2>2, SuffixOf
<1>2. CASE ~(Len(s) > n)
  <2>1. Newest(s, n) = s /\ Len(s) \in Nat
    BY <1>2 DEF Newest
  <2> WITNESS 0 \in 0..Len(s)
  <2> QED BY <2>1
<1> QED BY <1>1, <1>2

LEMMA StoreWhole ==
  ASSUME NEW st \in Seq(Entry), NEW lg \in Nat, Increasing(st),
         \A i \in DOMAIN st : st[i].log = lg
  PROVE  /\ Whole(st, st)
         /\ \A i \in DOMAIN st : Known(st[i], st, lg)
PROOF
<1>a. \A x \in Entry : x.seq \in Int /\ x.log \in Int
  BY DEF Entry
<1>0. ASSUME NEW i \in DOMAIN st PROVE st[i] \in Entry /\ st[i].seq \in Int /\ st[i].log \in Int
  <2>1. st[i] \in Entry
    OBVIOUS
  <2> QED BY <1>a, <2>1
<1>1. ASSUME NEW i \in DOMAIN st PROVE Known(st[i], st, lg)
  <2>1. /\ Len(st) \in DOMAIN st /\ i \in 1..Len(st) /\ st # <<>>
    BY <1>1
  <2>2. st[i].seq <= st[Len(st)].seq
    BY <1>0, <2>1 DEF Increasing
  <2> QED BY <2>1, <2>2 DEF Known
<1>2. ASSUME NEW i \in DOMAIN st, NEW j \in DOMAIN st, i < j, NEW k \in DOMAIN st,
             Between(st[i], st[j], st[k])
      PROVE  \E h \in i..j : st[h] = st[k]
  <2>1. i < k /\ k < j
    BY <1>0, <1>2 DEF Increasing, Between
  <2>2. k \in i..j
    BY <2>1
  <2> QED BY <2>2
<1> QED BY <1>0, <1>1, <1>2 DEF Whole, Increasing

(* A suffix of a whole sequence is whole.                                   *)
LEMMA WholeSuffix ==
  ASSUME NEW s \in Seq(Entry), NEW t \in Seq(Entry), NEW st \in Seq(Entry), Whole(s, st),
         NEW o \in 0..Len(s), Len(t) = Len(s) - o,
         \A i \in 1..Len(s) - o : o + i \in 1..Len(s) /\ t[i] = s[o + i]
  PROVE  Whole(t, st)
PROOF
<1> SUFFICES ASSUME NEW i \in DOMAIN t, NEW j \in DOMAIN t, i < j
             PROVE  /\ t[i].log <= t[j].log
                    /\ t[i].log = t[j].log =>
                         /\ t[i].seq < t[j].seq
                         /\ \A k \in DOMAIN st :
                              Between(t[i], t[j], st[k]) => \E h \in i..j : t[h] = st[k]
  BY DEF Whole
<1>1. /\ i \in 1..Len(s) - o /\ j \in 1..Len(s) - o /\ o + i \in DOMAIN s /\ o + j \in DOMAIN s
      /\ t[i] = s[o + i] /\ t[j] = s[o + j] /\ o + i < o + j
  <2>1. /\ DOMAIN t = 1..Len(s) - o /\ DOMAIN s = 1..Len(s) /\ Len(s) \in Nat
    OBVIOUS
  <2>2. i \in 1..Len(s) - o /\ j \in 1..Len(s) - o
    BY <2>1
  <2> QED BY <2>1, <2>2
<1>2. /\ t[i].log <= t[j].log
      /\ t[i].log = t[j].log => t[i].seq < t[j].seq
  BY <1>1 DEF Whole
<1>3. ASSUME t[i].log = t[j].log, NEW k \in DOMAIN st, Between(t[i], t[j], st[k])
      PROVE  \E h \in i..j : t[h] = st[k]
  <2>1. PICK m \in (o + i)..(o + j) : s[m] = st[k]
    BY <1>1, <1>3 DEF Whole
  <2>2. m - o \in i..j /\ m - o \in 1..Len(s) - o /\ o + (m - o) = m
    BY <1>1
  <2>3. t[m - o] = s[m]
    BY <2>2
  <2> QED BY <2>1, <2>2, <2>3
<1> QED BY <1>2, <1>3

(* An entry that follows the last one, or the first, keeps a sequence whole.*)
LEMMA WholeAppend ==
  ASSUME NEW s \in Seq(Entry), NEW st \in Seq(Entry), Whole(s, st), NEW e \in Entry,
         \A i \in DOMAIN s : s[i].log <= e.log,
         s # <<>> => e.seq = s[Len(s)].seq + 1
  PROVE  Whole(Append(s, e), st)
PROOF
<1> DEFINE t == Append(s, e)
           n == Len(s)
<1>0. /\ t \in Seq(Entry) /\ Len(t) = n + 1 /\ n \in Nat /\ t[n + 1] = e
      /\ \A i \in 1..n : t[i] = s[i] /\ s[i] \in Entry
  OBVIOUS
<1>a. \A x \in Entry : x.seq \in Int /\ x.log \in Int
  BY DEF Entry
<1>b. \A x, y \in Entry : x.seq = y.seq /\ x.log = y.log => x = y
  <2>1. \A x \in Entry : x = [log |-> x.log, seq |-> x.seq]
    BY DEF Entry
  <2> QED BY <2>1
<1>c. \A k \in DOMAIN st : st[k] \in Entry
  OBVIOUS
<1> HIDE DEF t
<1> SUFFICES ASSUME NEW i \in 1..n + 1, NEW j \in 1..n + 1, i < j
             PROVE  /\ t[i].log <= t[j].log
                    /\ t[i].log = t[j].log =>
                         /\ t[i].seq < t[j].seq
                         /\ \A k \in DOMAIN st :
                              Between(t[i], t[j], st[k]) => \E h \in i..j : t[h] = st[k]
  <2>1. DOMAIN t = 1..n + 1
    BY <1>0
  <2> QED BY <2>1 DEF Whole, t
<1>1. i \in 1..n /\ t[i] = s[i] /\ s[i] \in Entry
  BY <1>0
<1>2. CASE j \in 1..n
  <2>1. t[j] = s[j]
    BY <1>0, <1>2
  <2>2. i \in DOMAIN s /\ j \in DOMAIN s
    BY <1>1, <1>2
  <2>3. \A h \in i..j : t[h] = s[h]
    BY <1>0, <1>1, <1>2
  <2> QED BY <1>1, <2>1, <2>2, <2>3 DEF Whole
<1>3. CASE j = n + 1
  <2>1. t[j] = e /\ i \in DOMAIN s /\ n \in DOMAIN s /\ s # <<>>
    BY <1>0, <1>1, <1>3
  <2>2. s[n] \in Entry /\ t[n] = s[n] /\ n \in i..j /\ e.seq = s[n].seq + 1
    BY <1>0, <1>1, <1>3, <2>1
  <2>3. t[i].log <= t[j].log
    BY <1>1, <2>1
  <2>4. ASSUME t[i].log = t[j].log
        PROVE  s[n].log = e.log /\ s[i].seq <= s[n].seq /\ (i # n => i < n)
    <3>1. CASE i = n
      BY <1>1, <1>a, <2>1, <2>4, <3>1
    <3>2. CASE i # n
      <4>1. i < n /\ s[i].log <= s[n].log /\ s[n].log <= e.log
        BY <1>1, <2>1, <3>2 DEF Whole
      <4>2. s[i].log = e.log
        BY <1>1, <2>1, <2>4
      <4>3. s[n].log = e.log
        BY <1>a, <1>1, <2>2, <4>1, <4>2
      <4>4. s[i].seq < s[n].seq
        BY <2>1, <4>1, <4>2, <4>3 DEF Whole
      <4> QED BY <1>a, <1>1, <2>2, <4>1, <4>3, <4>4
    <3> QED BY <3>1, <3>2
  <2>5. ASSUME t[i].log = t[j].log, NEW k \in DOMAIN st, Between(t[i], t[j], st[k])
        PROVE  \E h \in i..j : t[h] = st[k]
    <3>1. /\ st[k] \in Entry /\ st[k].log = s[n].log /\ s[i].seq < st[k].seq
          /\ st[k].seq < s[n].seq + 1 /\ s[i].log = s[n].log
      BY <1>1, <1>c, <2>1, <2>2, <2>4, <2>5 DEF Between
    <3>2. CASE st[k].seq = s[n].seq
      <4>1. t[n] = st[k]
        BY <1>b, <2>2, <3>1, <3>2
      <4> QED BY <2>2, <4>1
    <3>3. CASE st[k].seq # s[n].seq
      <4>1. st[k].seq < s[n].seq
        BY <1>a, <2>2, <3>1, <3>3
      <4>2. i < n
        BY <1>a, <1>1, <2>4, <2>5, <3>1, <4>1
      <4>3. Between(s[i], s[n], st[k])
        BY <3>1, <4>1 DEF Between
      <4>4. PICK h \in i..n : s[h] = st[k]
        BY <2>1, <3>1, <4>2, <4>3 DEF Whole
      <4>5. h \in i..j /\ t[h] = s[h]
        BY <1>0, <1>1, <1>3
      <4> QED BY <4>4, <4>5
    <3> QED BY <3>2, <3>3
  <2>6. t[i].log = t[j].log => t[i].seq < t[j].seq
    BY <1>a, <1>1, <2>1, <2>2, <2>4
  <2> QED BY <2>3, <2>5, <2>6
<1> QED BY <1>2, <1>3
-----------------------------------------------------------------------------
(* What the store may do: what was sane stays so.                           *)

SaneStays(st, lg, n, st2, lg2, n2) ==
  /\ \A e \in Entry :
       Known(e, st, lg) /\ e.seq < n => Known(e, st2, lg2) /\ e.seq < n2
  /\ \A s \in Seq(Entry) : Sane(s, st, lg, n) => Sane(s, st2, lg2, n2)

LEMMA StaysByParts ==
  ASSUME NEW st, NEW lg, NEW n, NEW st2, NEW lg2, NEW n2,
         \A e \in Entry :
           Known(e, st, lg) /\ e.seq < n => Known(e, st2, lg2) /\ e.seq < n2,
         \A s \in Seq(Entry) : Sane(s, st, lg, n) => Whole(s, st2)
  PROVE  SaneStays(st, lg, n, st2, lg2, n2)
PROOF
<1>1. ASSUME NEW s \in Seq(Entry), Sane(s, st, lg, n) PROVE Sane(s, st2, lg2, n2)
  <2>1. ASSUME NEW i \in DOMAIN s PROVE Known(s[i], st2, lg2) /\ s[i].seq < n2
    <3>1. s[i] \in Entry /\ Known(s[i], st, lg) /\ s[i].seq < n
      BY <1>1 DEF Sane
    <3> QED BY <3>1
  <2>2. Whole(s, st2)
    BY <1>1
  <2> QED BY <2>1, <2>2 DEF Sane
<1> QED BY <1>1 DEF SaneStays

(* The store is appended to: the new entry is between no two older ones.    *)
LEMMA StaysOnAppend ==
  ASSUME NEW st \in Seq(Entry), NEW lg \in Nat, NEW n \in Nat, NEW e \in Entry, e.log = lg,
         \A i \in DOMAIN st : st[i].seq < e.seq
  PROVE  SaneStays(st, lg, n, Append(st, e), lg, n + 1)
PROOF
<1> DEFINE st2 == Append(st, e)
<1>0. /\ st2 # <<>> /\ Len(st2) = Len(st) + 1 /\ Len(st) \in Nat /\ st2[Len(st2)] = e
      /\ \A k \in DOMAIN st2 : (k \in DOMAIN st /\ st2[k] = st[k]) \/ st2[k] = e
      /\ st # <<>> => Len(st) \in DOMAIN st
  OBVIOUS
<1>a. \A x \in Entry : x.seq \in Int /\ x.log \in Int
  BY DEF Entry
<1> HIDE DEF st2
<1>1. ASSUME NEW x \in Entry, Known(x, st, lg), x.seq < n
      PROVE  Known(x, st2, lg) /\ x.seq < n + 1
  <2>1. x.log = lg => x.seq <= e.seq
    <3> SUFFICES ASSUME x.log = lg PROVE x.seq <= e.seq
      OBVIOUS
    <3>1. st # <<>> /\ x.seq <= st[Len(st)].seq
      BY <1>1 DEF Known
    <3>2. st[Len(st)] \in Entry /\ st[Len(st)].seq < e.seq
      BY <1>0, <3>1
    <3> QED BY <1>a, <3>1, <3>2
  <2>2. x.log <= lg
    BY <1>1 DEF Known
  <2>3. Known(x, st2, lg)
    BY <1>0, <2>1, <2>2 DEF Known
  <2> QED BY <1>1, <1>a, <2>3
<1>2. ASSUME NEW s \in Seq(Entry), Sane(s, st, lg, n) PROVE Whole(s, st2)
  <2>0. Whole(s, st) /\ \A i \in DOMAIN s : Known(s[i], st, lg) /\ s[i].seq < n
    BY <1>2 DEF Sane
  <2>1. ASSUME NEW i \in DOMAIN s, NEW j \in DOMAIN s, i < j, s[i].log = s[j].log,
               NEW k \in DOMAIN st2, Between(s[i], s[j], st2[k])
        PROVE  \E h \in i..j : s[h] = st2[k]
    <3>1. CASE k \in DOMAIN st /\ st2[k] = st[k]
      BY <2>0, <2>1, <3>1 DEF Whole
    <3>2. CASE st2[k] = e
      <4>1. s[j].log = lg /\ e.seq < s[j].seq
        BY <2>1, <3>2 DEF Between
      <4>2. st # <<>> /\ s[j].seq <= st[Len(st)].seq
        BY <2>0, <4>1 DEF Known
      <4>3. st[Len(st)].seq < e.seq /\ st[Len(st)] \in Entry /\ s[j] \in Entry
        BY <1>0, <4>2
      <4> QED BY <1>a, <4>1, <4>2, <4>3
    <3> QED BY <1>0, <3>1, <3>2
  <2> QED BY <2>0, <2>1 DEF Whole
<1>3. SaneStays(st, lg, n, st2, lg, n + 1)
  BY <1>1, <1>2, StaysByParts
<1> QED BY <1>3 DEF st2

(* The oldest entries go, and not all of them.                              *)
LEMMA StaysOnTrim ==
  ASSUME NEW st \in Seq(Entry), NEW lg \in Nat, NEW n \in Nat, NEW x \in 0..Len(st),
         st # <<>> => x < Len(st)
  PROVE  SaneStays(st, lg, n, SubSeq(st, x + 1, Len(st)), lg, n)
PROOF
<1> DEFINE st2 == SubSeq(st, x + 1, Len(st))
<1>0. /\ st2 \in Seq(Entry) /\ Len(st2) = Len(st) - x /\ Len(st) \in Nat /\ Len(st2) \in Nat
      /\ \A k \in DOMAIN st2 : x + k \in DOMAIN st /\ st2[k] = st[x + k]
  <2>1. x + 1 \in 1..Len(st) + 1 /\ Len(st) \in Nat
    OBVIOUS
  <2>2. /\ st2 \in Seq(Entry) /\ Len(st2) = Len(st) - x
        /\ \A k \in 1..Len(st) - x : x + k \in 1..Len(st) /\ st2[k] = st[x + k]
    BY <2>1, SuffixOf
  <2> HIDE DEF st2
  <2>3. DOMAIN st2 = 1..Len(st) - x /\ DOMAIN st = 1..Len(st)
    BY <2>2
  <2> QED BY <2>1, <2>2, <2>3
<1> HIDE DEF st2
<1>1. ASSUME NEW y \in Entry, Known(y, st, lg), y.seq < n
      PROVE  Known(y, st2, lg) /\ y.seq < n
  <2>1. ASSUME st # <<>> PROVE st2 # <<>> /\ st2[Len(st2)] = st[Len(st)]
    <3>1. Len(st2) > 0
      BY <1>0, <2>1
    <3>2. Len(st2) \in DOMAIN st2
      BY <1>0, <3>1
    <3> QED BY <1>0, <3>1, <3>2
  <2> QED BY <1>1, <2>1 DEF Known
<1>2. ASSUME NEW s \in Seq(Entry), Sane(s, st, lg, n) PROVE Whole(s, st2)
  <2>1. Whole(s, st)
    BY <1>2 DEF Sane
  <2> QED BY <1>0, <2>1 DEF Whole
<1>3. SaneStays(st, lg, n, st2, lg, n)
  BY <1>1, <1>2, StaysByParts
<1> QED BY <1>3 DEF st2

(* A new log begins: what is known is of an older one.                      *)
LEMMA StaysOnWipe ==
  ASSUME NEW st, NEW lg \in Nat, NEW n \in Nat
  PROVE  SaneStays(st, lg, n, <<>>, lg + 1, n)
PROOF
<1>a. \A x \in Entry : x.seq \in Int /\ x.log \in Int
  BY DEF Entry
<1>1. ASSUME NEW x \in Entry, Known(x, st, lg), x.seq < n
      PROVE  Known(x, <<>>, lg + 1) /\ x.seq < n
  <2>1. x.log <= lg
    BY <1>1 DEF Known
  <2>2. x.log <= lg + 1 /\ x.log # lg + 1
    BY <1>a, <2>1
  <2> QED BY <1>1, <2>2 DEF Known
<1>2. ASSUME NEW s \in Seq(Entry), Sane(s, st, lg, n) PROVE Whole(s, <<>>)
  <2>1. Whole(s, st)
    BY <1>2 DEF Sane
  <2> QED BY <2>1 DEF Whole
<1> QED BY <1>1, <1>2, StaysByParts

LEMMA StaysAsIs ==
  ASSUME NEW st, NEW lg, NEW n \in Nat
  PROVE  SaneStays(st, lg, n, st, lg, n) /\ SaneStays(st, lg, n, st, lg, n + 1)
PROOF
<1>1. \A x \in Entry : x.seq \in Int /\ (x.seq < n => x.seq < n + 1)
  BY DEF Entry
<1>2. SaneStays(st, lg, n, st, lg, n + 1)
  BY <1>1, StaysByParts DEF Sane
<1> QED BY <1>2 DEF SaneStays

(* t ends as s does, and holds nothing else.                                *)
EndOf(t, s) ==
  /\ s # <<>> => t # <<>> /\ t[Len(t)] = s[Len(s)]
  /\ \A i \in DOMAIN t : \E j \in DOMAIN s : t[i] = s[j]

(* The newest entries of a sane sequence are sane.                          *)
LEMMA SuffixSane ==
  ASSUME NEW s \in Seq(Entry), NEW st \in Seq(Entry), NEW lg, NEW n, Sane(s, st, lg, n),
         NEW t \in Seq(Entry), NEW o \in 0..Len(s), Len(t) = Len(s) - o,
         s # <<>> => Len(t) > 0,
         \A i \in 1..Len(s) - o : o + i \in 1..Len(s) /\ t[i] = s[o + i]
  PROVE  /\ Sane(t, st, lg, n)
         /\ EndOf(t, s)
PROOF
<1>2. Whole(t, st)
  BY WholeSuffix DEF Sane
<1>3. DOMAIN t = 1..Len(s) - o /\ DOMAIN s = 1..Len(s) /\ Len(s) \in Nat
  OBVIOUS
<1>4. \A i \in DOMAIN t : o + i \in DOMAIN s /\ t[i] = s[o + i]
  BY <1>3
<1>5. Sane(t, st, lg, n)
  BY <1>2, <1>4 DEF Sane
<1>6. ASSUME s # <<>> PROVE t # <<>> /\ t[Len(t)] = s[Len(s)]
  <2>2. Len(t) \in 1..Len(s) - o /\ o + Len(t) = Len(s)
    BY <1>3, <1>6
  <2> QED BY <1>6, <2>2
<1>7. EndOf(t, s)
  BY <1>4, <1>6 DEF EndOf
<1> QED BY <1>5, <1>7

LEMMA NewestSane ==
  ASSUME NEW s \in Seq(Entry), NEW st \in Seq(Entry), NEW lg, NEW n, NEW d \in Nat \ {0},
         Sane(s, st, lg, n)
  PROVE  /\ Sane(Newest(s, d), st, lg, n)
         /\ EndOf(Newest(s, d), s)
PROOF
  BY NewestSuffix, SuffixSane

-----------------------------------------------------------------------------
(* The inductive invariant.                                                 *)

Message ==
  [kind : {"entry"}, entry : Entry] \cup {[kind |-> "cleared"]} \cup
  [kind : {"state"}, log : Seq(Entry)]

(* The store is in order and holds its log only; the numbers to come are    *)
(* above it, and no number is above the count of all that was logged.       *)
StoreSane ==
  /\ store \in Seq(Entry) /\ Increasing(store)
  /\ \A i \in DOMAIN store :
       /\ store[i].log = log /\ store[i].seq < entries
       /\ opened => store[i].seq < nextSeq
  /\ nextSeq \in 0..MaxEntries /\ nextSeq <= entries
  /\ opened => entryCount = Len(store)
  /\ log \in 0..MaxLogs /\ {opened, sessionMark} \subseteq BOOLEAN
  /\ entries \in 0..MaxEntries /\ refreshes \in 0..MaxRefreshes /\ faults \in 0..MaxFaults

(* An append in progress is of the log that is open.                        *)
WritingSane ==
  writing # Nothing =>
    /\ opened /\ writing \in Entry /\ writing.log = log
    /\ Known(writing, store, log) /\ writing.seq < entries

LoadsSane ==
  /\ loads \in Seq([read : BOOLEAN, log : Seq(Entry)])
  /\ \A i \in DOMAIN loads : Sane(loads[i].log, store, log, entries)

WireSane ==
  /\ wire \in Seq(Message)
  /\ \A i \in DOMAIN wire :
       /\ wire[i].kind = "entry" => /\ wire[i].entry \in Entry
                                    /\ Known(wire[i].entry, store, log)
                                    /\ wire[i].entry.seq < entries
       /\ wire[i].kind = "state" => Sane(wire[i].log, store, log, entries)

ViewSane ==
  /\ Sane(eventLog, store, log, entries)
  /\ lastSeenSeq = IF eventLog = <<>> THEN -1 ELSE eventLog[Len(eventLog)].seq

(* m brings nothing of a later log than entry e.                            *)
NoLater(m, e) ==
  /\ m.kind = "entry" => m.entry.log <= e.log
  /\ m.kind = "state" => \A k \in DOMAIN m.log : m.log[k].log <= e.log

(* An entry that is announced is of no earlier log than what the page shows *)
(* or will be shown before.                                                 *)
InOrder ==
  \A j \in DOMAIN wire :
    wire[j].kind = "entry" =>
      /\ \A k \in DOMAIN eventLog : eventLog[k].log <= wire[j].entry.log
      /\ \A i \in DOMAIN wire : i < j => NoLater(wire[i], wire[j].entry)

IInv == StoreSane /\ WritingSane /\ LoadsSane /\ WireSane /\ ViewSane /\ InOrder

Onward == SaneStays(store, log, entries, store', log', entries')

(* What is neither read nor sent stays sane while the store goes on.        *)
LEMMA Carried ==
  ASSUME IInv, Onward
  PROVE  /\ loads' = loads => LoadsSane'
         /\ wire' = wire => WireSane'
         /\ UNCHANGED pageVars => ViewSane'
         /\ writing' = writing /\ log' = log /\ (opened => opened') => WritingSane'
PROOF
<1>1. ASSUME loads' = loads PROVE LoadsSane'
  <2>1. loads \in Seq([read : BOOLEAN, log : Seq(Entry)])
    BY DEF IInv, LoadsSane
  <2>2. ASSUME NEW i \in DOMAIN loads PROVE Sane(loads[i].log, store', log', entries')
    <3>1. Sane(loads[i].log, store, log, entries) /\ loads[i].log \in Seq(Entry)
      BY DEF IInv, LoadsSane, Sane
    <3> QED BY <3>1 DEF Onward, SaneStays
  <2> QED BY <1>1, <2>1, <2>2 DEF LoadsSane
<1>2. ASSUME wire' = wire PROVE WireSane'
  <2>1. ASSUME NEW i \in DOMAIN wire, wire[i].kind = "entry"
        PROVE  /\ wire[i].entry \in Entry /\ Known(wire[i].entry, store', log')
               /\ wire[i].entry.seq < entries'
    BY <2>1 DEF IInv, WireSane, Onward, SaneStays
  <2>2. ASSUME NEW i \in DOMAIN wire, wire[i].kind = "state"
        PROVE  Sane(wire[i].log, store', log', entries')
    <3>1. Sane(wire[i].log, store, log, entries) /\ wire[i].log \in Seq(Entry)
      BY <2>2 DEF IInv, WireSane, Sane
    <3> QED BY <3>1 DEF Onward, SaneStays
  <2>3. wire \in Seq(Message)
    BY DEF IInv, WireSane
  <2> QED BY <1>2, <2>1, <2>2, <2>3 DEF WireSane
<1>3. ASSUME UNCHANGED pageVars PROVE ViewSane'
  <2>1. Sane(eventLog, store, log, entries) /\ eventLog \in Seq(Entry)
    BY DEF IInv, ViewSane, Sane
  <2>2. Sane(eventLog, store', log', entries')
    BY <2>1 DEF Onward, SaneStays
  <2> QED BY <1>3, <2>2 DEF IInv, ViewSane, pageVars
<1>4. ASSUME writing' = writing, log' = log, opened => opened' PROVE WritingSane'
  BY <1>4 DEF IInv, WritingSane, Onward, SaneStays
<1> QED BY <1>1, <1>2, <1>3, <1>4
-----------------------------------------------------------------------------
(* The steps.                                                               *)

LEMMA Bounds ==
  /\ EVENT_LOG_MAX \in Nat \ {0} /\ EVENT_LOG_DISPLAY_MAX \in Nat \ {0} /\ TRIM_SLACK \in Nat
  /\ MaxEntries \in Nat /\ MaxLogs \in Nat /\ MaxRefreshes \in Nat /\ MaxFaults \in Nat
PROOF
  BY EventLogAssumption

LEMMA InitSane == Init => IInv
PROOF
<1> SUFFICES ASSUME Init PROVE IInv
  OBVIOUS
<1> USE DEF Init
<1>1. StoreSane
  <2>1. store \in Seq(Entry) /\ DOMAIN store = {}
    OBVIOUS
  <2>2. {opened, sessionMark} \subseteq BOOLEAN
    OBVIOUS
  <2> QED BY <2>1, <2>2, Bounds DEF StoreSane, Increasing
<1>2. WritingSane
  BY DEF WritingSane
<1>3. LoadsSane
  BY DEF LoadsSane
<1>4. WireSane
  BY DEF WireSane
<1>5. ViewSane
  BY DEF ViewSane, Sane, Whole
<1>6. InOrder
  BY DEF InOrder
<1> QED BY <1>1, <1>2, <1>3, <1>4, <1>5, <1>6 DEF IInv

LEMMA EmptySane ==
  ASSUME NEW st, NEW lg, NEW n
  PROVE  Sane(<<>>, st, lg, n)
PROOF
  BY DEF Sane, Whole

LEMMA StoreFacts ==
  ASSUME StoreSane
  PROVE  /\ store \in Seq(Entry) /\ log \in Nat /\ entries \in Nat /\ nextSeq \in Nat
         /\ Len(store) \in Nat /\ DOMAIN store = 1..Len(store)
         /\ \A x \in Entry : x.seq \in Nat /\ x.log \in Nat
PROOF
<1>1. \A x \in Entry : x.seq \in Nat /\ x.log \in Nat
  BY EventLogAssumption DEF Entry
<1> QED BY <1>1, Bounds DEF StoreSane

(* What is posted is sane, and an entry is of the log that is open.         *)
LEMMA Sent ==
  ASSUME IInv, Onward, UNCHANGED pageVars,
         NEW m \in Message, wire' = Append(wire, m),
         m.kind = "entry" => /\ m.entry \in Entry /\ m.entry.log = log
                             /\ Known(m.entry, store', log') /\ m.entry.seq < entries',
         m.kind = "state" => Sane(m.log, store', log', entries')
  PROVE  WireSane' /\ InOrder'
PROOF
<1>0. WireSane /\ InOrder
  BY DEF IInv
<1>1. /\ wire \in Seq(Message) /\ Len(wire) \in Nat /\ Len(wire') = Len(wire) + 1
      /\ wire' \in Seq(Message) /\ DOMAIN wire' = 1..Len(wire) + 1 /\ DOMAIN wire = 1..Len(wire)
      /\ wire'[Len(wire) + 1] = m
      /\ \A i \in 1..Len(wire) : wire'[i] = wire[i]
  <2>1. wire \in Seq(Message)
    BY <1>0 DEF WireSane
  <2> QED BY <2>1
<1>2. WireSane'
  <2>1. ASSUME NEW i \in 1..Len(wire) + 1
        PROVE  /\ wire'[i].kind = "entry" => /\ wire'[i].entry \in Entry
                                             /\ Known(wire'[i].entry, store', log')
                                             /\ wire'[i].entry.seq < entries'
               /\ wire'[i].kind = "state" => Sane(wire'[i].log, store', log', entries')
    <3>1. CASE i = Len(wire) + 1
      BY <1>1, <3>1
    <3>2. CASE i # Len(wire) + 1
      <4>1. i \in DOMAIN wire /\ wire'[i] = wire[i]
        BY <1>1, <3>2
      <4>2. wire[i].kind = "state" => wire[i].log \in Seq(Entry)
        BY <1>0, <4>1 DEF WireSane, Sane
      <4> QED BY <1>0, <4>1, <4>2 DEF WireSane, Onward, SaneStays
    <3> QED BY <3>1, <3>2
  <2> QED BY <1>1, <2>1 DEF WireSane
<1>3. InOrder'
  <2>1. \A k \in DOMAIN eventLog : eventLog[k].log <= log
    BY DEF IInv, ViewSane, Sane, Known
  <2>2. ASSUME NEW i \in DOMAIN wire PROVE m.kind = "entry" => NoLater(wire[i], m.entry)
    BY <1>0 DEF WireSane, Sane, Known, NoLater
  <2>3. UNCHANGED eventLog
    BY DEF pageVars
  <2>4. ASSUME NEW j \in 1..Len(wire) + 1, wire'[j].kind = "entry"
        PROVE  /\ \A k \in DOMAIN eventLog : eventLog[k].log <= wire'[j].entry.log
               /\ \A i \in 1..Len(wire) + 1 : i < j => NoLater(wire'[i], wire'[j].entry)
    <3>1. CASE j = Len(wire) + 1
      <4>1. wire'[j] = m
        BY <1>1, <3>1
      <4>2. ASSUME NEW i \in 1..Len(wire) + 1, i < j PROVE i \in DOMAIN wire /\ wire'[i] = wire[i]
        BY <1>1, <3>1, <4>2
      <4> QED BY <2>1, <2>2, <2>4, <4>1, <4>2
    <3>2. CASE j # Len(wire) + 1
      <4>1. j \in DOMAIN wire /\ wire'[j] = wire[j]
        BY <1>1, <3>2
      <4>2. ASSUME NEW i \in 1..Len(wire) + 1, i < j PROVE i \in DOMAIN wire /\ wire'[i] = wire[i]
        BY <1>1, <4>1, <4>2
      <4> QED BY <1>0, <2>4, <4>1, <4>2 DEF InOrder
    <3> QED BY <3>1, <3>2
  <2> QED BY <1>1, <2>3, <2>4 DEF InOrder
<1> QED BY <1>2, <1>3

LEMMA openDbKeeps ==
  ASSUME IInv, openDb
  PROVE  IInv'
PROOF
<1>0. StoreSane /\ WritingSane
  BY DEF IInv
<1>f. /\ store \in Seq(Entry) /\ log \in Nat /\ entries \in Nat /\ nextSeq \in Nat
      /\ Len(store) \in Nat /\ DOMAIN store = 1..Len(store)
      /\ \A x \in Entry : x.seq \in Nat /\ x.log \in Nat
  BY <1>0, StoreFacts
<1>1. /\ writing = Nothing /\ writing' = Nothing /\ wire' = wire /\ loads' = loads
      /\ UNCHANGED pageVars /\ entries' = entries
  BY <1>0 DEF openDb, WritingSane, boundVars
<1>2. StoreSane' /\ Onward
  <2>1. CASE sessionMark
    <3>1. UNCHANGED <<store, log, sessionMark, entries, refreshes, faults>> /\ opened'
          /\ entryCount' = Len(store) /\ nextSeq' = seqAfterLast(store)
      BY <2>1 DEF openDb, boundVars
    <3>2. CASE store = <<>>
      BY <1>0, <1>f, <3>1, <3>2, Bounds
         DEF StoreSane, seqAfterLast, Increasing, Onward, SaneStays
    <3>3. CASE store # <<>>
      <4>1. /\ Len(store) \in DOMAIN store /\ store[Len(store)] \in Entry
            /\ store[Len(store)].seq < entries /\ nextSeq' = store[Len(store)].seq + 1
        BY <1>0, <1>f, <3>1, <3>3 DEF StoreSane, seqAfterLast
      <4>2. nextSeq' \in 0..MaxEntries /\ nextSeq' <= entries
        <5>1. store[Len(store)].seq \in Nat /\ entries \in 0..MaxEntries
          BY <1>0, <1>f, <4>1 DEF StoreSane
        <5> QED BY <1>f, <4>1, <5>1, Bounds
      <4>3. ASSUME NEW i \in DOMAIN store PROVE store[i].seq < nextSeq'
        <5>1. CASE i = Len(store)
          BY <1>f, <4>1, <5>1
        <5>2. CASE i # Len(store)
          <6>1. i < Len(store) /\ store[i] \in Entry
            BY <1>f, <5>2
          <6>2. store[i].seq < store[Len(store)].seq
            BY <1>0, <4>1, <6>1 DEF StoreSane, Increasing
          <6> QED BY <1>f, <4>1, <6>1, <6>2
        <5> QED BY <5>1, <5>2
      <4> QED BY <1>0, <3>1, <4>2, <4>3 DEF StoreSane, Increasing, Onward, SaneStays
    <3> QED BY <3>2, <3>3
  <2>2. CASE ~sessionMark
    <3>1. /\ log < MaxLogs /\ store' = <<>> /\ log' = log + 1 /\ entryCount' = 0
          /\ nextSeq' = 0 /\ sessionMark' = TRUE /\ opened' = TRUE
          /\ UNCHANGED <<entries, refreshes, faults>>
      BY <2>2 DEF openDb, boundVars
    <3>2. StoreSane'
      BY <1>0, <1>f, <3>1, Bounds DEF StoreSane, Increasing
    <3>3. Onward
      BY <1>f, <3>1, StaysOnWipe DEF Onward
    <3> QED BY <3>2, <3>3
  <2> QED BY <2>1, <2>2
<1>3. LoadsSane' /\ WireSane' /\ ViewSane'
  BY <1>1, <1>2, Carried
<1>4. WritingSane'
  BY <1>1 DEF WritingSane
<1>5. InOrder'
  BY <1>1 DEF IInv, InOrder, pageVars, NoLater
<1> QED BY <1>2, <1>3, <1>4, <1>5 DEF IInv

LEMMA clearKeeps ==
  ASSUME IInv, clear
  PROVE  IInv'
PROOF
<1>0. StoreSane /\ WireSane
  BY DEF IInv
<1>f. /\ store \in Seq(Entry) /\ log \in Nat /\ entries \in Nat
      /\ \A x \in Entry : x.seq \in Nat /\ x.log \in Nat
  BY <1>0, StoreFacts
<1>1. /\ writing' = Nothing /\ loads' = loads /\ UNCHANGED pageVars
      /\ log < MaxLogs /\ store' = <<>> /\ log' = log + 1 /\ entryCount' = 0
      /\ nextSeq' = 0 /\ opened' = opened /\ UNCHANGED <<sessionMark, entries, refreshes, faults>>
      /\ wire' = Append(wire, [kind |-> "cleared"])
  BY DEF clear, boundVars
<1>2. StoreSane'
  BY <1>0, <1>f, <1>1, Bounds DEF StoreSane, Increasing
<1>3. Onward
  BY <1>f, <1>1, StaysOnWipe DEF Onward
<1>4. LoadsSane' /\ ViewSane'
  BY <1>1, <1>3, Carried
<1>5. WritingSane'
  BY <1>1 DEF WritingSane
<1>6. WireSane' /\ InOrder'
  <2>1. [kind |-> "cleared"] \in Message
    BY DEF Message
  <2> QED BY <1>1, <1>3, <2>1, Sent
<1> QED BY <1>2, <1>4, <1>5, <1>6 DEF IInv
LEMMA WriteKeeps ==
  ASSUME IInv, Write
  PROVE  IInv'
PROOF
<1>0. StoreSane
  BY DEF IInv
<1>f. /\ store \in Seq(Entry) /\ log \in Nat /\ entries \in Nat /\ nextSeq \in Nat
      /\ Len(store) \in Nat /\ DOMAIN store = 1..Len(store)
      /\ \A x \in Entry : x.seq \in Nat /\ x.log \in Nat
  BY <1>0, StoreFacts
<1> DEFINE stamped == [log |-> log, seq |-> nextSeq]
<1>1. /\ opened /\ opened' = opened /\ writing = Nothing /\ entries < MaxEntries
      /\ entries' = entries + 1 /\ nextSeq' = nextSeq + 1
      /\ UNCHANGED <<log, sessionMark, loads, wire, refreshes>> /\ UNCHANGED pageVars
  BY DEF Write
<1>2. stamped \in Entry /\ stamped.log = log /\ stamped.seq = nextSeq
  BY <1>0 DEF StoreSane, Entry
<1>3. nextSeq' \in 0..MaxEntries /\ nextSeq' <= entries' /\ entries' \in 0..MaxEntries
  BY <1>0, <1>f, <1>1, Bounds DEF StoreSane
<1>4. StoreSane' /\ WritingSane' /\ Onward
  <2>1. CASE /\ store' = Append(store, stamped) /\ entryCount' = entryCount + 1
             /\ writing' = stamped /\ faults' = faults
    <3> HIDE DEF stamped
    <3>1. /\ store' \in Seq(Entry) /\ Len(store') = Len(store) + 1
          /\ DOMAIN store' = 1..Len(store) + 1 /\ store'[Len(store) + 1] = stamped
          /\ \A i \in 1..Len(store) : store'[i] = store[i] /\ store[i] \in Entry
      BY <1>2, <1>f, <2>1
    <3>2. \A i \in DOMAIN store : store[i].seq < stamped.seq
      BY <1>0, <1>1, <1>2 DEF StoreSane
    <3>3. Onward
      BY <1>f, <1>1, <1>2, <2>1, <3>2, StaysOnAppend DEF Onward
    <3>4. Increasing(store')
      <4> SUFFICES ASSUME NEW i \in 1..Len(store) + 1, NEW j \in 1..Len(store) + 1, i < j
                   PROVE  store'[i].seq < store'[j].seq
        BY <3>1 DEF Increasing
      <4>1. i \in DOMAIN store /\ store'[i] = store[i]
        BY <1>f, <3>1
      <4>2. CASE j = Len(store) + 1
        BY <3>1, <3>2, <4>1, <4>2
      <4>3. CASE j # Len(store) + 1
        <5>1. j \in DOMAIN store /\ store'[j] = store[j]
          BY <1>f, <3>1, <4>3
        <5> QED BY <1>0, <4>1, <5>1 DEF StoreSane, Increasing
      <4> QED BY <4>2, <4>3
    <3>5. ASSUME NEW i \in DOMAIN store'
          PROVE  /\ store'[i].log = log' /\ store'[i].seq < entries' /\ store'[i].seq < nextSeq'
      <4>1. CASE i = Len(store) + 1
        BY <1>0, <1>f, <1>1, <1>2, <3>1, <4>1 DEF StoreSane
      <4>2. CASE i # Len(store) + 1
        <5>1. i \in DOMAIN store /\ store'[i] = store[i] /\ store[i] \in Entry
          BY <1>f, <3>1, <4>2
        <5>2. store[i].log = log /\ store[i].seq < entries /\ store[i].seq < nextSeq
          BY <1>0, <1>1, <5>1 DEF StoreSane
        <5> QED BY <1>f, <1>1, <5>1, <5>2
      <4> QED BY <4>1, <4>2
    <3>6. entryCount' = Len(store')
      BY <1>0, <1>1, <2>1, <3>1 DEF StoreSane
    <3>7. StoreSane'
      BY <1>0, <1>1, <1>3, <2>1, <3>1, <3>4, <3>5, <3>6 DEF StoreSane
    <3>8. WritingSane'
      <4>1. store' # <<>> /\ store'[Len(store')] = stamped
        BY <1>f, <3>1
      <4>2. Known(stamped, store', log')
        BY <1>f, <1>1, <1>2, <4>1 DEF Known
      <4>3. stamped.seq < entries'
        BY <1>0, <1>f, <1>1, <1>2 DEF StoreSane
      <4> QED BY <1>1, <1>2, <2>1, <4>2, <4>3 DEF WritingSane
    <3> QED BY <3>3, <3>7, <3>8
  <2>2. CASE /\ faults < MaxFaults /\ faults' = faults + 1
             /\ UNCHANGED <<store, entryCount, writing>>
    <3>1. faults' \in 0..MaxFaults
      BY <1>0, <2>2, Bounds DEF StoreSane
    <3>2. \A i \in DOMAIN store : store[i] \in Entry
      BY <1>f
    <3>3. \A i \in DOMAIN store : store[i].seq < entries' /\ store[i].seq < nextSeq'
      BY <1>0, <1>f, <1>1, <3>2 DEF StoreSane
    <3>4. StoreSane'
      BY <1>0, <1>1, <1>3, <2>2, <3>1, <3>3 DEF StoreSane, Increasing
    <3>5. Onward
      BY <1>f, <1>1, <2>2, StaysAsIs DEF Onward
    <3> QED BY <1>1, <2>2, <3>4, <3>5 DEF WritingSane
  <2> QED BY <2>1, <2>2 DEF Write
<1>5. LoadsSane' /\ WireSane' /\ ViewSane'
  BY <1>1, <1>4, Carried
<1>6. InOrder'
  BY <1>1 DEF IInv, InOrder, pageVars, NoLater
<1> QED BY <1>4, <1>5, <1>6 DEF IInv

LEMMA AnnounceKeeps ==
  ASSUME IInv, Announce
  PROVE  IInv'
PROOF
<1>0. StoreSane /\ WritingSane
  BY DEF IInv
<1>f. /\ store \in Seq(Entry) /\ log \in Nat /\ entries \in Nat /\ nextSeq \in Nat
      /\ Len(store) \in Nat /\ DOMAIN store = 1..Len(store)
      /\ \A x \in Entry : x.seq \in Nat /\ x.log \in Nat
  BY <1>0, StoreFacts
<1>1. /\ writing # Nothing /\ writing' = Nothing
      /\ UNCHANGED <<log, sessionMark, opened, nextSeq, loads, entries, refreshes>>
      /\ UNCHANGED pageVars
  BY DEF Announce
<1>2. /\ opened /\ writing \in Entry /\ writing.log = log /\ Known(writing, store, log)
      /\ writing.seq < entries /\ entryCount = Len(store)
  BY <1>0, <1>1 DEF StoreSane, WritingSane
<1>3. WritingSane'
  BY <1>1 DEF WritingSane
<1>4. CASE /\ store' = SubSeq(store, Excess + 1, Len(store)) /\ entryCount' = entryCount - Excess
           /\ wire' = Append(wire, [kind |-> "entry", entry |-> writing]) /\ faults' = faults
  <2>1. Excess \in 0..Len(store) /\ (store # <<>> => Excess < Len(store))
    <3>1. CASE entryCount > EVENT_LOG_MAX + TRIM_SLACK
      <4>1. Excess = Len(store) - EVENT_LOG_MAX
        BY <1>2, <3>1 DEF Excess
      <4> QED BY <1>f, <1>2, <3>1, <4>1, Bounds
    <3>2. CASE ~(entryCount > EVENT_LOG_MAX + TRIM_SLACK)
      <4>1. Excess = 0
        BY <3>2 DEF Excess
      <4> QED BY <1>f, <4>1
    <3> QED BY <3>1, <3>2
  <2> HIDE DEF Excess
  <2>2. Onward
    BY <1>f, <1>1, <1>4, <2>1, StaysOnTrim DEF Onward
  <2>3. /\ store' \in Seq(Entry) /\ Len(store') = Len(store) - Excess
        /\ DOMAIN store' = 1..Len(store) - Excess
        /\ \A i \in 1..Len(store) - Excess : /\ Excess + i \in 1..Len(store)
                                             /\ store'[i] = store[Excess + i]
    <3>1. Excess + 1 \in 1..Len(store) + 1
      BY <1>f, <2>1
    <3>2. /\ store' \in Seq(Entry) /\ Len(store') = Len(store) - (Excess + 1) + 1
          /\ \A i \in 1..Len(store) - (Excess + 1) + 1 :
               /\ (Excess + 1) + i - 1 \in 1..Len(store)
               /\ store'[i] = store[(Excess + 1) + i - 1]
      BY <1>f, <1>4, <3>1, SuffixOf
    <3>3. /\ Len(store) - (Excess + 1) + 1 = Len(store) - Excess
          /\ \A i \in Nat : (Excess + 1) + i - 1 = Excess + i
      BY <1>f, <2>1
    <3> QED BY <3>2, <3>3
  <2>4. StoreSane'
    <3>1. Increasing(store')
      <4> SUFFICES ASSUME NEW i \in 1..Len(store) - Excess, NEW j \in 1..Len(store) - Excess, i < j
                   PROVE  store'[i].seq < store'[j].seq
        BY <2>3 DEF Increasing
      <4>1. /\ Excess + i \in DOMAIN store /\ Excess + j \in DOMAIN store
            /\ Excess + i < Excess + j
        BY <1>f, <2>1, <2>3
      <4> QED BY <1>0, <2>3, <4>1 DEF StoreSane, Increasing
    <3>2. \A i \in DOMAIN store' : Excess + i \in DOMAIN store /\ store'[i] = store[Excess + i]
      BY <1>f, <2>3
    <3>3. entryCount' = Len(store')
      BY <1>2, <1>4, <2>3
    <3> QED BY <1>0, <1>1, <1>4, <2>3, <3>1, <3>2, <3>3 DEF StoreSane
  <2>5. LoadsSane' /\ ViewSane'
    BY <1>1, <2>2, Carried
  <2>6. WireSane' /\ InOrder'
    <3> DEFINE m == [kind |-> "entry", entry |-> writing]
    <3>1. m \in Message /\ m.kind = "entry" /\ m.entry = writing
      BY <1>2 DEF Message
    <3>2. Known(writing, store', log') /\ writing.seq < entries'
      BY <1>2, <2>2 DEF Onward, SaneStays
    <3>3. wire' = Append(wire, m)
      BY <1>4
    <3> HIDE DEF m
    <3> QED BY <1>1, <1>2, <2>2, <3>1, <3>2, <3>3, Sent
  <2> QED BY <1>3, <2>4, <2>5, <2>6 DEF IInv
<1>5. CASE /\ faults < MaxFaults /\ faults' = faults + 1 /\ UNCHANGED <<store, entryCount, wire>>
  <2>1. StoreSane'
    <3>1. faults' \in 0..MaxFaults
      BY <1>0, <1>5, Bounds DEF StoreSane
    <3> QED BY <1>0, <1>1, <1>5, <3>1 DEF StoreSane, Increasing
  <2>2. Onward
    BY <1>f, <1>1, <1>5, StaysAsIs DEF Onward
  <2>3. LoadsSane' /\ ViewSane' /\ WireSane'
    BY <1>1, <1>5, <2>2, Carried
  <2>4. InOrder'
    BY <1>1, <1>5 DEF IInv, InOrder, pageVars, NoLater
  <2> QED BY <1>3, <2>1, <2>3, <2>4 DEF IInv
<1> QED BY <1>4, <1>5 DEF Announce
LEMMA RefreshKeeps ==
  ASSUME IInv, Refresh
  PROVE  IInv'
PROOF
<1>0. StoreSane
  BY DEF IInv
<1>1. /\ refreshes' = refreshes + 1 /\ refreshes < MaxRefreshes
      /\ UNCHANGED <<writing, loads, wire, entries, faults>> /\ UNCHANGED dbVars
      /\ UNCHANGED pageVars
  BY DEF Refresh
<1>2. refreshes' \in 0..MaxRefreshes
  BY <1>0, <1>1, Bounds DEF StoreSane
<1>3. StoreSane'
  BY <1>0, <1>1, <1>2 DEF StoreSane, Increasing, dbVars
<1>4. WritingSane' /\ LoadsSane' /\ WireSane' /\ ViewSane' /\ InOrder'
  BY <1>1 DEF IInv, WritingSane, LoadsSane, WireSane, ViewSane, InOrder, dbVars, pageVars
<1> QED BY <1>3, <1>4 DEF IInv

(* What leaves the database and the page alone, and sends nothing.          *)
LEMMA QuietKeeps ==
  ASSUME IInv, UNCHANGED dbVars, UNCHANGED pageVars, UNCHANGED boundVars,
         UNCHANGED <<writing, wire>>, LoadsSane'
  PROVE  IInv'
PROOF
<1>1. StoreSane'
  BY DEF IInv, StoreSane, Increasing, dbVars, boundVars
<1>2. WritingSane' /\ WireSane' /\ ViewSane' /\ InOrder'
  BY DEF IInv, WritingSane, WireSane, ViewSane, InOrder, dbVars, pageVars, boundVars
<1> QED BY <1>1, <1>2 DEF IInv

LEMMA TakeGetStateKeeps ==
  ASSUME IInv, TakeGetState
  PROVE  IInv'
PROOF
<1>1. /\ UNCHANGED dbVars /\ UNCHANGED pageVars /\ UNCHANGED boundVars
      /\ UNCHANGED <<writing, wire>> /\ loads' = Append(loads, Unread)
  BY DEF TakeGetState
<1>2. Unread \in [read : BOOLEAN, log : Seq(Entry)] /\ Unread.log = <<>>
  BY DEF Unread, Nothing
<1>3. loads \in Seq([read : BOOLEAN, log : Seq(Entry)])
  BY DEF IInv, LoadsSane
<1>4. /\ loads' \in Seq([read : BOOLEAN, log : Seq(Entry)])
      /\ \A i \in DOMAIN loads' : (i \in DOMAIN loads /\ loads'[i] = loads[i]) \/ loads'[i] = Unread
  BY <1>1, <1>2, <1>3
<1>5. \A i \in DOMAIN loads' : Sane(loads'[i].log, store, log, entries)
  <2> TAKE i \in DOMAIN loads'
  <2>1. CASE i \in DOMAIN loads /\ loads'[i] = loads[i]
    BY <2>1 DEF IInv, LoadsSane
  <2>2. CASE loads'[i] = Unread
    <3>1. loads'[i].log = <<>>
      BY <1>2, <2>2
    <3> QED BY <3>1, EmptySane
  <2> QED BY <1>4, <2>1, <2>2
<1>6. LoadsSane'
  BY <1>1, <1>4, <1>5 DEF LoadsSane, dbVars, boundVars
<1> QED BY <1>1, <1>6, QuietKeeps

LEMMA SeqExcept ==
  ASSUME NEW S, NEW s \in Seq(S), NEW i \in DOMAIN s, NEW v \in S
  PROVE  /\ [s EXCEPT ![i] = v] \in Seq(S)
         /\ DOMAIN [s EXCEPT ![i] = v] = DOMAIN s
         /\ \A j \in DOMAIN s : [s EXCEPT ![i] = v][j] = IF j = i THEN v ELSE s[j]
PROOF
  OBVIOUS

LEMMA ListKeeps ==
  ASSUME IInv, NEW i \in DOMAIN loads, List(i)
  PROVE  IInv'
PROOF
<1>0. StoreSane
  BY DEF IInv
<1> DEFINE shown == Newest(store, EVENT_LOG_DISPLAY_MAX)
<1>1. /\ UNCHANGED dbVars /\ UNCHANGED pageVars /\ UNCHANGED boundVars
      /\ UNCHANGED <<writing, wire>>
      /\ loads' = [loads EXCEPT ![i] = [read |-> TRUE, log |-> shown]]
  BY DEF List
<1>2. Sane(shown, store, log, entries) /\ shown \in Seq(Entry)
  <2>1. store \in Seq(Entry) /\ log \in Nat
    BY <1>0, StoreFacts
  <2>2. Sane(store, store, log, entries)
    BY <1>0, <2>1, StoreWhole DEF StoreSane, Sane
  <2>3. Sane(shown, store, log, entries)
    BY <2>1, <2>2, Bounds, NewestSane
  <2> QED BY <2>3 DEF Sane
<1> HIDE DEF shown
<1>3. loads \in Seq([read : BOOLEAN, log : Seq(Entry)])
  BY DEF IInv, LoadsSane
<1>4. /\ loads' \in Seq([read : BOOLEAN, log : Seq(Entry)]) /\ DOMAIN loads' = DOMAIN loads
      /\ \A j \in DOMAIN loads : loads'[j] = IF j = i THEN [read |-> TRUE, log |-> shown]
                                               ELSE loads[j]
  <2>1. [read |-> TRUE, log |-> shown] \in [read : BOOLEAN, log : Seq(Entry)]
    BY <1>2
  <2>2. /\ [loads EXCEPT ![i] = [read |-> TRUE, log |-> shown]] \in
                Seq([read : BOOLEAN, log : Seq(Entry)])
        /\ DOMAIN [loads EXCEPT ![i] = [read |-> TRUE, log |-> shown]] = DOMAIN loads
        /\ \A j \in DOMAIN loads :
             [loads EXCEPT ![i] = [read |-> TRUE, log |-> shown]][j] =
               IF j = i THEN [read |-> TRUE, log |-> shown] ELSE loads[j]
    BY <1>3, <2>1, SeqExcept
  <2>3. loads' = [loads EXCEPT ![i] = [read |-> TRUE, log |-> shown]]
    BY <1>1
  <2> QED BY <2>2, <2>3, Zenon
<1>5. \A j \in DOMAIN loads' : Sane(loads'[j].log, store, log, entries)
  <2> TAKE j \in DOMAIN loads'
  <2>1. CASE j = i
    BY <1>2, <1>4, <2>1
  <2>2. CASE j # i
    <3>1. j \in DOMAIN loads /\ loads'[j] = loads[j]
      BY <1>4, <2>2
    <3> QED BY <3>1 DEF IInv, LoadsSane
  <2> QED BY <2>1, <2>2
<1>6. LoadsSane'
  BY <1>1, <1>4, <1>5 DEF LoadsSane, dbVars, boundVars
<1> QED BY <1>1, <1>6, QuietKeeps

LEMMA ReplyKeeps ==
  ASSUME IInv, Reply
  PROVE  IInv'
PROOF
<1>0. StoreSane /\ LoadsSane
  BY DEF IInv
<1>1. /\ loads # <<>> /\ loads' = Tail(loads)
      /\ wire' = Append(wire, [kind |-> "state", log |-> loads[1].log])
      /\ writing' = writing /\ UNCHANGED dbVars /\ UNCHANGED pageVars /\ UNCHANGED boundVars
  BY DEF Reply
<1>2. /\ loads \in Seq([read : BOOLEAN, log : Seq(Entry)]) /\ 1 \in DOMAIN loads
      /\ loads' \in Seq([read : BOOLEAN, log : Seq(Entry)])
      /\ \A i \in DOMAIN loads' : i + 1 \in DOMAIN loads /\ loads'[i] = loads[i + 1]
  <2>1. loads \in Seq([read : BOOLEAN, log : Seq(Entry)])
    BY <1>0 DEF LoadsSane
  <2> QED BY <1>1, <2>1
<1>3. UNCHANGED <<store, log, entries>>
  BY <1>1 DEF dbVars, boundVars
<1>4. LoadsSane'
  BY <1>0, <1>2, <1>3 DEF LoadsSane
<1>5. Onward
  <2>1. entries \in Nat
    BY <1>0, StoreFacts
  <2> QED BY <1>3, <2>1, StaysAsIs DEF Onward
<1>6. WireSane' /\ InOrder'
  <2>1. Sane(loads[1].log, store', log', entries') /\ loads[1].log \in Seq(Entry)
    BY <1>0, <1>2, <1>3 DEF LoadsSane, Sane
  <2>2. [kind |-> "state", log |-> loads[1].log] \in Message
    BY <2>1 DEF Message
  <2> QED BY <1>1, <1>5, <2>1, <2>2, Sent
<1>7. StoreSane'
  BY <1>0, <1>1 DEF StoreSane, Increasing, dbVars, boundVars
<1>8. WritingSane' /\ ViewSane'
  BY <1>1 DEF IInv, WritingSane, ViewSane, dbVars, pageVars, boundVars
<1> QED BY <1>4, <1>6, <1>7, <1>8 DEF IInv

LEMMA HostEndsKeeps ==
  ASSUME IInv, HostEnds
  PROVE  IInv'
PROOF
<1>0. StoreSane
  BY DEF IInv
<1>1. /\ faults' = faults + 1 /\ faults < MaxFaults /\ opened' = FALSE /\ nextSeq' = 0
      /\ writing' = Nothing /\ loads' = <<>> /\ wire' = <<>>
      /\ UNCHANGED <<store, log, entries, refreshes>>
      /\ sessionMark' \in {sessionMark, FALSE}
  BY DEF HostEnds
<1>2. StoreSane'
  <2>1. faults' \in 0..MaxFaults /\ nextSeq' \in 0..MaxEntries /\ nextSeq' <= entries'
    BY <1>0, <1>1, Bounds DEF StoreSane
  <2> QED BY <1>0, <1>1, <2>1 DEF StoreSane, Increasing
<1>3. WritingSane' /\ LoadsSane' /\ WireSane' /\ InOrder'
  BY <1>1 DEF WritingSane, LoadsSane, WireSane, InOrder
<1>4. ViewSane'
  <2>1. CASE UNCHANGED <<sessionMark, eventLog, lastSeenSeq>>
    BY <1>1, <2>1 DEF IInv, ViewSane
  <2>2. CASE Show(<<>>)
    BY <1>1, <2>2, EmptySane DEF ViewSane, Show
  <2> QED BY <2>1, <2>2 DEF HostEnds
<1> QED BY <1>2, <1>3, <1>4 DEF IInv
(* The page takes an entry, or leaves it.                                   *)
LEMMA ArrivesSane ==
  ASSUME IInv, NEW e \in Entry, Known(e, store, log), e.seq < entries,
         \A k \in DOMAIN eventLog : eventLog[k].log <= e.log,
         EntryArrives(e), UNCHANGED <<store, log, entries>>
  PROVE  /\ ViewSane'
         /\ \A k \in DOMAIN eventLog' :
              eventLog'[k] = e \/ \E l \in DOMAIN eventLog : eventLog'[k] = eventLog[l]
PROOF
<1>0. StoreSane /\ ViewSane
  BY DEF IInv
<1>f. /\ store \in Seq(Entry) /\ log \in Nat /\ entries \in Nat
      /\ \A x \in Entry : x.seq \in Nat /\ x.log \in Nat
  BY <1>0, StoreFacts
<1>1. CASE UNCHANGED <<eventLog, lastSeenSeq>>
  BY <1>0, <1>1 DEF ViewSane
<1>2. CASE /\ ~Seen(e) /\ ~Missed(e)
           /\ eventLog' = Newest(Append(eventLog, e), EVENT_LOG_DISPLAY_MAX)
           /\ lastSeenSeq' = e.seq
  <2> DEFINE longer == Append(eventLog, e)
  <2>1. /\ Sane(eventLog, store, log, entries) /\ eventLog \in Seq(Entry)
        /\ Whole(eventLog, store)
    BY <1>0 DEF ViewSane, Sane
  <2>2. ASSUME eventLog # <<>> PROVE e.seq = eventLog[Len(eventLog)].seq + 1
    <3>1. lastSeenSeq = eventLog[Len(eventLog)].seq /\ eventLog[Len(eventLog)] \in Entry
      BY <1>0, <2>1, <2>2 DEF ViewSane
    <3> QED BY <1>f, <1>2, <3>1 DEF Seen, Missed
  <2>3. Whole(longer, store)
    BY <1>f, <2>1, <2>2, WholeAppend
  <2>4. /\ longer \in Seq(Entry) /\ longer # <<>> /\ longer[Len(longer)] = e
        /\ \A k \in DOMAIN longer :
             longer[k] = e \/ (k \in DOMAIN eventLog /\ longer[k] = eventLog[k])
    BY <2>1, AppendFacts
  <2> HIDE DEF longer
  <2>5. Sane(longer, store, log, entries)
    BY <2>1, <2>3, <2>4 DEF Sane
  <2>6. /\ Sane(eventLog', store, log, entries)
        /\ eventLog' # <<>> /\ eventLog'[Len(eventLog')] = e
        /\ \A k \in DOMAIN eventLog' : \E l \in DOMAIN longer : eventLog'[k] = longer[l]
    <3>1. eventLog' = Newest(longer, EVENT_LOG_DISPLAY_MAX)
      BY <1>2 DEF longer
    <3>2. Sane(eventLog', store, log, entries) /\ EndOf(eventLog', longer)
      BY <1>f, <2>4, <2>5, <3>1, Bounds, NewestSane
    <3> QED BY <2>4, <3>2 DEF EndOf
  <2> QED BY <1>2, <2>4, <2>6 DEF ViewSane
<1> QED BY <1>1, <1>2 DEF EntryArrives, pageVars

LEMMA ReceiveKeeps ==
  ASSUME IInv, Receive
  PROVE  IInv'
PROOF
<1>0. StoreSane /\ WireSane /\ InOrder
  BY DEF IInv
<1> DEFINE m == Head(wire)
<1>1. /\ wire # <<>> /\ wire' = Tail(wire) /\ UNCHANGED <<writing, loads>> /\ UNCHANGED dbVars
      /\ UNCHANGED boundVars /\ UNCHANGED <<store, log, entries>>
  BY DEF Receive, dbVars, boundVars
<1>2. /\ wire \in Seq(Message) /\ 1 \in DOMAIN wire /\ m = wire[1]
      /\ wire' \in Seq(Message)
      /\ \A i \in DOMAIN wire' : i + 1 \in DOMAIN wire /\ wire'[i] = wire[i + 1] /\ i \in Nat \ {0}
  <2>1. wire \in Seq(Message)
    BY <1>0 DEF WireSane
  <2> QED BY <1>1, <2>1
<1> HIDE DEF m
<1>3. StoreSane'
  BY <1>0, <1>1 DEF StoreSane, Increasing, dbVars, boundVars
<1>4. WritingSane' /\ LoadsSane'
  BY <1>1 DEF IInv, WritingSane, LoadsSane, dbVars, boundVars
<1>5. WireSane'
  BY <1>0, <1>1, <1>2 DEF WireSane
<1>6. \A j \in DOMAIN wire' :
        wire'[j].kind = "entry" =>
          /\ \A i \in DOMAIN wire' : i < j => NoLater(wire'[i], wire'[j].entry)
          /\ NoLater(m, wire'[j].entry)
          /\ \A k \in DOMAIN eventLog : eventLog[k].log <= wire'[j].entry.log
  <2> SUFFICES ASSUME NEW j \in DOMAIN wire', wire'[j].kind = "entry"
               PROVE  /\ \A i \in DOMAIN wire' : i < j => NoLater(wire'[i], wire'[j].entry)
                      /\ NoLater(m, wire'[j].entry)
                      /\ \A k \in DOMAIN eventLog : eventLog[k].log <= wire'[j].entry.log
    OBVIOUS
  <2>1. j + 1 \in DOMAIN wire /\ wire'[j] = wire[j + 1] /\ 1 < j + 1
    BY <1>2
  <2>2. \A i \in DOMAIN wire : i < j + 1 => NoLater(wire[i], wire'[j].entry)
    BY <1>0, <2>1 DEF InOrder
  <2>3. ASSUME NEW i \in DOMAIN wire', i < j PROVE NoLater(wire'[i], wire'[j].entry)
    <3>1. i + 1 \in DOMAIN wire /\ wire'[i] = wire[i + 1] /\ i + 1 < j + 1
      BY <1>2, <2>3
    <3> QED BY <2>2, <3>1
  <2>4. NoLater(m, wire'[j].entry)
    BY <1>2, <2>1, <2>2
  <2>5. \A k \in DOMAIN eventLog : eventLog[k].log <= wire'[j].entry.log
    BY <1>0, <2>1 DEF InOrder
  <2> QED BY <2>3, <2>4, <2>5
<1>7. ViewSane' /\ InOrder'
  <2>1. CASE m.kind = "entry" /\ EntryArrives(m.entry)
    <3>1. /\ m.entry \in Entry /\ Known(m.entry, store, log) /\ m.entry.seq < entries
          /\ \A k \in DOMAIN eventLog : eventLog[k].log <= m.entry.log
      BY <1>0, <1>2, <2>1 DEF WireSane, InOrder
    <3>2. /\ ViewSane'
          /\ \A k \in DOMAIN eventLog' :
               eventLog'[k] = m.entry \/ \E l \in DOMAIN eventLog : eventLog'[k] = eventLog[l]
      BY <1>1, <2>1, <3>1, ArrivesSane
    <3>3. ASSUME NEW j \in DOMAIN wire', wire'[j].kind = "entry", NEW k \in DOMAIN eventLog'
          PROVE  eventLog'[k].log <= wire'[j].entry.log
      BY <1>6, <2>1, <3>2, <3>3 DEF NoLater
    <3> QED BY <1>6, <3>2, <3>3 DEF InOrder
  <2>2. CASE m.kind = "cleared" /\ Show(<<>>)
    <3>1. ViewSane'
      BY <2>2, EmptySane DEF ViewSane, Show
    <3> QED BY <1>6, <2>2, <3>1 DEF InOrder, Show
  <2>3. CASE m.kind = "state" /\ Show(m.log)
    <3>1. Sane(m.log, store, log, entries)
      BY <1>0, <1>2, <2>3 DEF WireSane
    <3>2. ViewSane'
      BY <1>1, <2>3, <3>1 DEF ViewSane, Show
    <3> QED BY <1>6, <2>3, <3>2 DEF InOrder, Show, NoLater
  <2> QED BY <2>1, <2>2, <2>3 DEF Receive, m
<1> QED BY <1>3, <1>4, <1>5, <1>7 DEF IInv

-----------------------------------------------------------------------------

LEMMA StepSane == IInv /\ [Next]_vars => IInv'
PROOF
<1> SUFFICES ASSUME IInv, [Next]_vars PROVE IInv'
  OBVIOUS
<1>1. CASE UNCHANGED vars
  <2>1. /\ UNCHANGED dbVars /\ UNCHANGED pageVars /\ UNCHANGED boundVars
        /\ UNCHANGED <<writing, wire>> /\ loads' = loads /\ UNCHANGED <<store, log, entries>>
    BY <1>1 DEF vars, dbVars, pageVars, boundVars
  <2>2. LoadsSane'
    BY <2>1 DEF IInv, LoadsSane
  <2> QED BY <2>1, <2>2, QuietKeeps
<1>2. CASE \E i \in DOMAIN loads : List(i)
  BY <1>2, ListKeeps
<1> QED BY <1>1, <1>2, openDbKeeps, WriteKeeps, AnnounceKeeps, clearKeeps, TakeGetStateKeeps,
           ReplyKeeps, RefreshKeeps, ReceiveKeeps, HostEndsKeeps DEF Next

(* No number is given twice, whatever is cleared, trimmed, refused or taken *)
(* over from a page that ended, and every counter keeps to its range        *)
(* (event-log.mjs: seqAfterLast).                                           *)
THEOREM LogTyped == Spec => []TypeOK
PROOF
<1>1. IInv => TypeOK
  <2> SUFFICES ASSUME IInv PROVE TypeOK
    OBVIOUS
  <2>0. StoreSane /\ ViewSane
    BY DEF IInv
  <2>f. /\ store \in Seq(Entry) /\ entries \in Nat /\ Len(store) \in Nat
        /\ DOMAIN store = 1..Len(store) /\ \A x \in Entry : x.seq \in Nat
    BY <2>0, StoreFacts
  <2>1. eventLog \in Seq(Entry)
    BY <2>0 DEF ViewSane, Sane
  <2>2. lastSeenSeq \in -1..MaxEntries - 1
    <3>1. CASE eventLog = <<>>
      BY <2>0, <3>1, Bounds DEF ViewSane
    <3>2. CASE eventLog # <<>>
      <4>1. /\ Len(eventLog) \in DOMAIN eventLog /\ eventLog[Len(eventLog)] \in Entry
            /\ lastSeenSeq = eventLog[Len(eventLog)].seq
        BY <2>0, <2>1, <3>2 DEF ViewSane
      <4>2. eventLog[Len(eventLog)].seq < entries
        BY <2>0, <4>1 DEF ViewSane, Sane
      <4>3. entries \in 0..MaxEntries
        BY <2>0 DEF StoreSane
      <4> QED BY <2>f, <4>1, <4>2, <4>3, Bounds
    <3> QED BY <3>1, <3>2
  <2>3. \A i \in 1..Len(store) - 1 : store[i].seq < store[i + 1].seq
    <3> TAKE i \in 1..Len(store) - 1
    <3>1. i \in DOMAIN store /\ i + 1 \in DOMAIN store /\ i < i + 1
      BY <2>f
    <3> QED BY <2>0, <3>1 DEF StoreSane, Increasing
  <2> QED BY <2>0, <2>1, <2>2, <2>3 DEF StoreSane, TypeOK
<1> QED BY <1>1, InitSane, StepSane, PTL DEF Spec

(* However announcements and answers overlap, the table of the manager page *)
(* shows no entry twice or out of order, and leaves out none that the log   *)
(* holds between two it shows (manager.mjs: handleEvent, refreshState).     *)
THEOREM ViewIsFaithful == Spec => []ViewFaithful
PROOF
<1>1. IInv => ViewFaithful
  <2> SUFFICES ASSUME IInv PROVE ViewFaithful
    OBVIOUS
  <2>1. Whole(eventLog, store)
    BY DEF IInv, ViewSane, Sane
  <2> QED BY <2>1 DEF Whole, Between, ViewFaithful
<1> QED BY <1>1, InitSane, StepSane, PTL DEF Spec
===============================================================================
