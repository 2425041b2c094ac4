--------------------------- MODULE SequenceLemmas ---------------------------
(***************************************************************************)
(* Facts about natural numbers and sequences that the proofs share: a      *)
(* principle of induction, and what inserting and removing does to the     *)
(* members of a sequence.                                                  *)
(***************************************************************************)
EXTENDS Integers, Sequences, SequencesExt, WellFoundedInduction,
        SequenceTheorems, TLAPS

-----------------------------------------------------------------------------
(* Induction.                                                              *)

Smaller == {ss \in Nat \X Nat : ss[1] < ss[2]}

\* Among natural numbers there is a smallest one.  The proofs by induction
\* below look at the smallest number for which the claim would be wrong.
LEMMA LeastElement ==
  ASSUME NEW S \in SUBSET Nat, S # {}
  PROVE  \E m \in S : \A n \in S : m <= n
<1>1. IsWellFoundedOn(Smaller, Nat)
  BY NatLessThanWellFounded, Zenon DEF OpToRel, Smaller
<1>2. \E x \in S : \A y \in S : ~ (<<y, x>> \in Smaller)
  BY <1>1, WFMin
<1>3. PICK x \in S : \A y \in S : ~ (<<y, x>> \in Smaller)
  BY <1>2
<1>4. ASSUME NEW n \in S PROVE x <= n
  <2>1. ~ (<<n, x>> \in Smaller) BY <1>3
  <2>2. n \in Nat /\ x \in Nat OBVIOUS
  <2> QED BY <2>1, <2>2 DEF Smaller
<1> QED BY <1>4

\* What a loop keeps from round to round holds after all of them.
LEMMA CountUp ==
  ASSUME NEW n \in Nat, NEW S, 0 \in S, \A k \in 0 .. (n - 1) : k \in S => k + 1 \in S
  PROVE  \A k \in 0 .. n : k \in S
<1> DEFINE T == {k \in 0 .. n : k \notin S}
<1> SUFFICES ASSUME T # {} PROVE FALSE
  OBVIOUS
<1>1. T \in SUBSET Nat
  OBVIOUS
<1>2. PICK l \in T : \A k \in T : l <= k
  BY <1>1, LeastElement
<1>3. l # 0 /\ l - 1 \in 0 .. (n - 1) /\ l - 1 \notin T
  BY <1>2
<1>4. l - 1 \in S /\ (l - 1) + 1 = l
  BY <1>3
<1> QED BY <1>2, <1>3, <1>4

-----------------------------------------------------------------------------
(* Products and quotients.                                                 *)

LEMMA DivisionFacts ==
  ASSUME NEW a \in Nat, NEW b \in Nat \ {0}
  PROVE  /\ a \div b \in Nat /\ a % b \in 0 .. (b - 1)
         /\ a = (a \div b) * b + (a % b)
OBVIOUS

LEMMA TimesOrdered ==
  \A x, y, z \in Nat : x * z \in Nat /\ (x <= y => x * z <= y * z)
OBVIOUS

-----------------------------------------------------------------------------
(* What the three sequence operators that stand for the queue routines of  *)
(* queues.c do to the members of a queue: Append (_q_insert without an     *)
(* order), InsertAt (_q_insert into an ordered queue), Tail (_q_remove).   *)

(* Where the members of a queue are once p is behind the first n of them.  *)
LEMMA InsertAtElements ==
  ASSUME NEW S, NEW s \in Seq(S), NEW p \in S, NEW n \in 0 .. Len(s),
         NEW t, t = InsertAt(s, n + 1, p)
  PROVE  /\ t \in Seq(S) /\ Len(t) = Len(s) + 1 /\ t[n + 1] = p
         /\ \A i \in 1 .. n : t[i] = s[i]
         /\ \A i \in n + 2 .. Len(s) + 1 : t[i] = s[i - 1]
<1> DEFINE a == SubSeq(s, 1, (n + 1) - 1)
<1> DEFINE b == SubSeq(s, n + 1, Len(s))
<1>1. a \in Seq(S) /\ Len(a) = n /\ \A i \in 1 .. n : a[i] = s[i]
  OBVIOUS
<1>2. /\ b \in Seq(S) /\ Len(b) = Len(s) - n
      /\ \A i \in 1 .. Len(s) - n : b[i] = s[n + i]
  OBVIOUS
<1>3. <<p>> \in Seq(S) /\ Len(<<p>>) = 1 /\ <<p>>[1] = p
  OBVIOUS
<1>4. t = (a \o <<p>>) \o b
  BY Zenon DEF InsertAt
<1> HIDE DEF a, b
<1> DEFINE c == a \o <<p>>
<1>5. /\ c \in Seq(S) /\ Len(c) = n + 1 /\ c[n + 1] = p
      /\ \A i \in 1 .. n : c[i] = s[i]
  BY <1>1, <1>3
<1>6. t = c \o b
  BY <1>4
<1> HIDE DEF c
<1>7. /\ c \o b \in Seq(S) /\ Len(c \o b) = Len(s) + 1
      /\ \A i \in 1 .. n + 1 : (c \o b)[i] = c[i]
      /\ \A i \in n + 2 .. Len(s) + 1 : (c \o b)[i] = b[i - (n + 1)]
  <2>1. c \in Seq(S) /\ b \in Seq(S) /\ Len(c) = n + 1 /\ Len(c) + Len(b) = Len(s) + 1
    BY <1>2, <1>5
  <2>2. /\ c \o b \in Seq(S) /\ Len(c \o b) = Len(c) + Len(b)
        /\ \A i \in 1 .. Len(c) + Len(b) :
             (c \o b)[i] = IF i <= Len(c) THEN c[i] ELSE b[i - Len(c)]
    BY <2>1, ConcatProperties
  <2>3. ASSUME NEW i \in 1 .. n + 1 PROVE (c \o b)[i] = c[i]
    <3>1. i \in 1 .. Len(c) + Len(b) /\ i <= Len(c)
      BY <2>1
    <3> QED BY <3>1, <2>2
  <2>4. ASSUME NEW i \in n + 2 .. Len(s) + 1 PROVE (c \o b)[i] = b[i - (n + 1)]
    <3>1. i \in 1 .. Len(c) + Len(b) /\ ~(i <= Len(c))
      BY <2>1
    <3> QED BY <3>1, <2>1, <2>2
  <2> QED BY <2>1, <2>2, <2>3, <2>4
<1>8. ASSUME NEW i \in n + 2 .. Len(s) + 1 PROVE (c \o b)[i] = s[i - 1]
  <2>1. i - (n + 1) \in 1 .. Len(s) - n /\ n + (i - (n + 1)) = i - 1
    OBVIOUS
  <2> QED BY <2>1, <1>2, <1>7
<1>9. \A i \in 1 .. n : t[i] = s[i]
  BY <1>5, <1>6, <1>7
<1>10. t[n + 1] = p
  BY <1>5, <1>6, <1>7
<1> QED BY <1>6, <1>7, <1>8, <1>9, <1>10

(* Inserting p behind the first n members of a queue.                      *)
LEMMA InsertAtFacts ==
  ASSUME NEW S, NEW s \in Seq(S), NEW p \in S, NEW n \in 0 .. Len(s),
         NEW t, t = InsertAt(s, n + 1, p)
  PROVE  /\ t \in Seq(S)
         /\ \A r : Contains(t, r) <=> Contains(s, r) \/ r = p
         /\ IsInjective(s) /\ ~Contains(s, p) => IsInjective(t)
<1>1. /\ t \in Seq(S) /\ Len(t) = Len(s) + 1 /\ t[n + 1] = p
      /\ \A i \in 1 .. n : t[i] = s[i]
      /\ \A i \in n + 2 .. Len(s) + 1 : t[i] = s[i - 1]
  <2>1. t \in Seq(S) /\ Len(t) = Len(s) + 1
    BY InsertAtElements
  <2>2. t[n + 1] = p
    BY InsertAtElements
  <2>3. \A i \in 1 .. n : t[i] = s[i]
    BY InsertAtElements
  <2>4. \A i \in n + 2 .. Len(s) + 1 : t[i] = s[i - 1]
    BY InsertAtElements
  <2> QED BY <2>1, <2>2, <2>3, <2>4
<1> DEFINE old(i) == IF i <= n THEN i ELSE i - 1
<1>2. ASSUME NEW i \in 1 .. Len(t), i # n + 1
      PROVE  old(i) \in 1 .. Len(s) /\ t[i] = s[old(i)]
  <2>1. CASE i <= n
    BY <2>1, <1>1
  <2>2. CASE i > n
    <3>1. i \in n + 2 .. Len(s) + 1 /\ i - 1 \in 1 .. Len(s)
      BY <2>2, <1>1, <1>2
    <3> QED BY <3>1, <2>2, <1>1
  <2> QED BY <2>1, <2>2
<1>3. ASSUME NEW r PROVE Contains(t, r) <=> Contains(s, r) \/ r = p
  <2>1. ASSUME Contains(t, r) PROVE Contains(s, r) \/ r = p
    <3>1. PICK i \in 1 .. Len(t) : t[i] = r
      BY <2>1 DEF Contains
    <3>2. CASE i = n + 1
      BY <3>1, <3>2, <1>1
    <3>3. CASE i # n + 1
      BY <3>1, <3>3, <1>2 DEF Contains
    <3> QED BY <3>2, <3>3
  <2>2. ASSUME Contains(s, r) PROVE Contains(t, r)
    <3>1. PICK i \in 1 .. Len(s) : s[i] = r
      BY <2>2 DEF Contains
    <3>2. CASE i <= n
      <4>1. i \in 1 .. Len(t) /\ t[i] = r
        BY <3>1, <3>2, <1>1
      <4> QED BY <4>1 DEF Contains
    <3>3. CASE i > n
      <4>1. i + 1 \in n + 2 .. Len(s) + 1 /\ (i + 1) - 1 = i
        BY <3>3
      <4>2. i + 1 \in 1 .. Len(t) /\ t[i + 1] = r
        BY <4>1, <3>1, <1>1
      <4> QED BY <4>2 DEF Contains
    <3> QED BY <3>2, <3>3
  <2>3. Contains(t, p)
    <3>1. n + 1 \in 1 .. Len(t)
      BY <1>1
    <3> QED BY <3>1, <1>1 DEF Contains
  <2> QED BY <2>1, <2>2, <2>3
<1>4. ASSUME IsInjective(s), ~Contains(s, p) PROVE IsInjective(t)
  <2>0. DOMAIN t = 1 .. Len(t) /\ DOMAIN s = 1 .. Len(s)
    BY <1>1
  <2> SUFFICES ASSUME NEW i \in 1 .. Len(t), NEW j \in 1 .. Len(t), t[i] = t[j]
               PROVE  i = j
    BY <2>0, Zenon DEF IsInjective
  <2>1. \A k \in 1 .. Len(s) : s[k] # p
    BY <1>4 DEF Contains
  <2>2. CASE i = n + 1 \/ j = n + 1
    <3>1. ASSUME NEW k \in 1 .. Len(t), k # n + 1 PROVE t[k] # p
      BY <3>1, <2>1, <1>2
    <3> QED BY <3>1, <2>2, <1>1
  <2>3. CASE i # n + 1 /\ j # n + 1
    <3>1. old(i) \in DOMAIN s /\ old(j) \in DOMAIN s /\ s[old(i)] = s[old(j)]
      BY <2>0, <2>3, <1>2
    <3>2. old(i) = old(j)
      BY <3>1, <1>4, Zenon DEF IsInjective
    <3> QED BY <3>2, <2>3
  <2> QED BY <2>2, <2>3
<1> QED BY <1>1, <1>3, <1>4

(* Adding p behind the last member of a queue.                             *)
LEMMA AppendFacts ==
  ASSUME NEW S, NEW s \in Seq(S), NEW p \in S
  PROVE  /\ Append(s, p) \in Seq(S)
         /\ \A r : Contains(Append(s, p), r) <=> Contains(s, r) \/ r = p
         /\ IsInjective(s) /\ ~Contains(s, p) => IsInjective(Append(s, p))
<1> DEFINE t == Append(s, p)
<1>1. /\ t \in Seq(S) /\ Len(t) = Len(s) + 1 /\ t[Len(s) + 1] = p
      /\ \A i \in 1 .. Len(s) : t[i] = s[i]
  BY AppendProperties
<1> HIDE DEF t
<1>2. \A r : Contains(t, r) <=> Contains(s, r) \/ r = p
  BY <1>1 DEF Contains
<1>3. ASSUME IsInjective(s), ~Contains(s, p) PROVE IsInjective(t)
  BY <1>1, <1>3 DEF IsInjective, Contains
<1> QED BY <1>1, <1>2, <1>3 DEF t

(* Taking the head off a queue.                                            *)
LEMMA TailFacts ==
  ASSUME NEW S, NEW s \in Seq(S), s # <<>>, IsInjective(s)
  PROVE  /\ Head(s) \in S
         /\ Contains(s, Head(s))
         /\ Tail(s) \in Seq(S)
         /\ IsInjective(Tail(s))
         /\ \A r : Contains(Tail(s), r) <=> Contains(s, r) /\ r # Head(s)
<1> DEFINE t == Tail(s)
<1>1. /\ t \in Seq(S) /\ Len(t) = Len(s) - 1 /\ Len(s) \in Nat \ {0}
      /\ \A i \in 1 .. Len(t) : t[i] = s[i + 1]
      /\ Head(s) = s[1] /\ Head(s) \in S
  BY HeadTailProperties
<1> HIDE DEF t
<1>2. \A i, j \in 1 .. Len(s) : s[i] = s[j] => i = j
  BY DEF IsInjective
<1>3. Contains(s, Head(s))
  BY <1>1 DEF Contains
<1>4. IsInjective(t)
  BY <1>1, <1>2 DEF IsInjective
<1>5. ASSUME NEW r, Contains(t, r) PROVE Contains(s, r) /\ r # Head(s)
  <2>1. PICK i \in 1 .. Len(t) : t[i] = r
    BY <1>5 DEF Contains
  <2>2. i + 1 \in 1 .. Len(s) /\ s[i + 1] = r /\ i + 1 # 1
    BY <2>1, <1>1
  <2> QED BY <2>2, <1>1, <1>2 DEF Contains
<1>6. ASSUME NEW r, Contains(s, r), r # Head(s) PROVE Contains(t, r)
  <2>1. PICK i \in 1 .. Len(s) : s[i] = r
    BY <1>6 DEF Contains
  <2>2. i # 1
    BY <2>1, <1>1, <1>6
  <2>3. i - 1 \in 1 .. Len(t) /\ t[i - 1] = r
    BY <2>1, <2>2, <1>1
  <2> QED BY <2>3 DEF Contains
<1> QED BY <1>1, <1>3, <1>4, <1>5, <1>6 DEF t

(* Where the members are once the one at n is taken out.                   *)
LEMMA RemoveAtElements ==
  ASSUME NEW S, NEW s \in Seq(S), NEW n \in 1 .. Len(s),
         NEW t, t = RemoveAt(s, n)
  PROVE  /\ t \in Seq(S) /\ Len(t) = Len(s) - 1
         /\ \A i \in 1 .. n - 1 : t[i] = s[i]
         /\ \A i \in n .. Len(s) - 1 : t[i] = s[i + 1]
<1> DEFINE a == SubSeq(s, 1, n - 1)
<1> DEFINE b == SubSeq(s, n + 1, Len(s))
<1>1. a \in Seq(S) /\ Len(a) = n - 1 /\ \A i \in 1 .. n - 1 : a[i] = s[i]
  OBVIOUS
<1>2. /\ b \in Seq(S) /\ Len(b) = Len(s) - n
      /\ \A i \in 1 .. Len(s) - n : b[i] = s[n + i]
  OBVIOUS
<1>3. t = a \o b
  BY Zenon DEF RemoveAt
<1> HIDE DEF a, b
<1>4. /\ a \o b \in Seq(S) /\ Len(a \o b) = Len(a) + Len(b)
      /\ \A i \in 1 .. Len(a) + Len(b) :
           (a \o b)[i] = IF i <= Len(a) THEN a[i] ELSE b[i - Len(a)]
  BY <1>1, <1>2, ConcatProperties
<1>5. ASSUME NEW i \in 1 .. n - 1 PROVE t[i] = s[i]
  <2>1. i \in 1 .. Len(a) + Len(b) /\ i <= Len(a)
    BY <1>1, <1>2
  <2> QED BY <2>1, <1>1, <1>3, <1>4
<1>6. ASSUME NEW i \in n .. Len(s) - 1 PROVE t[i] = s[i + 1]
  <2>1. i \in 1 .. Len(a) + Len(b) /\ ~(i <= Len(a))
    BY <1>1, <1>2
  <2>2. i - Len(a) \in 1 .. Len(s) - n /\ n + (i - Len(a)) = i + 1
    BY <1>1
  <2> QED BY <2>1, <2>2, <1>2, <1>3, <1>4
<1>7. t \in Seq(S) /\ Len(t) = Len(s) - 1
  BY <1>1, <1>2, <1>3, <1>4
<1> QED BY <1>5, <1>6, <1>7

(* The two lemmas as predicates, which are easier to cite.                 *)

\* t is s with p behind the first n members.
IsInserted(t, s, n, p) ==
  /\ Len(t) = Len(s) + 1 /\ t[n + 1] = p
  /\ \A i \in 1 .. n : t[i] = s[i]
  /\ \A i \in n + 2 .. Len(s) + 1 : t[i] = s[i - 1]

\* t is s without its n-th member.
IsRemoved(t, s, n) ==
  /\ Len(t) = Len(s) - 1
  /\ \A i \in 1 .. n - 1 : t[i] = s[i]
  /\ \A i \in n .. Len(s) - 1 : t[i] = s[i + 1]

LEMMA InsertAtInserts ==
  ASSUME NEW S, NEW s \in Seq(S), NEW p \in S, NEW n \in 0 .. Len(s)
  PROVE  InsertAt(s, n + 1, p) \in Seq(S) /\ IsInserted(InsertAt(s, n + 1, p), s, n, p)
<1> PICK t : t = InsertAt(s, n + 1, p)
  OBVIOUS
<1>1. t \in Seq(S) /\ Len(t) = Len(s) + 1
  BY InsertAtElements
<1>2. t[n + 1] = p
  BY InsertAtElements
<1>3. \A i \in 1 .. n : t[i] = s[i]
  BY InsertAtElements
<1>4. \A i \in n + 2 .. Len(s) + 1 : t[i] = s[i - 1]
  BY InsertAtElements
<1> QED BY <1>1, <1>2, <1>3, <1>4 DEF IsInserted

LEMMA RemoveAtRemoves ==
  ASSUME NEW S, NEW s \in Seq(S), NEW n \in 1 .. Len(s)
  PROVE  RemoveAt(s, n) \in Seq(S) /\ IsRemoved(RemoveAt(s, n), s, n)
<1> PICK t : t = RemoveAt(s, n)
  OBVIOUS
<1>1. t \in Seq(S) /\ Len(t) = Len(s) - 1
  BY RemoveAtElements
<1>2. \A i \in 1 .. n - 1 : t[i] = s[i]
  BY RemoveAtElements
<1>3. \A i \in n .. Len(s) - 1 : t[i] = s[i + 1]
  BY RemoveAtElements
<1> QED BY <1>1, <1>2, <1>3 DEF IsRemoved

\* The members afterwards are the members before, but for the one inserted or
\* removed.
LEMMA InsertedMembers ==
  ASSUME NEW s, NEW t, NEW p \in 0 .. Len(s), NEW n, IsInserted(t, s, p, n),
         Len(s) \in Nat, NEW k \in 1 .. Len(t)
  PROVE  t[k] = n \/ \E j \in 1 .. Len(s) : t[k] = s[j]
<1>1. CASE k <= p
  <2>1. k \in 1 .. p /\ k \in 1 .. Len(s)
    BY <1>1
  <2> QED BY <2>1 DEF IsInserted
<1>2. CASE k = p + 1
  BY <1>2 DEF IsInserted
<1>3. CASE k > p + 1
  <2>1. k \in p + 2 .. Len(s) + 1 /\ k - 1 \in 1 .. Len(s)
    BY <1>3 DEF IsInserted
  <2> QED BY <2>1 DEF IsInserted
<1> QED BY <1>1, <1>2, <1>3

LEMMA RemovedMembers ==
  ASSUME NEW s, NEW t, NEW p \in 1 .. Len(s), IsRemoved(t, s, p),
         Len(s) \in Nat, NEW k \in 1 .. Len(t)
  PROVE  \E j \in 1 .. Len(s) : t[k] = s[j]
<1>1. CASE k <= p - 1
  <2>1. k \in 1 .. p - 1 /\ k \in 1 .. Len(s)
    BY <1>1
  <2> QED BY <2>1 DEF IsRemoved
<1>2. CASE k > p - 1
  <2>1. k \in p .. Len(s) - 1 /\ k + 1 \in 1 .. Len(s)
    BY <1>2 DEF IsRemoved
  <2> QED BY <2>1 DEF IsRemoved
<1> QED BY <1>1, <1>2

\* No member is doubled by inserting a new one or by removing one.
LEMMA InsertedApart ==
  ASSUME NEW s, NEW t, NEW p \in 0 .. Len(s), NEW n, IsInserted(t, s, p, n),
         Len(s) \in Nat, \A i \in 1 .. Len(s) : s[i] # n,
         \A i, j \in 1 .. Len(s) : s[i] = s[j] => i = j,
         NEW i \in 1 .. Len(t), NEW j \in 1 .. Len(t), t[i] = t[j]
  PROVE  i = j
<1> DEFINE Old(k) == IF k <= p THEN k ELSE k - 1
<1>1. Len(t) = Len(s) + 1 /\ t[p + 1] = n
  BY DEF IsInserted
<1>2. ASSUME NEW k \in 1 .. Len(t), k # p + 1
      PROVE  Old(k) \in 1 .. Len(s) /\ t[k] = s[Old(k)]
  <2>1. CASE k <= p
    <3>1. k \in 1 .. p /\ k \in 1 .. Len(s)
      BY <2>1
    <3> QED BY <2>1, <3>1 DEF IsInserted
  <2>2. CASE ~(k <= p)
    <3>1. k \in p + 2 .. Len(s) + 1 /\ k - 1 \in 1 .. Len(s)
      BY <1>1, <1>2, <2>2
    <3> QED BY <2>2, <3>1 DEF IsInserted
  <2> QED BY <2>1, <2>2
<1>3. CASE i = p + 1
  <2>1. CASE j = p + 1
    BY <1>3, <2>1
  <2>2. CASE j # p + 1
    BY <1>1, <1>2, <1>3, <2>2
  <2> QED BY <2>1, <2>2
<1>4. CASE i # p + 1
  <2>1. CASE j = p + 1
    BY <1>1, <1>2, <1>4, <2>1
  <2>2. CASE j # p + 1
    <3>1. Old(i) = Old(j)
      BY <1>2, <1>4, <2>2
    <3> QED BY <3>1, <1>4, <2>2
  <2> QED BY <2>1, <2>2
<1> QED BY <1>3, <1>4

LEMMA RemovedApart ==
  ASSUME NEW s, NEW t, NEW p \in 1 .. Len(s), IsRemoved(t, s, p), Len(s) \in Nat,
         \A i, j \in 1 .. Len(s) : s[i] = s[j] => i = j,
         NEW i \in 1 .. Len(t)
  PROVE  /\ t[i] # s[p]
         /\ \A j \in 1 .. Len(t) : t[i] = t[j] => i = j
<1> DEFINE Old(k) == IF k < p THEN k ELSE k + 1
<1>1. Len(t) = Len(s) - 1
  BY DEF IsRemoved
<1>2. ASSUME NEW k \in 1 .. Len(t)
      PROVE  Old(k) \in 1 .. Len(s) /\ t[k] = s[Old(k)] /\ Old(k) # p
  <2>1. CASE k < p
    <3>1. k \in 1 .. p - 1 /\ k \in 1 .. Len(s) /\ k # p
      BY <2>1
    <3> QED BY <2>1, <3>1 DEF IsRemoved
  <2>2. CASE ~(k < p)
    <3>1. k \in p .. Len(s) - 1 /\ k + 1 \in 1 .. Len(s) /\ k + 1 # p
      BY <1>1, <2>2
    <3> QED BY <2>2, <3>1 DEF IsRemoved
  <2> QED BY <2>1, <2>2
<1>3. ASSUME NEW j \in 1 .. Len(t), t[i] = t[j] PROVE i = j
  <2>1. Old(i) = Old(j)
    BY <1>2, <1>3
  <2> QED BY <2>1
<1>4. t[i] # s[p]
  BY <1>2
<1> QED BY <1>3, <1>4
=============================================================================
