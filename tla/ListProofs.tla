----------------------------- MODULE ListProofs -----------------------------
(***************************************************************************)
(* What the calls of the linked list (LinkedList, ListCalls) and of the    *)
(* priority queues (QueueLinks) do to their nodes, for every number of     *)
(* nodes and every sequence of calls; and what the desktop keeps that is   *)
(* built on the list: every packet of the mouse becomes one event, handled *)
(* in order wherever the interrupt falls, and goes to the window on top of *)
(* a stack that can be walked both ways; and the list of PCI devices,      *)
(* which has every device once, its registers as they were.                *)
(***************************************************************************)
EXTENDS ListCalls, QueueLinks, Desktop, PCI, SequenceLemmas, FiniteSetTheorems

-----------------------------------------------------------------------------
(* The linked list.                                                        *)

\* The fields of a list, with data from D.
Fields(l, D) ==
  l \in [size : Int, head : ListAddress, tail : ListAddress,
         next : [ListAddress -> ListAddress],
         prev : [ListAddress -> ListAddress], data : [ListAddress -> D]]

\* Sequence s is a list of elements, none of them twice.
Distinct(s) ==
  /\ s \in Seq(Element)
  /\ \A i, j \in 1 .. Len(s) : s[i] = s[j] => i = j

\* n is not in s.
Fresh(s, n) == \A k \in 1 .. Len(s) : s[k] # n

\* The next pointers, the head, the tail and the size of l are those of s.
Chained(l, s) ==
  /\ l.head = IF s = <<>> THEN Null ELSE s[1]
  /\ l.tail = IF s = <<>> THEN Null ELSE s[Len(s)]
  /\ l.size = Len(s)
  /\ \A k \in 1 .. Len(s) :
       l.next[s[k]] = IF k = Len(s) THEN Null ELSE s[k + 1]

\* The prev pointers are those of s.
ChainedBack(l, s) ==
  \A k \in 1 .. Len(s) : l.prev[s[k]] = IF k = 1 THEN Null ELSE s[k - 1]

\* What a walk over s reads, and then Null.
Trace(s, limit) ==
  [k \in 1 .. limit |-> IF k <= Len(s) THEN s[k] ELSE Null]

\* What Forward calls node: a walk over the pointers next from start.
IsWalk(node, start, next, limit) ==
  node = [k \in 1 .. limit |->
            IF k = 1 THEN start
            ELSE IF node[k - 1] = Null THEN Null ELSE next[node[k - 1]]]

LEMMA WalkStep ==
  ASSUME NEW node, NEW start, NEW next, NEW limit \in Nat,
         IsWalk(node, start, next, limit), NEW k \in 1 .. limit
  PROVE  node[k] = IF k = 1 THEN start
                   ELSE IF node[k - 1] = Null THEN Null ELSE next[node[k - 1]]
BY DEF IsWalk

LEMMA OneWalk ==
  ASSUME NEW f, NEW g, NEW start, NEW next, NEW limit \in Nat,
         IsWalk(f, start, next, limit), IsWalk(g, start, next, limit)
  PROVE  f = g
<1> DEFINE Wrong == {k \in 1 .. limit : f[k] # g[k]}
<1>1. CASE Wrong = {}
  <2>1. [k \in 1 .. limit |-> f[k]] = [k \in 1 .. limit |-> g[k]]
    BY <1>1
  <2>2. f = [k \in 1 .. limit |-> f[k]] /\ g = [k \in 1 .. limit |-> g[k]]
    BY DEF IsWalk
  <2> QED BY <2>1, <2>2
<1>2. CASE Wrong # {}
  <2>1. PICK m \in Wrong : \A k \in Wrong : m <= k
    <3>1. Wrong \in SUBSET Nat OBVIOUS
    <3> HIDE DEF Wrong
    <3> QED BY <3>1, <1>2, LeastElement
  <2>2. m \in 1 .. limit /\ f[m] # g[m]
    BY <2>1
  <2>3. m # 1 => m - 1 \in 1 .. limit /\ f[m - 1] = g[m - 1]
    BY <2>1, <2>2
  <2> HIDE DEF Wrong
  <2>4. f[m] = IF m = 1 THEN start
               ELSE IF f[m - 1] = Null THEN Null ELSE next[f[m - 1]]
    BY <2>2, WalkStep
  <2>5. g[m] = IF m = 1 THEN start
               ELSE IF g[m - 1] = Null THEN Null ELSE next[g[m - 1]]
    BY <2>2, WalkStep
  <2> QED BY <2>2, <2>3, <2>4, <2>5
<1> QED BY <1>1, <1>2

LEMMA TraceIsWalk ==
  ASSUME NEW s, Distinct(s), NEW limit \in Nat, Len(s) <= limit,
         NEW start, NEW next,
         start = IF s = <<>> THEN Null ELSE s[1],
         \A k \in 1 .. Len(s) :
           next[s[k]] = IF k = Len(s) THEN Null ELSE s[k + 1]
  PROVE  IsWalk(Trace(s, limit), start, next, limit)
<1> DEFINE t == Trace(s, limit)
           n == Len(s)
<1>s. s \in Seq(Element) /\ n \in Nat /\ (s = <<>> <=> n = 0)
  BY DEF Distinct
<1>0. ASSUME NEW k \in 1 .. n PROVE s[k] # Null
  BY <1>s, NullIsNoElement
<1>t. \A k \in 1 .. limit : t[k] = IF k <= n THEN s[k] ELSE Null
  BY DEF Trace
<1>d. t = [k \in 1 .. limit |-> t[k]]
  BY DEF Trace
<1> HIDE DEF t
<1>1. ASSUME NEW k \in 1 .. limit
      PROVE  t[k] = IF k = 1 THEN start
                    ELSE IF t[k - 1] = Null THEN Null ELSE next[t[k - 1]]
  <2>1. CASE k = 1
    BY <2>1, <1>s, <1>t
  <2>2. CASE k # 1 /\ k - 1 <= n
    <3>1. k - 1 \in 1 .. n /\ k - 1 \in 1 .. limit
      BY <2>2, <1>s
    <3>2. t[k - 1] = s[k - 1] /\ s[k - 1] # Null
      BY <3>1, <1>0, <1>t, <1>s
    <3>3. next[s[k - 1]] = IF k - 1 = n THEN Null ELSE s[(k - 1) + 1]
      BY <3>1, <1>s
    <3>4. (k - 1) + 1 = k OBVIOUS
    <3>5. t[k] = IF k <= n THEN s[k] ELSE Null
      BY <1>t
    <3>6. k <= n <=> k - 1 # n
      BY <2>2, <1>s
    <3> QED BY <2>2, <3>2, <3>3, <3>4, <3>5, <3>6
  <2>3. CASE k # 1 /\ k - 1 > n
    <3>1. k - 1 \in 1 .. limit /\ ~ (k - 1 <= n) /\ ~ (k <= n)
      BY <2>3, <1>s
    <3> QED BY <2>3, <3>1, <1>t
  <2> QED BY <2>1, <2>2, <2>3, <1>s
<1>2. [k \in 1 .. limit |-> t[k]] =
        [k \in 1 .. limit |-> IF k = 1 THEN start
                             ELSE IF t[k - 1] = Null THEN Null ELSE next[t[k - 1]]]
  BY <1>1
<1>3. IsWalk(t, start, next, limit)
  BY <1>2, <1>d, Zenon DEF IsWalk
<1> QED BY <1>3 DEF t

\* A walk over the next pointers reads s when the start is the first of s and
\* they lead from each of s to the next.
LEMMA WalkReads ==
  ASSUME NEW l, NEW s, Distinct(s), NEW limit \in Nat, Len(s) <= limit,
         l.head = IF s = <<>> THEN Null ELSE s[1],
         \A k \in 1 .. Len(s) :
           l.next[s[k]] = IF k = Len(s) THEN Null ELSE s[k + 1]
  PROVE  Forward(l, limit) = s
<1> DEFINE node == CHOOSE h : h = [k \in 1 .. limit |->
             IF k = 1 THEN l.head
             ELSE IF h[k - 1] = Null THEN Null ELSE l.next[h[k - 1]]]
    t == Trace(s, limit)
    n == Len(s)
<1>s. s \in Seq(Element) /\ n \in Nat
  BY DEF Distinct
<1>1. IsWalk(t, l.head, l.next, limit)
  BY TraceIsWalk
<1>2. IsWalk(node, l.head, l.next, limit)
  BY <1>1 DEF IsWalk
<1>3. node = t
  BY <1>1, <1>2, OneWalk
<1>4. Forward(l, limit) = [k \in {j \in 1 .. limit : node[j] # Null} |-> node[k]]
  BY DEF Forward
<1>5. {j \in 1 .. limit : t[j] # Null} = 1 .. n
  <2>1. ASSUME NEW k \in 1 .. n PROVE s[k] # Null
    BY <1>s, NullIsNoElement
  <2> QED BY <2>1, <1>s DEF Trace
<1>6. Forward(l, limit) = [k \in 1 .. n |-> t[k]]
  BY <1>3, <1>4, <1>5
<1> QED BY <1>6, <1>s DEF Trace

\* So a walk reads a whole chain.
LEMMA ChainRead ==
  ASSUME NEW l, NEW s, Distinct(s), Chained(l, s)
  PROVE  Forward(l, Len(s) + 1) = s
<1>1. Len(s) + 1 \in Nat /\ Len(s) <= Len(s) + 1
  BY DEF Distinct
<1>2. /\ l.head = IF s = <<>> THEN Null ELSE s[1]
      /\ \A k \in 1 .. Len(s) :
           l.next[s[k]] = IF k = Len(s) THEN Null ELSE s[k + 1]
  BY DEF Chained
<1> DEFINE limit == Len(s) + 1
<1> HIDE DEF limit
<1>3. limit \in Nat /\ Len(s) <= limit
  BY <1>1 DEF limit
<1>4. Forward(l, limit) = s
  BY <1>2, <1>3, WalkReads
<1> QED BY <1>4 DEF limit

\* A walk over the prev pointers from the tail reads s backwards.
LEMMA WalkReadsBack ==
  ASSUME NEW l, NEW D, Fields(l, D), NEW s, Distinct(s), Chained(l, s),
         ChainedBack(l, s), NEW limit \in Nat, Len(s) <= limit
  PROVE  Backward(l, limit) = Reverse(s)
<1> DEFINE n == Len(s)
           r == Reverse(s)
           m == [l EXCEPT !.head = l.tail, !.next = l.prev]
<1>0. s \in Seq(Element) /\ n \in Nat /\ (s = <<>> <=> n = 0)
  BY DEF Distinct
<1>1. /\ r \in Seq(Element) /\ Len(r) = n
      /\ \A k \in 1 .. n : r[k] = s[(n - k) + 1]
  BY <1>0 DEF Reverse
<1>2. m.head = l.tail /\ m.next = l.prev
  BY DEF Fields
<1>3. Backward(l, limit) = Forward(m, limit)
  BY DEF Backward
<1> HIDE DEF r, m
<1>4. Distinct(r)
  <2> SUFFICES ASSUME NEW i \in 1 .. n, NEW j \in 1 .. n, r[i] = r[j] PROVE i = j
    BY <1>1 DEF Distinct
  <2>1. (n - i) + 1 \in 1 .. n /\ (n - j) + 1 \in 1 .. n
    BY <1>0
  <2>2. (n - i) + 1 = (n - j) + 1
    BY <2>1, <1>1 DEF Distinct
  <2> QED BY <2>2, <1>0
<1>5. m.head = IF r = <<>> THEN Null ELSE r[1]
  <2>1. r = <<>> <=> n = 0
    BY <1>1
  <2>2. n # 0 => r[1] = s[n]
    BY <1>0, <1>1
  <2> QED BY <2>1, <2>2, <1>0, <1>2 DEF Chained
<1>6. ASSUME NEW k \in 1 .. Len(r)
      PROVE  m.next[r[k]] = IF k = Len(r) THEN Null ELSE r[k + 1]
  <2> DEFINE j == (n - k) + 1
  <2>1. j \in 1 .. n /\ r[k] = s[j] /\ (j = 1 <=> k = n)
    BY <1>0, <1>1
  <2>2. l.prev[s[j]] = IF j = 1 THEN Null ELSE s[j - 1]
    BY <2>1 DEF ChainedBack
  <2>3. k # n => r[k + 1] = s[j - 1]
    <3>1. ASSUME k # n PROVE r[k + 1] = s[j - 1]
      <4>1. k + 1 \in 1 .. n /\ (n - (k + 1)) + 1 = j - 1
        BY <3>1, <1>0, <1>1
      <4> QED BY <4>1, <1>1
    <3> QED BY <3>1
  <2> QED BY <2>1, <2>2, <2>3, <1>1, <1>2
<1>7. Len(r) <= limit
  BY <1>1
<1>8. Forward(m, limit) = r
  BY <1>4, <1>5, <1>6, <1>7, WalkReads
<1> QED BY <1>3, <1>8 DEF r

-----------------------------------------------------------------------------
(* The steps of the list.                                                  *)

\* Inserting in front of the head.
LEMMA HeadInserted ==
  ASSUME NEW D, NEW l, Fields(l, D), NEW s, Distinct(s), Chained(l, s),
         NEW n \in Element, Fresh(s, n), NEW d \in D,
         NEW t, t = InsertAt(s, 1, n)
  PROVE  /\ Fields(InsertAtHead(l, n, d), D)
         /\ Distinct(t) /\ Chained(InsertAtHead(l, n, d), t)
         /\ ChainedBack(l, s) => ChainedBack(InsertAtHead(l, n, d), t)
         /\ InsertAtHead(l, n, d).data = [l.data EXCEPT ![n] = d]
<1> DEFINE m == InsertAtHead(l, n, d)
           L == Len(s)
<1>0. s \in Seq(Element) /\ L \in Nat /\ (s = <<>> <=> L = 0)
  BY DEF Distinct
<1>t. /\ t \in Seq(Element) /\ Len(t) = L + 1 /\ t[1] = n
      /\ \A i \in 2 .. L + 1 : t[i] = s[i - 1]
  <2>1. 0 \in 0 .. Len(s) /\ t = InsertAt(s, 0 + 1, n)
    BY <1>0
  <2>2. t \in Seq(Element) /\ Len(t) = L + 1
    BY <1>0, <2>1, InsertAtElements
  <2>3. t[0 + 1] = n
    BY <1>0, <2>1, InsertAtElements
  <2>4. \A i \in 0 + 2 .. L + 1 : t[i] = s[i - 1]
    BY <1>0, <2>1, InsertAtElements
  <2> QED BY <2>2, <2>3, <2>4
<1>1. /\ m.data = [l.data EXCEPT ![n] = d]
      /\ m.tail = IF l.size = 0 THEN n ELSE l.tail
      /\ m.prev = [x \in ListAddress |-> IF x = n THEN Null
                                        ELSE IF x = l.head /\ x # Null THEN n
                                        ELSE l.prev[x]]
      /\ m.next = [l.next EXCEPT ![n] = l.head]
      /\ m.head = n /\ m.size = l.size + 1
  BY DEF InsertAtHead, Fields
<1>2. Fields(m, D)
  <2>1. /\ m.data \in [ListAddress -> D] /\ m.tail \in ListAddress
        /\ m.prev \in [ListAddress -> ListAddress]
        /\ m.next \in [ListAddress -> ListAddress]
        /\ m.head \in ListAddress /\ m.size \in Int
    <3> HIDE DEF m
    <3> QED BY <1>1 DEF Fields, ListAddress
  <2>2. m = [size |-> m.size, head |-> m.head, tail |-> m.tail,
             next |-> m.next, prev |-> m.prev, data |-> m.data]
    BY DEF InsertAtHead
  <2> HIDE DEF m
  <2> QED BY <2>1, <2>2 DEF Fields
<1> HIDE DEF m
<1>4. Distinct(t)
  <2> SUFFICES ASSUME NEW i \in 1 .. L + 1, NEW j \in 1 .. L + 1, t[i] = t[j]
               PROVE  i = j
    BY <1>t DEF Distinct
  <2>1. ASSUME NEW k \in 2 .. L + 1 PROVE k - 1 \in 1 .. L /\ t[k] = s[k - 1] /\ t[k] # n
    BY <1>0, <1>t DEF Fresh
  <2>2. CASE i = 1 \/ j = 1
    BY <2>1, <2>2, <1>t
  <2>3. CASE i # 1 /\ j # 1
    <3>1. i \in 2 .. L + 1 /\ j \in 2 .. L + 1
      BY <2>3, <1>0
    <3>2. i - 1 = j - 1
      BY <3>1, <2>1 DEF Distinct
    <3> QED BY <3>2, <1>0
  <2> QED BY <2>2, <2>3
<1>5. Chained(m, t)
  <2>1. m.head = t[1] /\ t # <<>>
    BY <1>t, <1>1
  <2>2. m.tail = t[Len(t)]
    BY <1>0, <1>t, <1>1 DEF Chained
  <2>3. m.size = Len(t)
    BY <1>0, <1>t, <1>1 DEF Chained
  <2>4. ASSUME NEW k \in 1 .. Len(t)
        PROVE  m.next[t[k]] = IF k = Len(t) THEN Null ELSE t[k + 1]
    <3>1. CASE k = 1
      <4>1. m.next[n] = l.head
        BY <1>1 DEF Fields, ListAddress
      <4>2. L # 0 => t[1 + 1] = s[1]
        <5>1. L # 0 => 1 + 1 \in 2 .. L + 1 /\ (1 + 1) - 1 = 1
          BY <1>0
        <5> QED BY <5>1, <1>t
      <4>3. l.head = IF L = 0 THEN Null ELSE s[1]
        BY <1>0 DEF Chained
      <4>4. CASE L = 0
        BY <3>1, <4>1, <4>3, <4>4, <1>t
      <4>5. CASE L # 0
        <5>1. 1 # Len(t)
          BY <4>5, <1>0, <1>t
        <5> QED BY <3>1, <4>1, <4>2, <4>3, <4>5, <5>1, <1>t
      <4> QED BY <4>4, <4>5
    <3>2. CASE k # 1
      <4>1. k - 1 \in 1 .. L /\ t[k] = s[k - 1] /\ s[k - 1] \in Element
        BY <3>2, <1>0, <1>t
      <4>2. m.next[t[k]] = l.next[s[k - 1]]
        BY <4>1, <1>1 DEF Fields, ListAddress, Fresh
      <4>3. l.next[s[k - 1]] = IF k - 1 = L THEN Null ELSE s[(k - 1) + 1]
        BY <4>1 DEF Chained
      <4>4. k # L + 1 => t[k + 1] = s[(k - 1) + 1]
        BY <4>1, <1>0, <1>t
      <4> QED BY <4>2, <4>3, <4>4, <4>1, <1>0, <1>t
    <3> QED BY <3>1, <3>2
  <2> QED BY <2>1, <2>2, <2>3, <2>4 DEF Chained
<1>6. ASSUME ChainedBack(l, s) PROVE ChainedBack(m, t)
  <2>1. ASSUME NEW k \in 1 .. Len(t)
        PROVE  m.prev[t[k]] = IF k = 1 THEN Null ELSE t[k - 1]
    <3>1. CASE k = 1
      BY <3>1, <1>t, <1>1 DEF ListAddress
    <3>2. CASE k # 1
      <4>1. /\ k - 1 \in 1 .. L /\ t[k] = s[k - 1] /\ s[k - 1] \in Element
            /\ s[k - 1] # n /\ s[k - 1] # Null
        BY <3>2, <1>0, <1>t, NullIsNoElement DEF Fresh
      <4>2. l.prev[s[k - 1]] = IF k - 1 = 1 THEN Null ELSE s[(k - 1) - 1]
        BY <4>1, <1>6 DEF ChainedBack
      <4>3. s[k - 1] = l.head <=> k - 1 = 1
        <5>1. L # 0 /\ l.head = s[1] /\ 1 \in 1 .. L
          BY <4>1, <1>0 DEF Chained
        <5> QED BY <4>1, <5>1 DEF Distinct
      <4>4. m.prev[t[k]] = IF k - 1 = 1 THEN n ELSE l.prev[s[k - 1]]
        BY <4>1, <4>3, <1>1 DEF ListAddress
      <4>5. k - 1 # 1 => t[k - 1] = s[(k - 1) - 1]
        BY <4>1, <1>0, <1>t
      <4> QED BY <3>2, <4>2, <4>4, <4>5, <1>t, <1>0
    <3> QED BY <3>1, <3>2
  <2> QED BY <2>1 DEF ChainedBack
<1> QED BY <1>1, <1>2, <1>4, <1>5, <1>6 DEF m

\* Inserting n behind the p-th element keeps a sequence without repetition.
LEMMA DistinctInserted ==
  ASSUME NEW s, Distinct(s), NEW p \in 0 .. Len(s), NEW n \in Element,
         Fresh(s, n), NEW t, t = InsertAt(s, p + 1, n)
  PROVE  /\ Distinct(t) /\ Len(t) = Len(s) + 1 /\ t[p + 1] = n
         /\ \A i \in 1 .. p : t[i] = s[i]
         /\ \A i \in p + 2 .. Len(s) + 1 : t[i] = s[i - 1]
<1>0. s \in Seq(Element) /\ Len(s) \in Nat
  BY DEF Distinct
<1>1. t \in Seq(Element) /\ IsInserted(t, s, p, n)
  BY <1>0, InsertAtInserts
<1>2. Len(t) = Len(s) + 1 /\ t[p + 1] = n
  BY <1>1 DEF IsInserted
<1>3. \A i \in 1 .. p : t[i] = s[i]
  BY <1>1 DEF IsInserted
<1>4. \A i \in p + 2 .. Len(s) + 1 : t[i] = s[i - 1]
  BY <1>1 DEF IsInserted
<1>5. ASSUME NEW i \in 1 .. Len(t), NEW j \in 1 .. Len(t), t[i] = t[j] PROVE i = j
  BY <1>0, <1>1, <1>5, InsertedApart DEF Distinct, Fresh
<1> QED BY <1>1, <1>2, <1>3, <1>4, <1>5 DEF Distinct

\* Taking out the p-th element keeps one too.
LEMMA DistinctRemoved ==
  ASSUME NEW s, Distinct(s), NEW p \in 1 .. Len(s), NEW t, t = RemoveAt(s, p)
  PROVE  /\ Distinct(t) /\ Len(t) = Len(s) - 1
         /\ \A i \in 1 .. p - 1 : t[i] = s[i]
         /\ \A i \in p .. Len(s) - 1 : t[i] = s[i + 1]
<1>0. s \in Seq(Element) /\ Len(s) \in Nat
  BY DEF Distinct
<1>2. t \in Seq(Element) /\ IsRemoved(t, s, p)
  BY <1>0, RemoveAtRemoves
<1>1. t \in Seq(Element) /\ Len(t) = Len(s) - 1
  BY <1>2 DEF IsRemoved
<1>3. \A i \in 1 .. p - 1 : t[i] = s[i]
  BY <1>2 DEF IsRemoved
<1>4. \A i \in p .. Len(s) - 1 : t[i] = s[i + 1]
  BY <1>2 DEF IsRemoved
<1>5. ASSUME NEW i \in 1 .. Len(t), NEW j \in 1 .. Len(t), t[i] = t[j] PROVE i = j
  BY <1>0, <1>2, <1>5, RemovedApart DEF Distinct
<1> QED BY <1>1, <1>3, <1>4, <1>5 DEF Distinct

\* Inserting behind the p-th element.
LEMMA BehindInserted ==
  ASSUME NEW D, NEW l, Fields(l, D), NEW s, Distinct(s), Chained(l, s),
         NEW p \in 1 .. Len(s), NEW e, e = s[p],
         NEW n \in Element, Fresh(s, n), NEW d \in D,
         NEW t, t = InsertAt(s, p + 1, n)
  PROVE  /\ Fields(InsertBehind(l, e, n, d), D)
         /\ Chained(InsertBehind(l, e, n, d), t)
         /\ ChainedBack(l, s) => ChainedBack(InsertBehind(l, e, n, d), t)
         /\ InsertBehind(l, e, n, d).data = [l.data EXCEPT ![n] = d]
<1> DEFINE m == InsertBehind(l, e, n, d)
           L == Len(s)
           x == l.next[e]
<1>0. s \in Seq(Element) /\ L \in Nat /\ p \in 0 .. L /\ L # 0 /\ s # <<>>
  BY DEF Distinct
<1>t. /\ Len(t) = L + 1 /\ t[p + 1] = n /\ Distinct(t) /\ t # <<>>
      /\ \A i \in 1 .. p : t[i] = s[i]
      /\ \A i \in p + 2 .. L + 1 : t[i] = s[i - 1]
  <2>1. Len(t) = L + 1 /\ t[p + 1] = n /\ Distinct(t)
    BY <1>0, DistinctInserted
  <2>2. \A i \in 1 .. p : t[i] = s[i]
    BY <1>0, DistinctInserted
  <2>3. \A i \in p + 2 .. L + 1 : t[i] = s[i - 1]
    BY <1>0, DistinctInserted
  <2> QED BY <2>1, <2>2, <2>3, <1>0
<1>e. /\ e \in Element /\ e # n /\ n # Null /\ e # Null
      /\ x = IF p = L THEN Null ELSE s[p + 1]
      /\ x \in ListAddress /\ x # n
  <2>1. e \in Element /\ e # n /\ n # Null /\ e # Null
    BY <1>0, NullIsNoElement DEF Fresh
  <2>2. x = IF p = L THEN Null ELSE s[p + 1]
    BY DEF Chained
  <2>3. p # L => p + 1 \in 1 .. L
    BY <1>0
  <2>4. x \in ListAddress
    BY <2>2, <2>3, <1>0 DEF ListAddress
  <2>5. x # n
    BY <2>1, <2>2, <2>3 DEF Fresh
  <2> QED BY <2>1, <2>2, <2>4, <2>5
<1>1. /\ m.data = [l.data EXCEPT ![n] = d]
      /\ m.tail = IF x = Null THEN n ELSE l.tail
      /\ m.prev = [l.prev EXCEPT ![n] = e, ![x] = n]
      /\ m.next = [l.next EXCEPT ![n] = x, ![e] = n]
      /\ m.head = l.head /\ m.size = l.size + 1
      /\ m = [size |-> m.size, head |-> m.head, tail |-> m.tail,
              next |-> m.next, prev |-> m.prev, data |-> m.data]
  BY DEF InsertBehind
<1> HIDE DEF m, x
<1>2. Fields(m, D)
  <2>1. /\ m.data \in [ListAddress -> D] /\ m.tail \in ListAddress
        /\ m.head \in ListAddress /\ m.size \in Int
    BY <1>1, <1>e DEF Fields, ListAddress
  <2>2. m.prev \in [ListAddress -> ListAddress]
    BY <1>1, <1>e DEF Fields, ListAddress
  <2>3. m.next \in [ListAddress -> ListAddress]
    BY <1>1, <1>e DEF Fields, ListAddress
  <2> QED BY <2>1, <2>2, <2>3, <1>1 DEF Fields
<1>n. /\ m.next[n] = x /\ m.next[e] = n
      /\ \A y \in Element : y # n /\ y # e => m.next[y] = l.next[y]
  BY <1>1, <1>e DEF Fields, ListAddress
<1>p. /\ m.prev[n] = e /\ (x # Null => m.prev[x] = n)
      /\ \A y \in Element : y # n /\ y # x => m.prev[y] = l.prev[y]
  BY <1>1, <1>e DEF Fields, ListAddress
<1>5. Chained(m, t)
  <2>1. m.head = t[1] /\ t # <<>>
    <3>1. 1 \in 1 .. p
      BY <1>0
    <3>2. l.head = s[1]
      BY <1>0 DEF Chained
    <3> QED BY <3>1, <3>2, <1>t, <1>1
  <2>2. m.tail = t[Len(t)]
    <3>1. CASE p = L
      BY <3>1, <1>t, <1>e, <1>1
    <3>2. CASE p # L
      <4>1. p + 1 \in 1 .. L /\ L + 1 \in p + 2 .. L + 1
        BY <3>2, <1>0
      <4>2. x # Null
        BY <3>2, <4>1, <1>0, <1>e, NullIsNoElement
      <4>3. l.tail = s[L] /\ t[L + 1] = s[(L + 1) - 1]
        BY <4>1, <1>0, <1>t DEF Chained
      <4>4. (L + 1) - 1 = L
        BY <1>0
      <4> QED BY <4>2, <4>3, <4>4, <1>t, <1>1
    <3> QED BY <3>1, <3>2
  <2>3. m.size = Len(t)
    BY <1>0, <1>t, <1>1 DEF Chained
  <2>4. ASSUME NEW k \in 1 .. Len(t)
        PROVE  m.next[t[k]] = IF k = Len(t) THEN Null ELSE t[k + 1]
    <3>1. CASE k < p
      <4>1. k \in 1 .. p /\ k + 1 \in 1 .. p /\ k \in 1 .. L /\ k # L /\ k # L + 1
        BY <3>1, <1>0
      <4>2. t[k] = s[k] /\ t[k + 1] = s[k + 1] /\ s[k] # e /\ s[k] # n /\ s[k] \in Element
        BY <4>1, <3>1, <1>t, <1>0 DEF Distinct, Fresh
      <4>3. l.next[s[k]] = s[k + 1]
        BY <4>1 DEF Chained
      <4> QED BY <4>1, <4>2, <4>3, <1>n, <1>t
    <3>2. CASE k = p
      <4>1. t[k] = e /\ t[k + 1] = n /\ k # L + 1
        BY <3>2, <1>t, <1>0
      <4> QED BY <4>1, <1>n, <1>t
    <3>3. CASE k = p + 1
      <4>1. t[k] = n /\ m.next[n] = x
        BY <3>3, <1>t, <1>n
      <4>2. CASE p = L
        BY <4>1, <4>2, <3>3, <1>t, <1>e
      <4>3. CASE p # L
        <5>1. k + 1 \in p + 2 .. L + 1 /\ (k + 1) - 1 = p + 1 /\ k # L + 1
          BY <4>3, <3>3, <1>0
        <5>2. t[k + 1] = s[p + 1]
          BY <5>1, <1>t
        <5> QED BY <4>1, <4>3, <5>1, <5>2, <1>t, <1>e
      <4> QED BY <4>2, <4>3
    <3>4. CASE k > p + 1
      <4>1. k \in p + 2 .. L + 1 /\ k - 1 \in 1 .. L /\ k - 1 # p
        BY <3>4, <1>0, <1>t
      <4>2. t[k] = s[k - 1] /\ s[k - 1] # e /\ s[k - 1] # n /\ s[k - 1] \in Element
        <5>1. t[k] = s[k - 1]
          BY <4>1, <1>t
        <5>2. s[k - 1] # e
          BY <4>1 DEF Distinct
        <5> QED BY <5>1, <5>2, <4>1, <1>0 DEF Fresh
      <4>3. l.next[s[k - 1]] = IF k - 1 = L THEN Null ELSE s[(k - 1) + 1]
        BY <4>1 DEF Chained
      <4>4. CASE k = L + 1
        BY <4>2, <4>3, <4>4, <1>n, <1>t, <1>0
      <4>5. CASE k # L + 1
        <5>1. k + 1 \in p + 2 .. L + 1 /\ (k + 1) - 1 = k /\ (k - 1) + 1 = k /\ k - 1 # L
          BY <4>5, <4>1, <1>0
        <5>2. t[k + 1] = s[k]
          BY <5>1, <1>t
        <5>3. m.next[t[k]] = l.next[s[k - 1]]
          BY <4>2, <1>n
        <5>4. l.next[s[k - 1]] = s[k]
          BY <4>3, <5>1
        <5> QED BY <5>2, <5>3, <5>4, <4>5, <1>t
      <4> QED BY <4>4, <4>5
    <3> QED BY <3>1, <3>2, <3>3, <3>4, <1>0
  <2> QED BY <2>1, <2>2, <2>3, <2>4 DEF Chained
<1>6. ASSUME ChainedBack(l, s) PROVE ChainedBack(m, t)
  <2>1. ASSUME NEW k \in 1 .. Len(t)
        PROVE  m.prev[t[k]] = IF k = 1 THEN Null ELSE t[k - 1]
    <3>1. CASE k <= p
      <4>1. k \in 1 .. p /\ k \in 1 .. L /\ (k # 1 => k - 1 \in 1 .. p) /\ k # p + 1
        BY <3>1, <1>0
      <4>2. t[k] = s[k] /\ s[k] # n /\ s[k] \in Element /\ (k # 1 => t[k - 1] = s[k - 1])
        BY <4>1, <1>t, <1>0 DEF Fresh
      <4>3. s[k] # x
        <5>1. CASE p = L
          BY <5>1, <4>2, <1>e, NullIsNoElement
        <5>2. CASE p # L
          <6>1. p + 1 \in 1 .. L
            BY <5>2, <1>0
          <6> QED BY <5>2, <6>1, <4>1, <1>e DEF Distinct
        <5> QED BY <5>1, <5>2
      <4>4. l.prev[s[k]] = IF k = 1 THEN Null ELSE s[k - 1]
        BY <4>1, <1>6 DEF ChainedBack
      <4> QED BY <4>2, <4>3, <4>4, <1>p
    <3>2. CASE k = p + 1
      <4>1. t[k] = n /\ t[k - 1] = e /\ k # 1
        BY <3>2, <1>t, <1>0
      <4> QED BY <4>1, <1>p
    <3>3. CASE k = p + 2
      <4>1. k \in p + 2 .. L + 1 /\ k - 1 = p + 1 /\ p # L /\ k # 1 /\ p + 1 \in 1 .. L
        BY <3>3, <1>0, <1>t
      <4>2. t[k] = s[p + 1] /\ t[k - 1] = n
        BY <4>1, <1>t
      <4>3. x = s[p + 1] /\ x # Null
        BY <4>1, <1>e, <1>0, NullIsNoElement
      <4> QED BY <4>1, <4>2, <4>3, <1>p
    <3>4. CASE k > p + 2
      <4>1. /\ k \in p + 2 .. L + 1 /\ k - 1 \in p + 2 .. L + 1 /\ k - 1 \in 1 .. L
            /\ k - 1 # p + 1 /\ p # L /\ k # 1 /\ k - 1 # 1 /\ p + 1 \in 1 .. L
        BY <3>4, <1>0, <1>t
      <4>2. t[k] = s[k - 1] /\ t[k - 1] = s[(k - 1) - 1]
        BY <4>1, <1>t
      <4>3. s[k - 1] # n /\ s[k - 1] \in Element
        BY <4>1, <1>0 DEF Fresh
      <4>4. s[k - 1] # x
        BY <4>1, <1>e DEF Distinct
      <4>5. l.prev[s[k - 1]] = s[(k - 1) - 1]
        BY <4>1, <1>6 DEF ChainedBack
      <4> QED BY <4>1, <4>2, <4>3, <4>4, <4>5, <1>p
    <3> QED BY <3>1, <3>2, <3>3, <3>4, <1>0
  <2> QED BY <2>1 DEF ChainedBack
<1> QED BY <1>1, <1>2, <1>5, <1>6 DEF m

\* Taking out the head.
LEMMA HeadRemoved ==
  ASSUME NEW D, NEW l, Fields(l, D), NEW s, Distinct(s), Chained(l, s),
         s # <<>>, NEW t, t = RemoveAt(s, 1)
  PROVE  /\ Fields(list_remove_next(l, Null), D)
         /\ Chained(list_remove_next(l, Null), t)
         /\ list_remove_next(l, Null).data = l.data
<1> DEFINE m == list_remove_next(l, Null)
           L == Len(s)
<1>0. /\ s \in Seq(Element) /\ L \in Nat \ {0} /\ 1 \in 1 .. L
      /\ l.head = s[1] /\ s[1] \in Element /\ l.size = L
  BY DEF Distinct, Chained
<1>z. L \in Nat /\ L >= 1
  BY <1>0
<1>t. /\ Distinct(t) /\ Len(t) = L - 1 /\ (t = <<>> <=> L = 1)
      /\ \A i \in 1 .. L - 1 : t[i] = s[i + 1]
  <2>1. Distinct(t) /\ Len(t) = L - 1
    BY <1>0, DistinctRemoved
  <2>2. \A i \in 1 .. L - 1 : t[i] = s[i + 1]
    BY <1>0, DistinctRemoved
  <2>3. t = <<>> <=> L = 1
    BY <2>1, <1>0 DEF Distinct
  <2> QED BY <2>1, <2>2, <2>3
<1>1. /\ m.head = l.next[l.head] /\ m.tail = IF l.size = 1 THEN Null ELSE l.tail
      /\ m.size = l.size - 1 /\ m.next = l.next /\ m.prev = l.prev
      /\ m.data = l.data
      /\ m = [size |-> m.size, head |-> m.head, tail |-> m.tail,
              next |-> m.next, prev |-> m.prev, data |-> m.data]
  BY DEF list_remove_next, Fields
<1> HIDE DEF m
<1>2. Fields(m, D)
  BY <1>1, <1>0 DEF Fields, ListAddress
<1>3. Chained(m, t)
  <2>1. l.next[s[1]] = IF 1 = L THEN Null ELSE s[1 + 1]
    BY <1>0 DEF Chained
  <2>2. m.head = IF t = <<>> THEN Null ELSE t[1]
    <3>1. CASE L = 1
      BY <3>1, <2>1, <1>0, <1>1, <1>t
    <3>2. CASE L # 1
      <4>1. 1 \in 1 .. L - 1
        BY <3>2, <1>z
      <4>2. t[1] = s[1 + 1]
        BY <4>1, <1>t
      <4> QED BY <4>2, <3>2, <2>1, <1>0, <1>1, <1>t
    <3> QED BY <3>1, <3>2
  <2>3. m.tail = IF t = <<>> THEN Null ELSE t[Len(t)]
    <3>1. L # 1 => L - 1 \in 1 .. L - 1 /\ (L - 1) + 1 = L
      BY <1>z
    <3>2. L # 1 => t[L - 1] = s[L]
      BY <3>1, <1>t
    <3>3. l.tail = s[L]
      BY DEF Chained
    <3> QED BY <3>2, <3>3, <1>0, <1>1, <1>t
  <2>4. m.size = Len(t)
    BY <1>0, <1>1, <1>t
  <2>5. ASSUME NEW k \in 1 .. Len(t)
        PROVE  m.next[t[k]] = IF k = Len(t) THEN Null ELSE t[k + 1]
    <3>1. k + 1 \in 1 .. L /\ k \in 1 .. L - 1 /\ (k = Len(t) <=> k + 1 = L)
      BY <1>0, <1>t
    <3>2. l.next[s[k + 1]] = IF k + 1 = L THEN Null ELSE s[(k + 1) + 1]
      BY <3>1 DEF Chained
    <3>3. k + 1 # L => k + 1 \in 1 .. L - 1
      BY <3>1, <1>0
    <3>4. k + 1 # L => t[k + 1] = s[(k + 1) + 1]
      BY <3>3, <1>t
    <3>5. t[k] = s[k + 1]
      BY <3>1, <1>t
    <3> QED BY <3>1, <3>2, <3>4, <3>5, <1>1
  <2> QED BY <2>2, <2>3, <2>4, <2>5 DEF Chained
<1> QED BY <1>1, <1>2, <1>3 DEF m

\* Taking out the element behind the p-th.
LEMMA NextRemoved ==
  ASSUME NEW D, NEW l, Fields(l, D), NEW s, Distinct(s), Chained(l, s),
         NEW p \in 1 .. Len(s), p + 1 \in 1 .. Len(s),
         NEW t, t = RemoveAt(s, p + 1)
  PROVE  /\ Fields(list_remove_next(l, s[p]), D)
         /\ Chained(list_remove_next(l, s[p]), t)
         /\ list_remove_next(l, s[p]).data = l.data
<1> DEFINE m == list_remove_next(l, s[p])
           L == Len(s)
           r == s[p + 1]
<1>0. /\ s \in Seq(Element) /\ L \in Nat \ {0} /\ 1 \in 1 .. L /\ s # <<>>
      /\ s[p] \in Element /\ s[p] # Null /\ r \in Element /\ p # L
  BY NullIsNoElement DEF Distinct
<1>t. /\ Distinct(t) /\ Len(t) = L - 1 /\ t # <<>>
      /\ \A i \in 1 .. p : t[i] = s[i]
      /\ \A i \in p + 1 .. L - 1 : t[i] = s[i + 1]
  <2>1. Distinct(t) /\ Len(t) = L - 1
    BY <1>0, DistinctRemoved
  <2>2. \A i \in p + 1 .. L - 1 : t[i] = s[i + 1]
    BY <1>0, DistinctRemoved
  <2>3. \A i \in 1 .. (p + 1) - 1 : t[i] = s[i]
    BY <1>0, DistinctRemoved
  <2>4. t # <<>>
    BY <2>1, <1>0 DEF Distinct
  <2> QED BY <2>1, <2>2, <2>3, <2>4
<1>r. /\ l.next[s[p]] = r
      /\ l.next[r] = IF p + 1 = L THEN Null ELSE s[(p + 1) + 1]
      /\ p + 1 # L => (p + 1) + 1 \in 1 .. L
      /\ l.next[r] = Null <=> p + 1 = L
  <2>1. l.next[s[p]] = r
    BY <1>0 DEF Chained
  <2>2. l.next[r] = IF p + 1 = L THEN Null ELSE s[(p + 1) + 1]
    BY DEF Chained
  <2>3. p + 1 # L => (p + 1) + 1 \in 1 .. L
    BY <1>0
  <2>4. p + 1 # L => s[(p + 1) + 1] # Null
    BY <2>3, <1>0, NullIsNoElement
  <2> QED BY <2>1, <2>2, <2>3, <2>4
<1>m. m = [l EXCEPT !.next[s[p]] = l.next[r],
                    !.tail = IF l.next[r] = Null THEN s[p] ELSE @,
                    !.size = @ - 1]
  <2>1. Removed(l, s[p]) = r
    BY <1>0, <1>r DEF Removed
  <2> HIDE DEF r
  <2> QED BY <2>1, <1>0 DEF list_remove_next
<1>1. /\ m.head = l.head
      /\ m.tail = IF l.next[r] = Null THEN s[p] ELSE l.tail
      /\ m.size = l.size - 1 /\ m.next = [l.next EXCEPT ![s[p]] = l.next[r]]
      /\ m.prev = l.prev /\ m.data = l.data
      /\ m = [size |-> m.size, head |-> m.head, tail |-> m.tail,
              next |-> m.next, prev |-> m.prev, data |-> m.data]
  <2> HIDE DEF m, r
  <2>1. l = [size |-> l.size, head |-> l.head, tail |-> l.tail,
             next |-> l.next, prev |-> l.prev, data |-> l.data]
    BY DEF Fields
  <2> QED BY <1>m, <2>1
<1> HIDE DEF m, r
<1>2. Fields(m, D)
  <2>1. l.next[r] \in ListAddress
    BY <1>0 DEF Fields, ListAddress
  <2>2. m.next \in [ListAddress -> ListAddress]
    BY <2>1, <1>1 DEF Fields
  <2>3. m.tail \in ListAddress
    BY <1>0, <1>1 DEF Fields, ListAddress
  <2> QED BY <2>2, <2>3, <1>1 DEF Fields
<1>n. /\ m.next[s[p]] = l.next[r]
      /\ \A y \in Element : y # s[p] => m.next[y] = l.next[y]
  BY <1>0, <1>1 DEF Fields, ListAddress
<1>3. Chained(m, t)
  <2>2. m.head = t[1]
    <3>1. 1 \in 1 .. p
      BY <1>0
    <3> QED BY <3>1, <1>0, <1>1, <1>t DEF Chained
  <2>3. m.tail = t[Len(t)]
    <3>1. CASE p + 1 = L
      <4>1. L - 1 = p /\ p \in 1 .. p
        BY <3>1, <1>0
      <4> QED BY <4>1, <3>1, <1>r, <1>1, <1>t
    <3>2. CASE p + 1 # L
      <4>1. L - 1 \in p + 1 .. L - 1 /\ (L - 1) + 1 = L
        BY <3>2, <1>0
      <4>2. t[L - 1] = s[L] /\ l.tail = s[L]
        BY <4>1, <1>0, <1>t DEF Chained
      <4> QED BY <4>2, <3>2, <1>r, <1>1, <1>t
    <3> QED BY <3>1, <3>2
  <2>4. m.size = Len(t)
    BY <1>0, <1>1, <1>t DEF Chained
  <2>5. ASSUME NEW k \in 1 .. Len(t)
        PROVE  m.next[t[k]] = IF k = Len(t) THEN Null ELSE t[k + 1]
    <3>1. CASE k < p
      <4>1. k \in 1 .. p /\ k + 1 \in 1 .. p /\ k \in 1 .. L /\ k # L /\ k # L - 1
        BY <3>1, <1>0
      <4>2. t[k] = s[k] /\ t[k + 1] = s[k + 1] /\ s[k] \in Element
        BY <4>1, <1>t, <1>0
      <4>3. s[k] # s[p]
        BY <4>1, <3>1 DEF Distinct
      <4>4. l.next[s[k]] = s[k + 1]
        BY <4>1 DEF Chained
      <4> QED BY <4>1, <4>2, <4>3, <4>4, <1>n, <1>t
    <3>2. CASE k = p
      <4>1. k \in 1 .. p /\ t[k] = s[p]
        BY <3>2, <1>t, <1>0
      <4>2. CASE p + 1 = L
        <5>1. k = Len(t)
          BY <3>2, <4>2, <1>t, <1>0
        <5> QED BY <5>1, <4>1, <4>2, <1>r, <1>n
      <4>3. CASE p + 1 # L
        <5>1. k # Len(t) /\ k + 1 \in p + 1 .. L - 1 /\ (k + 1) + 1 = (p + 1) + 1
          BY <3>2, <4>3, <1>t, <1>0
        <5>2. t[k + 1] = s[(p + 1) + 1]
          BY <5>1, <1>t
        <5> QED BY <5>1, <5>2, <4>1, <4>3, <1>r, <1>n
      <4> QED BY <4>2, <4>3
    <3>3. CASE k > p
      <4>1. k \in p + 1 .. L - 1 /\ k + 1 \in 1 .. L /\ k + 1 # p
        BY <3>3, <1>0, <1>t
      <4>2. t[k] = s[k + 1] /\ s[k + 1] \in Element
        BY <4>1, <1>t, <1>0
      <4>3. s[k + 1] # s[p]
        BY <4>1 DEF Distinct
      <4>4. l.next[s[k + 1]] = IF k + 1 = L THEN Null ELSE s[(k + 1) + 1]
        BY <4>1 DEF Chained
      <4>5. k + 1 # L => k + 1 \in p + 1 .. L - 1 /\ k # L - 1
        BY <4>1, <1>0
      <4>6. k + 1 # L => t[k + 1] = s[(k + 1) + 1]
        BY <4>5, <1>t
      <4>7. k + 1 = L => k = L - 1
        BY <4>1, <1>0
      <4> QED BY <4>2, <4>3, <4>4, <4>5, <4>6, <4>7, <1>n, <1>t
    <3> QED BY <3>1, <3>2, <3>3, <1>0
  <2> QED BY <2>2, <2>3, <2>4, <2>5, <1>t DEF Chained
<1> QED BY <1>1, <1>2, <1>3 DEF m

-----------------------------------------------------------------------------
(* Any sequence of calls (ListCalls).                                      *)

DatumOrNull == Datum \cup {Null}

\* The list is the chain of the elements in listed; until an element is
\* removed, also backwards.
ListSound ==
  /\ Fields(lst, DatumOrNull) /\ Distinct(listed) /\ Chained(lst, listed)
  /\ ~unlinked => ChainedBack(lst, listed)
  /\ stored \in [Element -> DatumOrNull]
  /\ \A k \in 1 .. Len(listed) : lst.data[listed[k]] = stored[listed[k]]

LEMMA PlaceFacts ==
  ASSUME Distinct(listed), NEW e \in Places
  PROVE  \/ e = Null /\ Place(e) = 0
         \/ /\ e # Null /\ Place(e) \in 1 .. Len(listed)
            /\ listed[Place(e)] = e
<1>1. CASE e = Null
  BY <1>1 DEF Place
<1>2. CASE e # Null
  <2>1. \E k \in DOMAIN listed : listed[k] = e
    BY <1>2 DEF Places, Range
  <2>2. Place(e) = CHOOSE k \in DOMAIN listed : listed[k] = e
    BY <1>2 DEF Place
  <2>3. DOMAIN listed = 1 .. Len(listed)
    BY DEF Distinct
  <2> QED BY <2>1, <2>2, <2>3, <1>2
<1> QED BY <1>1, <1>2

LEMMA InitListSound == ListInit => ListSound
<1> SUFFICES ASSUME ListInit PROVE ListSound
  OBVIOUS
<1>1. /\ lst.size = 0 /\ lst.head = Null /\ lst.tail = Null
      /\ Fields(lst, DatumOrNull)
  <2>1. Null \in ListAddress /\ Null \in DatumOrNull
    BY DEF ListAddress, DatumOrNull
  <2>2. lst = NoElements
    BY DEF ListInit, list_init, NoElements
  <2> QED BY <2>1, <2>2 DEF NoElements, Fields
<1>2. listed = <<>> /\ Len(listed) = 0 /\ listed \in Seq(Element)
  BY DEF ListInit
<1>3. stored \in [Element -> DatumOrNull]
  BY DEF ListInit, DatumOrNull
<1> QED BY <1>1, <1>2, <1>3 DEF ListSound, Distinct, Chained, ChainedBack

LEMMA InsertSound ==
  ASSUME ListSound, NEW e \in Places, NEW n \in Element, NEW d \in Datum,
         Insert(e, n, d)
  PROVE  ListSound'
<1> DEFINE p == Place(e)
<1>s. Distinct(listed) /\ Fields(lst, DatumOrNull) /\ Chained(lst, listed)
  BY DEF ListSound
<1>0. /\ listed \in Seq(Element) /\ Len(listed) \in Nat /\ p \in 0 .. Len(listed)
      /\ d \in DatumOrNull
  BY <1>s, PlaceFacts DEF Distinct, DatumOrNull
<1>1. Fresh(listed, n)
  BY <1>0 DEF Insert, Range, Fresh
<1>2. listed' = InsertAt(listed, p + 1, n)
  BY DEF Insert
<1> HIDE DEF p
<1>3. Distinct(listed')
  BY <1>s, <1>0, <1>1, <1>2, DistinctInserted
<1>4. /\ Fields(lst', DatumOrNull) /\ Chained(lst', listed')
      /\ ChainedBack(lst, listed) => ChainedBack(lst', listed')
      /\ lst'.data = [lst.data EXCEPT ![n] = d]
  <2>1. CASE e = Null
    <3>1. p = 0 /\ listed' = InsertAt(listed, 1, n)
      BY <2>1, <1>2 DEF Place, p
    <3>2. lst' = InsertAtHead(lst, n, d)
      BY <2>1 DEF Insert, list_insert_next
    <3> QED BY <3>1, <3>2, <1>s, <1>0, <1>1, HeadInserted
  <2>2. CASE e # Null
    <3>1. p \in 1 .. Len(listed) /\ listed[p] = e
      BY <2>2, <1>s, PlaceFacts DEF p
    <3>2. lst' = InsertBehind(lst, e, n, d)
      BY <2>2 DEF Insert, list_insert_next
    <3> QED BY <3>1, <3>2, <1>s, <1>0, <1>1, <1>2, BehindInserted
  <2> QED BY <2>1, <2>2
<1>5. stored' = [stored EXCEPT ![n] = d] /\ unlinked' = unlinked
  BY DEF Insert
<1>6. stored' \in [Element -> DatumOrNull]
  BY <1>0, <1>5 DEF ListSound
<1>7. ASSUME NEW k \in 1 .. Len(listed')
      PROVE  lst'.data[listed'[k]] = stored'[listed'[k]]
  <2>1. IsInserted(listed', listed, p, n)
    BY <1>0, <1>2, InsertAtInserts
  <2>2. listed'[k] = n \/ \E j \in 1 .. Len(listed) : listed'[k] = listed[j]
    BY <2>1, <1>0, InsertedMembers
  <2>3. lst.data \in [ListAddress -> DatumOrNull]
    BY DEF ListSound, Fields
  <2>4. CASE listed'[k] = n
    BY <2>4, <2>3, <1>4, <1>5 DEF ListSound, ListAddress
  <2>5. ASSUME NEW j \in 1 .. Len(listed), listed'[k] = listed[j]
        PROVE  lst'.data[listed'[k]] = stored'[listed'[k]]
    <3>1. listed[j] # n /\ listed[j] \in Element
      BY <1>0, <1>1 DEF Fresh
    <3>2. lst.data[listed[j]] = stored[listed[j]]
      BY DEF ListSound
    <3> QED BY <2>3, <2>5, <3>1, <3>2, <1>4, <1>5 DEF ListSound, ListAddress
  <2> QED BY <2>2, <2>4, <2>5
<1> QED BY <1>3, <1>4, <1>5, <1>6, <1>7 DEF ListSound

LEMMA RemoveNextSound ==
  ASSUME ListSound, NEW e \in Places, RemoveNext(e)
  PROVE  ListSound'
<1> DEFINE p == Place(e)
<1>s. Distinct(listed) /\ Fields(lst, DatumOrNull) /\ Chained(lst, listed)
  BY DEF ListSound
<1>0. /\ listed \in Seq(Element) /\ Len(listed) \in Nat
      /\ p \in 0 .. Len(listed) /\ p + 1 \in 1 .. Len(listed) /\ listed # <<>>
  BY <1>s, PlaceFacts DEF Distinct, RemoveNext
<1>2. listed' = RemoveAt(listed, p + 1)
  BY DEF RemoveNext
<1> HIDE DEF p
<1>r. listed' \in Seq(Element) /\ IsRemoved(listed', listed, p + 1)
  BY <1>0, <1>2, RemoveAtRemoves
<1>3. Distinct(listed')
  BY <1>s, <1>0, <1>2, DistinctRemoved
<1>4. /\ Fields(lst', DatumOrNull) /\ Chained(lst', listed') /\ lst'.data = lst.data
  <2>0. lst' = list_remove_next(lst, e)
    BY DEF RemoveNext
  <2>1. CASE e = Null
    <3>1. p = 0 /\ listed' = RemoveAt(listed, 1)
      BY <2>1, <1>2 DEF Place, p
    <3> QED BY <3>1, <2>0, <2>1, <1>s, <1>0, HeadRemoved
  <2>2. CASE e # Null
    <3>1. p \in 1 .. Len(listed) /\ listed[p] = e
      BY <2>2, <1>s, PlaceFacts DEF p
    <3> QED BY <3>1, <2>0, <1>s, <1>0, <1>2, NextRemoved
  <2> QED BY <2>1, <2>2
<1>5. stored' = stored /\ unlinked' = (listed' # <<>>)
  BY DEF RemoveNext
<1>6. ~unlinked' => ChainedBack(lst', listed')
  <2>1. ASSUME ~unlinked' PROVE Len(listed') = 0
    <3>1. listed' = <<>>
      BY <2>1, <1>5, Zenon
    <3> QED BY <3>1
  <2> QED BY <2>1 DEF ChainedBack
<1>7. ASSUME NEW k \in 1 .. Len(listed')
      PROVE  lst'.data[listed'[k]] = stored'[listed'[k]]
  <2>1. PICK j \in 1 .. Len(listed) : listed'[k] = listed[j]
    BY <1>0, <1>r, RemovedMembers
  <2> QED BY <2>1, <1>4, <1>5 DEF ListSound
<1> QED BY <1>3, <1>4, <1>5, <1>6, <1>7 DEF ListSound

LEMMA DestroySound == ListSound /\ Destroy => ListSound'
<1> SUFFICES ASSUME ListSound, Destroy PROVE ListSound'
  OBVIOUS
<1>1. /\ lst'.size = 0 /\ lst'.head = Null /\ lst'.tail = Null
      /\ Fields(lst', DatumOrNull)
  <2>1. lst' = [lst EXCEPT !.size = 0, !.head = Null, !.tail = Null]
    BY DEF Destroy, list_init, list_destroy, ListSound, Fields
  <2>2. Fields(lst, DatumOrNull) /\ Null \in ListAddress
    BY DEF ListSound, ListAddress
  <2>3. lst = [size |-> lst.size, head |-> lst.head, tail |-> lst.tail,
               next |-> lst.next, prev |-> lst.prev, data |-> lst.data]
    BY <2>2 DEF Fields
  <2>4. lst' = [size |-> 0, head |-> Null, tail |-> Null,
                next |-> lst.next, prev |-> lst.prev, data |-> lst.data]
    BY <2>1, <2>3
  <2> QED BY <2>2, <2>4 DEF Fields
<1>2. listed' = <<>> /\ Len(listed') = 0 /\ listed' \in Seq(Element)
  BY DEF Destroy
<1>3. stored' = stored
  BY DEF Destroy
<1> QED BY <1>1, <1>2, <1>3
        DEF ListSound, Distinct, Chained, ChainedBack, Fields

LEMMA NextListSound == ListSound /\ [ListNext]_listVars => ListSound'
<1> SUFFICES ASSUME ListSound, [ListNext]_listVars PROVE ListSound'
  OBVIOUS
<1>1. ASSUME NEW e \in Places, NEW n \in Element, NEW d \in Datum, Insert(e, n, d)
      PROVE  ListSound'
  BY <1>1, InsertSound
<1>2. ASSUME NEW e \in Places, RemoveNext(e) PROVE ListSound'
  BY <1>2, RemoveNextSound
<1>3. CASE Destroy
  BY <1>3, DestroySound
<1>4. CASE UNCHANGED listVars
  BY <1>4 DEF listVars, ListSound, Fields, Distinct, Chained, ChainedBack
<1> QED BY <1>1, <1>2, <1>3, <1>4 DEF ListNext

LEMMA SoundMeansKept == ListSound => ListKept
<1> SUFFICES ASSUME ListSound PROVE ListKept
  OBVIOUS
<1>0. /\ Distinct(listed) /\ Len(listed) \in Nat /\ DOMAIN listed = 1 .. Len(listed)
      /\ Chained(lst, listed) /\ Fields(lst, DatumOrNull)
  BY DEF ListSound, Distinct
<1>1. Forward(lst, Size + 1) = listed
  <2>1. Forward(lst, Len(listed) + 1) = listed
    BY <1>0, ChainRead
  <2> QED BY <2>1 DEF Size
<1>2. ASSUME ~unlinked PROVE Backward(lst, Size + 1) = Reverse(listed)
  BY <1>0, <1>2, WalkReadsBack DEF ListSound, Size
<1> QED BY <1>0, <1>1, <1>2 DEF ListKept, ListSound, Chained, Size

\* Whatever is inserted, removed and destroyed in whatever order, the pointers
\* of the list lead through exactly the elements that are in it, in order, and
\* backwards as long as nothing was removed, for every number of elements
\* (linkedlist.c:33-117).
THEOREM ListAlwaysKept == ListSpec => []ListKept
<1>1. ListInit => ListSound
  BY InitListSound
<1>2. ListSound /\ [ListNext]_listVars => ListSound'
  BY NextListSound
<1>3. ListSound => ListKept
  BY SoundMeansKept
<1> QED BY <1>1, <1>2, <1>3, PTL DEF ListSpec

-----------------------------------------------------------------------------
(* The chains of the queues, doubly linked, and what they stand for.       *)

\* The fields are those of the chain s, that begins at h and ends at t.
QChained(s, h, t, nx, pv) ==
  /\ h = IF s = <<>> THEN NIL ELSE s[1]
  /\ t = IF s = <<>> THEN NIL ELSE s[Len(s)]
  /\ \A i \in 1 .. Len(s) : nx[s[i]] = IF i = Len(s) THEN NIL ELSE s[i + 1]
  /\ \A i \in 1 .. Len(s) : pv[s[i]] = IF i = 1 THEN NIL ELSE s[i - 1]

\* The fields after node n was linked in behind the first p nodes of s.
LinkedIn(s, p, n, nx, pv, nx2, pv2) ==
  /\ nx2[n] = IF p = Len(s) THEN NIL ELSE s[p + 1]
  /\ pv2[n] = IF p = 0 THEN NIL ELSE s[p]
  /\ \A i \in 1 .. Len(s) : nx2[s[i]] = IF i = p THEN n ELSE nx[s[i]]
  /\ \A i \in 1 .. Len(s) : pv2[s[i]] = IF i = p + 1 THEN n ELSE pv[s[i]]

\* The fields after the node at p was taken out of s.
LinkedOut(s, p, nx, pv, nx2, pv2) ==
  /\ \A i \in 1 .. Len(s) : i # p =>
       nx2[s[i]] = IF i + 1 = p THEN nx[s[p]] ELSE nx[s[i]]
  /\ \A i \in 1 .. Len(s) : i # p =>
       pv2[s[i]] = IF i = p + 1 THEN pv[s[p]] ELSE pv[s[i]]

LEMMA ChainInserted ==
  ASSUME NEW s \in Seq(QueueNodes), NEW h, NEW t, NEW nx, NEW pv,
         QChained(s, h, t, nx, pv),
         NEW p \in 0 .. Len(s), NEW n, NEW u, IsInserted(u, s, p, n),
         NEW nx2, NEW pv2, LinkedIn(s, p, n, nx, pv, nx2, pv2)
  PROVE  QChained(u, IF p = 0 THEN n ELSE h, IF p = Len(s) THEN n ELSE t, nx2, pv2)
<1> DEFINE L == Len(s)
<1>0. L \in Nat /\ (s = <<>> <=> L = 0) /\ p \in 0 .. L
  OBVIOUS
<1>1. Len(u) = L + 1 /\ u[p + 1] = n /\ u # <<>>
  BY <1>0 DEF IsInserted
<1>2. \A i \in 1 .. p : u[i] = s[i]
  BY DEF IsInserted
<1>3. \A i \in p + 2 .. L + 1 : u[i] = s[i - 1]
  BY DEF IsInserted
<1>4. ASSUME NEW i \in 1 .. L
      PROVE  nx[s[i]] = (IF i = L THEN NIL ELSE s[i + 1])
             /\ pv[s[i]] = (IF i = 1 THEN NIL ELSE s[i - 1])
  BY DEF QChained
<1>5. ASSUME NEW i \in 1 .. L
      PROVE  nx2[s[i]] = (IF i = p THEN n ELSE nx[s[i]])
             /\ pv2[s[i]] = (IF i = p + 1 THEN n ELSE pv[s[i]])
  BY DEF LinkedIn
<1>6. nx2[n] = (IF p = L THEN NIL ELSE s[p + 1]) /\ pv2[n] = (IF p = 0 THEN NIL ELSE s[p])
  BY DEF LinkedIn
<1>7. ASSUME NEW i \in 1 .. L + 1
      PROVE  nx2[u[i]] = IF i = L + 1 THEN NIL ELSE u[i + 1]
  <2>1. CASE i <= p
    <3>1. i \in 1 .. L /\ i \in 1 .. p /\ i # L + 1
      BY <2>1, <1>0
    <3>2. u[i] = s[i]
      BY <3>1, <1>2
    <3>3. CASE i = p
      BY <3>1, <3>2, <3>3, <1>1, <1>5
    <3>4. CASE i # p
      <4>1. i + 1 \in 1 .. p /\ i # L
        BY <3>1, <3>4, <1>0
      <4>2. u[i + 1] = s[i + 1]
        BY <4>1, <1>2
      <4> QED BY <3>1, <3>2, <3>4, <4>1, <4>2, <1>4, <1>5
    <3> QED BY <3>3, <3>4
  <2>2. CASE i = p + 1
    <3>1. CASE p = L
      BY <2>2, <3>1, <1>1, <1>6
    <3>2. CASE p # L
      <4>1. i + 1 \in p + 2 .. L + 1 /\ (i + 1) - 1 = p + 1 /\ i # L + 1
        BY <2>2, <3>2, <1>0
      <4>2. u[i + 1] = s[p + 1]
        BY <4>1, <1>3
      <4> QED BY <2>2, <3>2, <4>1, <4>2, <1>1, <1>6
    <3> QED BY <3>1, <3>2
  <2>3. CASE i > p + 1
    <3>1. i \in p + 2 .. L + 1 /\ i - 1 \in 1 .. L /\ i - 1 # p
          /\ (i - 1 = L => i = L + 1) /\ (i = L + 1 => i - 1 = L)
          /\ (i # L + 1 => i + 1 \in p + 2 .. L + 1)
          /\ (i - 1) + 1 = i /\ (i + 1) - 1 = i
      BY <2>3, <1>0
    <3>2. u[i] = s[i - 1]
      BY <3>1, <1>3
    <3>3. nx2[s[i - 1]] = IF i - 1 = L THEN NIL ELSE s[(i - 1) + 1]
      BY <3>1, <1>4, <1>5
    <3>4. i # L + 1 => u[i + 1] = s[i]
      BY <3>1, <1>3
    <3> QED BY <3>1, <3>2, <3>3, <3>4
  <2> QED BY <2>1, <2>2, <2>3, <1>0
<1>8. ASSUME NEW i \in 1 .. L + 1
      PROVE  pv2[u[i]] = IF i = 1 THEN NIL ELSE u[i - 1]
  <2>1. CASE i <= p
    <3>1. i \in 1 .. L /\ i \in 1 .. p /\ i # p + 1 /\ (i # 1 => i - 1 \in 1 .. p)
      BY <2>1, <1>0
    <3>2. u[i] = s[i] /\ (i # 1 => u[i - 1] = s[i - 1])
      BY <3>1, <1>2
    <3> QED BY <3>1, <3>2, <1>4, <1>5
  <2>2. CASE i = p + 1
    <3>1. CASE p = 0
      BY <2>2, <3>1, <1>1, <1>6
    <3>2. CASE p # 0
      <4>1. p \in 1 .. p /\ i - 1 = p /\ i # 1
        BY <2>2, <3>2, <1>0
      <4>2. u[p] = s[p]
        BY <4>1, <1>2
      <4> QED BY <2>2, <3>2, <4>1, <4>2, <1>1, <1>6
    <3> QED BY <3>1, <3>2
  <2>3. CASE i > p + 1
    <3>1. i \in p + 2 .. L + 1 /\ i - 1 \in 1 .. L /\ i # 1 /\ i - 1 # 1 + p - 1
      BY <2>3, <1>0
    <3>2. u[i] = s[i - 1]
      BY <3>1, <1>3
    <3>3. CASE i - 1 = p + 1
      <4>1. pv2[s[i - 1]] = n
        BY <3>1, <3>3, <1>5
      <4> QED BY <3>1, <3>2, <3>3, <4>1, <1>1
    <3>4. CASE i - 1 # p + 1
      <4>1. i - 1 \in p + 2 .. L + 1 /\ i - 1 # 1
        BY <2>3, <3>1, <3>4, <1>0
      <4>2. u[i - 1] = s[(i - 1) - 1]
        BY <4>1, <1>3
      <4>3. pv2[s[i - 1]] = s[(i - 1) - 1]
        BY <3>1, <3>4, <4>1, <1>4, <1>5
      <4> QED BY <3>1, <3>2, <4>2, <4>3
    <3> QED BY <3>3, <3>4
  <2> QED BY <2>1, <2>2, <2>3, <1>0
<1>9. (IF p = 0 THEN n ELSE h) = u[1]
  <2>1. CASE p = 0
    BY <2>1, <1>1
  <2>2. CASE p # 0
    <3>1. 1 \in 1 .. p /\ s # <<>>
      BY <2>2, <1>0
    <3>2. h = s[1] /\ u[1] = s[1]
      BY <3>1, <1>2 DEF QChained
    <3> QED BY <2>2, <3>2
  <2> QED BY <2>1, <2>2
<1>10. (IF p = Len(s) THEN n ELSE t) = u[Len(u)]
  <2>1. CASE p = L
    BY <2>1, <1>1
  <2>2. CASE p # L
    <3>1. L + 1 \in p + 2 .. L + 1 /\ (L + 1) - 1 = L /\ s # <<>>
      BY <2>2, <1>0
    <3>2. t = s[L] /\ u[L + 1] = s[L]
      BY <3>1, <1>3 DEF QChained
    <3> QED BY <2>2, <3>2, <1>1
  <2> QED BY <2>1, <2>2
<1> QED BY <1>1, <1>7, <1>8, <1>9, <1>10 DEF QChained

LEMMA ChainRemoved ==
  ASSUME NEW s \in Seq(QueueNodes), NEW h, NEW t, NEW nx, NEW pv,
         QChained(s, h, t, nx, pv),
         NEW p \in 1 .. Len(s), NEW u \in Seq(QueueNodes), IsRemoved(u, s, p),
         NEW nx2, NEW pv2, LinkedOut(s, p, nx, pv, nx2, pv2)
  PROVE  QChained(u, IF p = 1 THEN nx[s[p]] ELSE h,
                  IF p = Len(s) THEN pv[s[p]] ELSE t, nx2, pv2)
<1> DEFINE L == Len(s)
<1>0. L \in Nat /\ s # <<>> /\ p \in 1 .. L
  OBVIOUS
<1>1. Len(u) = L - 1
  BY DEF IsRemoved
<1>2. \A i \in 1 .. p - 1 : u[i] = s[i]
  BY DEF IsRemoved
<1>3. \A i \in p .. L - 1 : u[i] = s[i + 1]
  BY DEF IsRemoved
<1>4. ASSUME NEW i \in 1 .. L
      PROVE  nx[s[i]] = (IF i = L THEN NIL ELSE s[i + 1])
             /\ pv[s[i]] = (IF i = 1 THEN NIL ELSE s[i - 1])
  BY DEF QChained
<1>5. ASSUME NEW i \in 1 .. L, i # p
      PROVE  nx2[s[i]] = (IF i + 1 = p THEN nx[s[p]] ELSE nx[s[i]])
             /\ pv2[s[i]] = (IF i = p + 1 THEN pv[s[p]] ELSE pv[s[i]])
  BY <1>5 DEF LinkedOut
<1>6. (u = <<>> => L = 1) /\ (L = 1 => u = <<>>)
  BY <1>0, <1>1
<1>l. L = Len(s)
  OBVIOUS
<1> HIDE DEF L
<1>7. ASSUME NEW i \in 1 .. L - 1
      PROVE  nx2[u[i]] = IF i = L - 1 THEN NIL ELSE u[i + 1]
  <2>1. CASE i < p
    <3>1. i \in 1 .. L /\ i \in 1 .. p - 1 /\ i # p /\ i # L
      BY <2>1, <1>0
    <3>2. u[i] = s[i]
      BY <3>1, <1>2
    <3>3. CASE i + 1 = p
      <4>1. nx2[s[i]] = IF p = L THEN NIL ELSE s[p + 1]
        BY <3>1, <3>3, <1>0, <1>4, <1>5
      <4>2. i # L - 1 => p \in p .. L - 1 /\ p # L
        BY <3>3, <1>0
      <4>3. i = L - 1 => p = L
        BY <3>3, <1>0
      <4>4. i # L - 1 => u[p] = s[p + 1]
        BY <4>2, <1>3
      <4> QED BY <3>2, <3>3, <4>1, <4>2, <4>3, <4>4
    <3>4. CASE i + 1 # p
      <4>1. i + 1 \in 1 .. p - 1 /\ i # L - 1
        BY <3>1, <3>4, <1>0
      <4> QED BY <3>1, <3>2, <3>4, <4>1, <1>2, <1>4, <1>5
    <3> QED BY <3>3, <3>4
  <2>2. CASE i >= p
    <3>1. i \in p .. L - 1 /\ i + 1 \in 1 .. L /\ i + 1 # p /\ (i + 1) + 1 # p
          /\ (i # L - 1 => i + 1 \in p .. L - 1 /\ i + 1 # L)
          /\ (i = L - 1 => i + 1 = L)
      BY <2>2, <1>0
    <3>2. u[i] = s[i + 1] /\ (i # L - 1 => u[i + 1] = s[(i + 1) + 1])
      BY <3>1, <1>3
    <3>3. nx2[s[i + 1]] = IF i + 1 = L THEN NIL ELSE s[(i + 1) + 1]
      BY <3>1, <1>4, <1>5
    <3> QED BY <3>1, <3>2, <3>3
  <2> QED BY <2>1, <2>2, <1>0
<1>8. ASSUME NEW i \in 1 .. L - 1
      PROVE  pv2[u[i]] = IF i = 1 THEN NIL ELSE u[i - 1]
  <2>1. CASE i < p
    <3>1. i \in 1 .. L /\ i \in 1 .. p - 1 /\ i # p /\ i # p + 1
          /\ (i # 1 => i - 1 \in 1 .. p - 1)
      BY <2>1, <1>0
    <3>2. u[i] = s[i] /\ (i # 1 => u[i - 1] = s[i - 1])
      BY <3>1, <1>2
    <3> QED BY <3>1, <3>2, <1>4, <1>5
  <2>2. CASE i = p
    <3>1. i \in p .. L - 1 /\ i + 1 \in 1 .. L /\ i + 1 # p /\ i + 1 = p + 1
      BY <2>2, <1>0
    <3>2. u[i] = s[i + 1]
      BY <3>1, <1>3
    <3>3. pv2[s[i + 1]] = IF p = 1 THEN NIL ELSE s[p - 1]
      <4>1. pv2[s[i + 1]] = pv[s[p]]
        BY <3>1, <1>5
      <4> QED BY <4>1, <1>0, <1>4
    <3>4. p # 1 => p - 1 \in 1 .. p - 1
      BY <1>0
    <3>5. p # 1 => u[p - 1] = s[p - 1]
      BY <3>4, <1>2
    <3> QED BY <2>2, <3>2, <3>3, <3>5
  <2>3. CASE i > p
    <3>1. i \in p .. L - 1 /\ i + 1 \in 1 .. L /\ i + 1 # p /\ i + 1 # p + 1
          /\ i - 1 \in p .. L - 1 /\ i # 1 /\ i + 1 # 1
          /\ (i - 1) + 1 = i /\ (i + 1) - 1 = i
      BY <2>3, <1>0
    <3>2. u[i] = s[i + 1] /\ u[i - 1] = s[i]
      BY <3>1, <1>3
    <3>3. pv2[s[i + 1]] = s[i]
      BY <3>1, <1>4, <1>5
    <3> QED BY <3>1, <3>2, <3>3
  <2> QED BY <2>1, <2>2, <2>3, <1>0
<1>9. (IF p = 1 THEN nx[s[p]] ELSE h) = IF u = <<>> THEN NIL ELSE u[1]
  <2>1. CASE p = 1
    <3>1. nx[s[p]] = IF L = 1 THEN NIL ELSE s[2]
      BY <2>1, <1>0, <1>4
    <3>2. L # 1 => 1 \in p .. L - 1
      BY <2>1, <1>0
    <3>3. L # 1 => u[1] = s[2]
      BY <3>2, <1>3
    <3> QED BY <2>1, <3>1, <3>3, <1>6
  <2>2. CASE p # 1
    <3>1. 1 \in 1 .. p - 1 /\ L # 1
      BY <2>2, <1>0
    <3>2. h = s[1] /\ u[1] = s[1]
      BY <3>1, <1>0, <1>2 DEF QChained
    <3> QED BY <2>2, <3>1, <3>2, <1>6
  <2> QED BY <2>1, <2>2
<1>10. (IF p = L THEN pv[s[p]] ELSE t) = IF u = <<>> THEN NIL ELSE u[Len(u)]
  <2>1. CASE p = L
    <3>1. pv[s[p]] = IF L = 1 THEN NIL ELSE s[L - 1]
      BY <2>1, <1>0, <1>4
    <3>2. L # 1 => L - 1 \in 1 .. p - 1
      BY <2>1, <1>0
    <3>3. L # 1 => u[L - 1] = s[L - 1]
      BY <3>2, <1>2
    <3> QED BY <2>1, <3>1, <3>3, <1>1, <1>6
  <2>2. CASE p # L
    <3>1. L - 1 \in p .. L - 1 /\ L # 1 /\ (L - 1) + 1 = L
      BY <2>2, <1>0
    <3>2. t = s[L] /\ u[L - 1] = s[L]
      BY <3>1, <1>0, <1>3, <1>l DEF QChained
    <3> QED BY <2>2, <3>1, <3>2, <1>1, <1>6
  <2> QED BY <2>1, <2>2
<1> QED BY <1>1, <1>7, <1>8, <1>9, <1>10, <1>l DEF QChained
\* The items that the nodes of s stand for.
Cards(s, key, data) == [i \in 1 .. Len(s) |-> [key |-> key[s[i]], data |-> data[s[i]]]]

AllCards(N, key, data) == {[key |-> key[n], data |-> data[n]] : n \in N}

\* c is the items of s, one by one.
AreCards(c, s, key, data) ==
  /\ Len(c) = Len(s)
  /\ \A i \in 1 .. Len(s) : c[i] = [key |-> key[s[i]], data |-> data[s[i]]]

LEMMA CardFacts ==
  ASSUME NEW N, NEW s \in Seq(N), NEW key, NEW data
  PROVE  /\ Cards(s, key, data) \in Seq(AllCards(N, key, data))
         /\ AreCards(Cards(s, key, data), s, key, data)
<1> DEFINE C == AllCards(N, key, data)
           c == Cards(s, key, data)
<1>1. Len(s) \in Nat /\ \A i \in 1 .. Len(s) : s[i] \in N
  OBVIOUS
<1>2. \A i \in 1 .. Len(s) : c[i] = [key |-> key[s[i]], data |-> data[s[i]]]
  BY DEF Cards
<1>3. c \in [1 .. Len(s) -> C]
  <2>1. \A i \in 1 .. Len(s) : [key |-> key[s[i]], data |-> data[s[i]]] \in C
    BY <1>1 DEF AllCards
  <2> HIDE DEF C
  <2> QED BY <2>1 DEF Cards
<1> HIDE DEF C, c
<1>4. c \in Seq(C) /\ Len(c) = Len(s)
  BY <1>1, <1>3
<1> QED BY <1>1, <1>2, <1>4 DEF c, C, AreCards

LEMMA CardsInserted ==
  ASSUME NEW N, NEW s \in Seq(N), NEW key, NEW data,
         NEW p \in 0 .. Len(s), NEW n \in N, NEW u \in Seq(N), IsInserted(u, s, p, n)
  PROVE  Cards(u, key, data) =
           InsertAt(Cards(s, key, data), p + 1, [key |-> key[n], data |-> data[n]])
<1> DEFINE C == AllCards(N, key, data)
           r == [key |-> key[n], data |-> data[n]]
           c == Cards(s, key, data)
           d == Cards(u, key, data)
           v == InsertAt(c, p + 1, r)
<1>0. Len(s) \in Nat /\ p \in 0 .. Len(s)
  OBVIOUS
<1>1. /\ c \in Seq(C) /\ Len(c) = Len(s)
      /\ \A i \in 1 .. Len(s) : c[i] = [key |-> key[s[i]], data |-> data[s[i]]]
  <2>1. c \in Seq(C) /\ AreCards(c, s, key, data)
    BY CardFacts
  <2> QED BY <2>1 DEF AreCards
<1>2. /\ d \in Seq(C) /\ Len(d) = Len(u)
      /\ \A i \in 1 .. Len(u) : d[i] = [key |-> key[u[i]], data |-> data[u[i]]]
  <2>1. d \in Seq(C) /\ AreCards(d, u, key, data)
    BY CardFacts
  <2> QED BY <2>1 DEF AreCards
<1>3. r \in C
  BY DEF AllCards
<1> HIDE DEF C, r, c, d
<1>4. v \in Seq(C) /\ IsInserted(v, c, p, r)
  BY <1>1, <1>3, InsertAtInserts
<1> HIDE DEF v
<1>5. Len(u) = Len(s) + 1 /\ Len(v) = Len(s) + 1 /\ u[p + 1] = n /\ v[p + 1] = r
  BY <1>1, <1>4 DEF IsInserted
<1>6. ASSUME NEW i \in 1 .. Len(s) + 1 PROVE d[i] = v[i]
  <2>0. d[i] = [key |-> key[u[i]], data |-> data[u[i]]]
    BY <1>2, <1>5
  <2>1. CASE i <= p
    <3>1. i \in 1 .. p /\ i \in 1 .. Len(s)
      BY <2>1, <1>0
    <3>2. u[i] = s[i]
      BY <3>1 DEF IsInserted
    <3>3. v[i] = c[i]
      BY <3>1, <1>4 DEF IsInserted
    <3> QED BY <2>0, <3>1, <3>2, <3>3, <1>1
  <2>2. CASE i = p + 1
    BY <2>0, <2>2, <1>5 DEF r
  <2>3. CASE i > p + 1
    <3>1. i \in p + 2 .. Len(s) + 1 /\ i - 1 \in 1 .. Len(s)
      BY <2>3, <1>0
    <3>2. u[i] = s[i - 1]
      BY <3>1 DEF IsInserted
    <3>3. v[i] = c[i - 1]
      BY <3>1, <1>1, <1>4 DEF IsInserted
    <3> QED BY <2>0, <3>1, <3>2, <3>3, <1>1
  <2> QED BY <2>1, <2>2, <2>3, <1>0
<1>7. d = v
  BY <1>2, <1>4, <1>5, <1>6
<1> QED BY <1>7 DEF c, d, r, v

LEMMA CardsRemoved ==
  ASSUME NEW N, NEW s \in Seq(N), NEW key, NEW data,
         NEW p \in 1 .. Len(s), NEW u \in Seq(N), IsRemoved(u, s, p)
  PROVE  Cards(u, key, data) = RemoveAt(Cards(s, key, data), p)
<1> DEFINE C == AllCards(N, key, data)
           c == Cards(s, key, data)
           d == Cards(u, key, data)
           v == RemoveAt(c, p)
<1>0. Len(s) \in Nat /\ p \in 1 .. Len(s)
  OBVIOUS
<1>1. /\ c \in Seq(C) /\ Len(c) = Len(s)
      /\ \A i \in 1 .. Len(s) : c[i] = [key |-> key[s[i]], data |-> data[s[i]]]
  <2>1. c \in Seq(C) /\ AreCards(c, s, key, data)
    BY CardFacts
  <2> QED BY <2>1 DEF AreCards
<1>2. /\ d \in Seq(C) /\ Len(d) = Len(u)
      /\ \A i \in 1 .. Len(u) : d[i] = [key |-> key[u[i]], data |-> data[u[i]]]
  <2>1. d \in Seq(C) /\ AreCards(d, u, key, data)
    BY CardFacts
  <2> QED BY <2>1 DEF AreCards
<1> HIDE DEF C, c, d
<1>4. v \in Seq(C) /\ IsRemoved(v, c, p)
  BY <1>1, RemoveAtRemoves
<1> HIDE DEF v
<1>5. Len(u) = Len(s) - 1 /\ Len(v) = Len(s) - 1
  BY <1>1, <1>4 DEF IsRemoved
<1>6. ASSUME NEW i \in 1 .. Len(s) - 1 PROVE d[i] = v[i]
  <2>0. d[i] = [key |-> key[u[i]], data |-> data[u[i]]]
    BY <1>2, <1>5
  <2>1. CASE i < p
    <3>1. i \in 1 .. p - 1 /\ i \in 1 .. Len(s)
      BY <2>1, <1>0
    <3>2. u[i] = s[i]
      BY <3>1 DEF IsRemoved
    <3>3. v[i] = c[i]
      BY <3>1, <1>4 DEF IsRemoved
    <3> QED BY <2>0, <3>1, <3>2, <3>3, <1>1
  <2>2. CASE i >= p
    <3>1. i \in p .. Len(s) - 1 /\ i + 1 \in 1 .. Len(s)
      BY <2>2, <1>0
    <3>2. u[i] = s[i + 1]
      BY <3>1 DEF IsRemoved
    <3>3. v[i] = c[i + 1]
      BY <3>1, <1>1, <1>4 DEF IsRemoved
    <3> QED BY <2>0, <3>1, <3>2, <3>3, <1>1
  <2> QED BY <2>1, <2>2, <1>0
<1>7. d = v
  BY <1>2, <1>4, <1>5, <1>6
<1> QED BY <1>7 DEF c, d, v
-----------------------------------------------------------------------------
(* The invariant of the queues.                                            *)

Addresses == QueueNodes \cup {NIL}

QTyped ==
  /\ qprev \in [QueueNodes -> Addresses] /\ qnext \in [QueueNodes -> Addresses]
  /\ qkey \in [QueueNodes -> QueueKeys]
  /\ qdata \in [QueueNodes -> Data \cup {AnyDatum}]
  /\ head \in [Queues -> Addresses] /\ tail \in [Queues -> Addresses]
  /\ order \in [Queues -> Seq(QueueNodes)]

\* Each queue is the chain of its nodes, in both directions.
QLinked == \A q \in Queues : QChained(order[q], head[q], tail[q], qnext, qprev)

\* No node is twice in a queue, in two queues, or in a queue and in a call.
QApart ==
  /\ \A q \in Queues : \A i, j \in 1 .. Len(order[q]) :
       order[q][i] = order[q][j] => i = j
  /\ \A q, r \in Queues : q # r =>
       \A i \in 1 .. Len(order[q]), j \in 1 .. Len(order[r]) : order[q][i] # order[r][j]
  /\ \A q \in Queues : \A i \in 1 .. Len(order[q]) : order[q][i] # qn

\* The cursor of _q_insert is behind keys that are not larger.
InsertSoFar ==
  LET s == order[que] IN
  IF curr = NIL
  THEN que \in OrderedQueues => \A i \in 1 .. Len(s) : qkey[s[i]] <= qkey[qn]
  ELSE /\ que \in OrderedQueues
       /\ \E j \in 1 .. Len(s) : /\ s[j] = curr
                                 /\ \A i \in 1 .. j - 1 : qkey[s[i]] <= qkey[qn]

\* The cursor of a search is behind keys that are not the one to find.
FindSoFar ==
  LET s == order[que] IN
  IF curr = NIL
  THEN \A i \in 1 .. Len(s) : qkey[s[i]] # goal
  ELSE \E j \in 1 .. Len(s) : s[j] = curr /\ \A i \in 1 .. j - 1 : qkey[s[i]] # goal

QCall ==
  /\ qphase \in {"idle", "insert", "find"}
  /\ qphase # "insert" => qn = NIL
  /\ qphase = "insert" =>
       que \in Queues /\ qn \in QueueNodes /\ qdata[qn] \in Data /\ InsertSoFar
  /\ qphase = "find" => que \in Queues /\ goal \in QueueKeys /\ FindSoFar

QInv == QTyped /\ QLinked /\ QApart /\ QCall

LEMMA LinksFacts ==
  /\ OrderedQueues \subseteq Queues /\ QueueKeys \subseteq Nat
  /\ AnyKey \in QueueKeys /\ NIL \notin QueueNodes
BY LinksAssumptions DEF LinksAssumption, AnyKey

LEMMA InitQInv == QInit => QInv
<1> SUFFICES ASSUME QInit PROVE QInv
  OBVIOUS
<1>1. QTyped
  BY LinksFacts DEF QInit, QTyped, Addresses
<1>2. QLinked
  BY DEF QInit, QLinked, QChained
<1>3. QApart
  BY DEF QInit, QApart
<1>4. QCall
  BY DEF QInit, QCall
<1> QED BY <1>1, <1>2, <1>3, <1>4 DEF QInv

LEMMA QueueFacts ==
  ASSUME QInv, NEW q \in Queues
  PROVE  /\ order[q] \in Seq(QueueNodes) /\ Len(order[q]) \in Nat
         /\ DOMAIN order[q] = 1 .. Len(order[q])
         /\ (order[q] = <<>> <=> Len(order[q]) = 0)
         /\ \A i \in 1 .. Len(order[q]) :
              order[q][i] \in QueueNodes /\ order[q][i] # NIL
         /\ QChained(order[q], head[q], tail[q], qnext, qprev)
         /\ \A i, j \in 1 .. Len(order[q]) : order[q][i] = order[q][j] => i = j
<1>1. order[q] \in Seq(QueueNodes)
  BY DEF QInv, QTyped
<1>2. QChained(order[q], head[q], tail[q], qnext, qprev)
  BY DEF QInv, QLinked
<1>3. \A i, j \in 1 .. Len(order[q]) : order[q][i] = order[q][j] => i = j
  BY DEF QInv, QApart
<1> QED BY <1>1, <1>2, <1>3, LinksFacts

\* A chain whose nodes are not written stays one.
LEMMA ChainKept ==
  ASSUME NEW s, NEW h, NEW t, NEW nx, NEW pv, QChained(s, h, t, nx, pv),
         NEW nx2, NEW pv2,
         \A i \in 1 .. Len(s) : nx2[s[i]] = nx[s[i]] /\ pv2[s[i]] = pv[s[i]]
  PROVE  QChained(s, h, t, nx2, pv2)
BY DEF QChained

-----------------------------------------------------------------------------
(* A node is linked in, a node is linked out.                              *)

\* The fields that were not written: those of no node of queue q, nor n.
OthersKept(q, n, f, f2) ==
  \A m \in QueueNodes :
    m # n /\ (\A i \in 1 .. Len(order[q]) : order[q][i] # m) => f2[m] = f[m]

LEMMA LinkedInSound ==
  ASSUME QInv, qphase = "insert", NEW p \in 0 .. Len(order[que]),
         NEW u \in Seq(QueueNodes), IsInserted(u, order[que], p, qn),
         order' = [order EXCEPT ![que] = u],
         LinkedIn(order[que], p, qn, qnext, qprev, qnext', qprev'),
         OthersKept(que, qn, qnext, qnext'), OthersKept(que, qn, qprev, qprev'),
         head' = [head EXCEPT ![que] = IF p = 0 THEN qn ELSE head[que]],
         tail' = [tail EXCEPT ![que] = IF p = Len(order[que]) THEN qn ELSE tail[que]],
         qprev' \in [QueueNodes -> Addresses], qnext' \in [QueueNodes -> Addresses],
         UNCHANGED <<qkey, qdata>>, qphase' = "idle", qn' = NIL
  PROVE  QInv'
<1>0. que \in Queues /\ qn \in QueueNodes
  BY DEF QInv, QCall
<1> DEFINE s == order[que]
<1>s. s \in Seq(QueueNodes) /\ Len(s) \in Nat /\ order \in [Queues -> Seq(QueueNodes)]
  BY <1>0, QueueFacts DEF QInv, QTyped
<1>1. order'[que] = u /\ \A q \in Queues : q # que => order'[q] = order[q]
  BY <1>0, <1>s
<1>2. /\ head \in [Queues -> Addresses] /\ tail \in [Queues -> Addresses]
  BY DEF QInv, QTyped
<1>3. QTyped'
  <2>1. head' \in [Queues -> Addresses] /\ tail' \in [Queues -> Addresses]
    BY <1>0, <1>2 DEF Addresses
  <2>2. order' \in [Queues -> Seq(QueueNodes)]
    BY <1>0, <1>s
  <2>3. /\ qkey' \in [QueueNodes -> QueueKeys]
        /\ qdata' \in [QueueNodes -> Data \cup {AnyDatum}]
    BY DEF QInv, QTyped
  <2> QED BY <2>1, <2>2, <2>3 DEF QTyped, Addresses
<1>4. QLinked'
  <2>1. QChained(u, head'[que], tail'[que], qnext', qprev')
    <3>1. QChained(s, head[que], tail[que], qnext, qprev)
      BY <1>0, QueueFacts
    <3>2. QChained(u, IF p = 0 THEN qn ELSE head[que],
                   IF p = Len(s) THEN qn ELSE tail[que], qnext', qprev')
      BY <1>s, <3>1, ChainInserted
    <3> QED BY <3>2, <1>0, <1>2
  <2>2. ASSUME NEW q \in Queues, q # que
        PROVE  QChained(order[q], head'[q], tail'[q], qnext', qprev')
    <3>1. QChained(order[q], head[q], tail[q], qnext, qprev)
      BY QueueFacts
    <3>2. head'[q] = head[q] /\ tail'[q] = tail[q]
      BY <2>2, <1>2
    <3>3. ASSUME NEW i \in 1 .. Len(order[q])
          PROVE  /\ qnext'[order[q][i]] = qnext[order[q][i]]
                 /\ qprev'[order[q][i]] = qprev[order[q][i]]
      <4>1. order[q][i] \in QueueNodes
        BY QueueFacts
      <4>2. order[q][i] # qn
        BY DEF QInv, QApart
      <4>3. \A j \in 1 .. Len(order[que]) : order[que][j] # order[q][i]
        BY <1>0, <2>2 DEF QInv, QApart
      <4> QED BY <4>1, <4>2, <4>3 DEF OthersKept
    <3> QED BY <3>1, <3>2, <3>3, ChainKept
  <2> QED BY <1>1, <2>1, <2>2 DEF QLinked
<1>5. QApart'
  <2>m. ASSUME NEW k \in 1 .. Len(u) PROVE u[k] = qn \/ \E j \in 1 .. Len(s) : u[k] = s[j]
    <3>1. IsInserted(u, s, p, qn) /\ p \in 0 .. Len(s)
      OBVIOUS
    <3> HIDE DEF s
    <3> QED BY <1>s, <3>1, InsertedMembers
  <2>f. \A i \in 1 .. Len(s) : s[i] # qn
    BY <1>0 DEF QInv, QApart
  <2>d. \A i, j \in 1 .. Len(s) : s[i] = s[j] => i = j
    BY <1>0 DEF QInv, QApart
  <2>1. ASSUME NEW i \in 1 .. Len(u), NEW j \in 1 .. Len(u), u[i] = u[j] PROVE i = j
    BY <1>s, <2>f, <2>d, <2>1, InsertedApart
  <2>2. ASSUME NEW q \in Queues, q # que,
               NEW i \in 1 .. Len(u), NEW j \in 1 .. Len(order[q])
        PROVE  u[i] # order[q][j]
    <3>1. order[q][j] # qn
      BY DEF QInv, QApart
    <3>2. \A k \in 1 .. Len(s) : s[k] # order[q][j]
      BY <1>0, <2>2 DEF QInv, QApart
    <3> QED BY <2>m, <3>1, <3>2
  <2>3. ASSUME NEW q \in Queues, NEW i \in 1 .. Len(order'[q]) PROVE order'[q][i] # NIL
    <3>1. order'[q] \in Seq(QueueNodes)
      BY <1>3 DEF QTyped
    <3> QED BY <3>1, LinksFacts
  <2>4. \A q \in Queues : \A i, j \in 1 .. Len(order'[q]) :
          order'[q][i] = order'[q][j] => i = j
    <3> TAKE q \in Queues
    <3>1. CASE q = que
      BY <3>1, <2>1, <1>1
    <3>2. CASE q # que
      BY <3>2, <1>1 DEF QInv, QApart
    <3> QED BY <3>1, <3>2
  <2>5. ASSUME NEW q \in Queues, NEW r \in Queues, q # r,
               NEW i \in 1 .. Len(order'[q]), NEW j \in 1 .. Len(order'[r])
        PROVE  order'[q][i] # order'[r][j]
    <3>1. CASE q = que
      BY <3>1, <2>2, <2>5, <1>1
    <3>2. CASE r = que
      BY <3>2, <2>2, <2>5, <1>1
    <3>3. CASE q # que /\ r # que
      BY <3>3, <2>5, <1>1 DEF QInv, QApart
    <3> QED BY <3>1, <3>2, <3>3
  <2> QED BY <2>3, <2>4, <2>5 DEF QApart
<1>6. QCall'
  BY DEF QCall
<1> QED BY <1>3, <1>4, <1>5, <1>6 DEF QInv
LEMMA LinkedOutSound ==
  ASSUME QInv, NEW q \in Queues, NEW p \in 1 .. Len(order[q]),
         NEW u \in Seq(QueueNodes), IsRemoved(u, order[q], p),
         order' = [order EXCEPT ![q] = u],
         LinkedOut(order[q], p, qnext, qprev, qnext', qprev'),
         OthersKept(q, NIL, qnext, qnext'), OthersKept(q, NIL, qprev, qprev'),
         head' = [head EXCEPT ![q] = IF p = 1 THEN qnext[order[q][p]] ELSE head[q]],
         tail' = [tail EXCEPT ![q] = IF p = Len(order[q]) THEN qprev[order[q][p]]
                                     ELSE tail[q]],
         qprev' \in [QueueNodes -> Addresses], qnext' \in [QueueNodes -> Addresses],
         UNCHANGED <<qkey, qdata>>, qphase' = "idle", qn' = NIL
  PROVE  QInv'
<1> DEFINE s == order[q]
<1>s. s \in Seq(QueueNodes) /\ Len(s) \in Nat /\ order \in [Queues -> Seq(QueueNodes)]
  BY QueueFacts DEF QInv, QTyped
<1>1. order'[q] = u /\ \A r \in Queues : r # q => order'[r] = order[r]
  BY <1>s
<1>2. /\ head \in [Queues -> Addresses] /\ tail \in [Queues -> Addresses]
      /\ qnext[s[p]] \in Addresses /\ qprev[s[p]] \in Addresses
  BY <1>s DEF QInv, QTyped
<1>3. QTyped'
  <2>1. head' \in [Queues -> Addresses] /\ tail' \in [Queues -> Addresses]
    BY <1>2
  <2>2. order' \in [Queues -> Seq(QueueNodes)]
    BY <1>s
  <2>3. /\ qkey' \in [QueueNodes -> QueueKeys]
        /\ qdata' \in [QueueNodes -> Data \cup {AnyDatum}]
    BY DEF QInv, QTyped
  <2> QED BY <2>1, <2>2, <2>3 DEF QTyped, Addresses
<1>4. QLinked'
  <2>1. QChained(u, head'[q], tail'[q], qnext', qprev')
    <3>1. QChained(s, head[q], tail[q], qnext, qprev)
      BY QueueFacts
    <3>2. QChained(u, IF p = 1 THEN qnext[s[p]] ELSE head[q],
                   IF p = Len(s) THEN qprev[s[p]] ELSE tail[q], qnext', qprev')
      BY <1>s, <3>1, ChainRemoved
    <3> QED BY <3>2, <1>2
  <2>2. ASSUME NEW r \in Queues, r # q
        PROVE  QChained(order[r], head'[r], tail'[r], qnext', qprev')
    <3>1. QChained(order[r], head[r], tail[r], qnext, qprev)
      BY QueueFacts
    <3>2. head'[r] = head[r] /\ tail'[r] = tail[r]
      BY <2>2, <1>2
    <3>3. ASSUME NEW i \in 1 .. Len(order[r])
          PROVE  /\ qnext'[order[r][i]] = qnext[order[r][i]]
                 /\ qprev'[order[r][i]] = qprev[order[r][i]]
      <4>1. order[r][i] \in QueueNodes /\ order[r][i] # NIL
        BY QueueFacts
      <4>3. \A j \in 1 .. Len(order[q]) : order[q][j] # order[r][i]
        BY <2>2 DEF QInv, QApart
      <4> QED BY <4>1, <4>3 DEF OthersKept
    <3> QED BY <3>1, <3>2, <3>3, ChainKept
  <2> QED BY <1>1, <2>1, <2>2 DEF QLinked
<1>5. QApart'
  <2>m. ASSUME NEW k \in 1 .. Len(u) PROVE \E j \in 1 .. Len(s) : u[k] = s[j]
    <3>1. IsRemoved(u, s, p) /\ p \in 1 .. Len(s)
      OBVIOUS
    <3> HIDE DEF s
    <3> QED BY <1>s, <3>1, RemovedMembers
  <2>d. \A i, j \in 1 .. Len(s) : s[i] = s[j] => i = j
    BY DEF QInv, QApart
  <2>1. ASSUME NEW i \in 1 .. Len(u), NEW j \in 1 .. Len(u), u[i] = u[j] PROVE i = j
    BY <1>s, <2>d, <2>1, RemovedApart
  <2>2. ASSUME NEW r \in Queues, r # q,
               NEW i \in 1 .. Len(u), NEW j \in 1 .. Len(order[r])
        PROVE  u[i] # order[r][j]
    <3>2. \A k \in 1 .. Len(s) : s[k] # order[r][j]
      BY <2>2 DEF QInv, QApart
    <3> QED BY <2>m, <3>2
  <2>3. ASSUME NEW r \in Queues, NEW i \in 1 .. Len(order'[r]) PROVE order'[r][i] # NIL
    <3>1. order'[r] \in Seq(QueueNodes)
      BY <1>3 DEF QTyped
    <3> QED BY <3>1, LinksFacts
  <2>4. \A r \in Queues : \A i, j \in 1 .. Len(order'[r]) :
          order'[r][i] = order'[r][j] => i = j
    <3> TAKE r \in Queues
    <3>1. CASE r = q
      BY <3>1, <2>1, <1>1
    <3>2. CASE r # q
      BY <3>2, <1>1 DEF QInv, QApart
    <3> QED BY <3>1, <3>2
  <2>5. ASSUME NEW r1 \in Queues, NEW r2 \in Queues, r1 # r2,
               NEW i \in 1 .. Len(order'[r1]), NEW j \in 1 .. Len(order'[r2])
        PROVE  order'[r1][i] # order'[r2][j]
    <3>1. CASE r1 = q
      BY <3>1, <2>2, <2>5, <1>1
    <3>2. CASE r2 = q
      BY <3>2, <2>2, <2>5, <1>1
    <3>3. CASE r1 # q /\ r2 # q
      BY <3>3, <2>5, <1>1 DEF QInv, QApart
    <3> QED BY <3>1, <3>2, <3>3
  <2> QED BY <2>3, <2>4, <2>5 DEF QApart
<1>6. QCall'
  BY DEF QCall
<1> QED BY <1>3, <1>4, <1>5, <1>6 DEF QInv

-----------------------------------------------------------------------------
(* The steps, and what they promise.                                       *)

LEMMA ItemsAreCards == Items = [q \in Queues |-> Cards(order[q], qkey, qdata)]
BY DEF Items, Cards

LEMMA ItemFacts ==
  ASSUME QInv, NEW q \in Queues
  PROVE  /\ Items[q] = Cards(order[q], qkey, qdata)
         /\ Len(Items[q]) = Len(order[q])
         /\ \A i \in 1 .. Len(order[q]) :
              Items[q][i] = [key |-> qkey[order[q][i]], data |-> qdata[order[q][i]]]
<1>1. Items[q] = Cards(order[q], qkey, qdata)
  BY ItemsAreCards
<1>2. AreCards(Items[q], order[q], qkey, qdata)
  BY <1>1, QueueFacts, CardFacts
<1> QED BY <1>1, <1>2 DEF AreCards

LEMMA ItemAt ==
  ASSUME QInv, NEW q \in Queues, NEW i \in 1 .. Len(order[q])
  PROVE  /\ Items[q][i].key = qkey[order[q][i]] /\ Items[q][i].data = qdata[order[q][i]]
         /\ i \in 1 .. Len(Items[q])
<1>1. Items[q][i] = [key |-> qkey[order[q][i]], data |-> qdata[order[q][i]]]
  BY ItemFacts
<1> QED BY <1>1, ItemFacts

\* The items change as the nodes do.
LEMMA ItemsInserted ==
  ASSUME QInv, NEW q \in Queues, NEW p \in 0 .. Len(order[q]), NEW n \in QueueNodes,
         NEW u \in Seq(QueueNodes), IsInserted(u, order[q], p, n),
         order' = [order EXCEPT ![q] = u], UNCHANGED <<qkey, qdata>>
  PROVE  Items' = [Items EXCEPT ![q] =
                     InsertAt(Items[q], p + 1, [key |-> qkey[n], data |-> qdata[n]])]
<1>1. Cards(u, qkey, qdata) =
        InsertAt(Items[q], p + 1, [key |-> qkey[n], data |-> qdata[n]])
  <2>1. order[q] \in Seq(QueueNodes) /\ Items[q] = Cards(order[q], qkey, qdata)
    BY QueueFacts, ItemFacts
  <2> QED BY <2>1, CardsInserted
<1>2. Items' = [r \in Queues |-> Cards(order'[r], qkey, qdata)]
  BY DEF Items, Cards
<1>3. order \in [Queues -> Seq(QueueNodes)]
  BY DEF QInv, QTyped
<1> QED BY <1>1, <1>2, <1>3, ItemsAreCards

LEMMA ItemsRemoved ==
  ASSUME QInv, NEW q \in Queues, NEW p \in 1 .. Len(order[q]),
         NEW u \in Seq(QueueNodes), IsRemoved(u, order[q], p),
         order' = [order EXCEPT ![q] = u], UNCHANGED <<qkey, qdata>>
  PROVE  Items' = [Items EXCEPT ![q] = RemoveAt(Items[q], p)]
<1>1. Cards(u, qkey, qdata) = RemoveAt(Items[q], p)
  <2>1. order[q] \in Seq(QueueNodes) /\ Items[q] = Cards(order[q], qkey, qdata)
    BY QueueFacts, ItemFacts
  <2> QED BY <2>1, CardsRemoved
<1>2. Items' = [r \in Queues |-> Cards(order'[r], qkey, qdata)]
  BY DEF Items, Cards
<1>3. order \in [Queues -> Seq(QueueNodes)]
  BY DEF QInv, QTyped
<1> QED BY <1>1, <1>2, <1>3, ItemsAreCards

\* The promise uses the same two operators.
LEMMA SameOperators ==
  ASSUME NEW s, NEW i, NEW e
  PROVE  KQ!InsertAt(s, i, e) = InsertAt(s, i, e) /\ KQ!RemoveAt(s, i) = RemoveAt(s, i)
BY DEF KQ!InsertAt, KQ!RemoveAt, InsertAt, RemoveAt
LEMMA PositionFound ==
  ASSUME NEW s, Len(s) \in Nat, NEW k \in Nat, NEW p \in 0 .. Len(s),
         \A i \in 1 .. Len(s) : s[i].key \in Nat,
         \A i \in 1 .. p : s[i].key <= k,
         p = Len(s) \/ k < s[p + 1].key
  PROVE  KQ!Position(s, k) = p
<1> DEFINE Fits(n) == /\ \A i \in 1 .. n : s[i].key <= k
                      /\ n = Len(s) \/ k < s[n + 1].key
<1>1. Fits(p)
  OBVIOUS
<1>2. ASSUME NEW n \in 0 .. Len(s), Fits(n) PROVE n = p
  <2>1. CASE n < p
    <3>1. n + 1 \in 1 .. p /\ n # Len(s) /\ n + 1 \in 1 .. Len(s)
      BY <2>1
    <3>2. k < s[n + 1].key /\ s[n + 1].key <= k
      BY <3>1, <1>2
    <3> QED BY <3>1, <3>2
  <2>2. CASE p < n
    <3>1. p + 1 \in 1 .. n /\ p # Len(s) /\ p + 1 \in 1 .. Len(s)
      BY <2>2
    <3>2. k < s[p + 1].key /\ s[p + 1].key <= k
      BY <3>1, <1>2
    <3> QED BY <3>1, <3>2
  <2> QED BY <2>1, <2>2
<1>3. KQ!Position(s, k) = CHOOSE n \in 0 .. Len(s) : Fits(n)
  BY DEF KQ!Position
<1> HIDE DEF Fits
<1> QED BY <1>1, <1>2, <1>3

LEMMA BeforeFound ==
  ASSUME NEW s, Len(s) \in Nat, NEW j \in 1 .. Len(s),
         \A i, k \in 1 .. Len(s) : s[i] = s[k] => i = k
  PROVE  Before(s, s[j]) = j - 1
<1>1. j - 1 \in 0 .. (Len(s) - 1) /\ s[(j - 1) + 1] = s[j]
  OBVIOUS
<1>2. ASSUME NEW n \in 0 .. (Len(s) - 1), s[n + 1] = s[j] PROVE n = j - 1
  <2>1. n + 1 \in 1 .. Len(s)
    OBVIOUS
  <2>2. n + 1 = j
    BY <1>2, <2>1
  <2> QED BY <2>2
<1>3. Before(s, s[j]) = CHOOSE n \in 0 .. (Len(s) - 1) : s[n + 1] = s[j]
  BY DEF Before
<1>4. PICK m : m = j - 1
  OBVIOUS
<1>5. m \in 0 .. (Len(s) - 1) /\ s[m + 1] = s[j]
  BY <1>1, <1>4
<1>6. \A n \in 0 .. (Len(s) - 1) : s[n + 1] = s[j] => n = m
  BY <1>2, <1>4
<1> QED BY <1>3, <1>4, <1>5, <1>6

\* The abstract step for an insertion.
LEMMA InsertPromised ==
  ASSUME QInv, qphase = "insert", NEW p \in 0 .. Len(order[que]),
         NEW u \in Seq(QueueNodes), IsInserted(u, order[que], p, qn),
         order' = [order EXCEPT ![que] = u], UNCHANGED <<qkey, qdata>>,
         result' = "SUCCESS",
         que \notin OrderedQueues => p = Len(order[que]),
         que \in OrderedQueues =>
           /\ \A i \in 1 .. p : qkey[order[que][i]] <= qkey[qn]
           /\ p = Len(order[que]) \/ qkey[qn] < qkey[order[que][p + 1]]
  PROVE  KQ!ANext
<1> DEFINE s == order[que]
           c == Items[que]
           k == qkey[qn]
           d == qdata[qn]
<1>0. que \in Queues /\ qn \in QueueNodes /\ d \in Data /\ k \in QueueKeys
      /\ k \in Nat /\ Len(s) \in Nat
  BY LinksFacts, QueueFacts DEF QInv, QCall, QTyped
<1>1. /\ Len(c) = Len(s)
      /\ \A i \in 1 .. Len(s) : c[i] = [key |-> qkey[s[i]], data |-> qdata[s[i]]]
  BY <1>0, ItemFacts
<1>2. ASSUME NEW i \in 1 .. Len(s) PROVE qkey[s[i]] \in Nat /\ c[i].key = qkey[s[i]]
  <2>1. s[i] \in QueueNodes
    BY <1>0, QueueFacts
  <2>2. qkey \in [QueueNodes -> QueueKeys] /\ QueueKeys \subseteq Nat
    BY LinksFacts DEF QInv, QTyped
  <2>3. c[i] = [key |-> qkey[s[i]], data |-> qdata[s[i]]]
    BY <1>1
  <2>4. c[i].key = qkey[s[i]]
    BY <2>3
  <2>5. qkey[s[i]] \in QueueKeys
    BY <2>1, <2>2
  <2> QED BY <2>2, <2>4, <2>5
<1>3. (IF que \in OrderedQueues THEN KQ!Position(c, k) ELSE Len(c)) = p
  <2>1. CASE que \in OrderedQueues
    <3>1. \A i \in 1 .. p : c[i].key <= k
      <4> TAKE i \in 1 .. p
      <4>1. i \in 1 .. Len(s)
        BY <1>0
      <4> QED BY <2>1, <4>1, <1>2
    <3>2. p = Len(c) \/ k < c[p + 1].key
      <4>1. CASE p = Len(s)
        BY <4>1, <1>1
      <4>2. CASE p # Len(s)
        <5>1. p + 1 \in 1 .. Len(s)
          BY <4>2, <1>0
        <5> QED BY <2>1, <4>2, <5>1, <1>2
      <4> QED BY <4>1, <4>2
    <3>3. \A i \in 1 .. Len(c) : c[i].key \in Nat
      BY <1>1, <1>2
    <3>4. Len(c) \in Nat /\ p \in 0 .. Len(c)
      BY <1>0, <1>1
    <3> HIDE DEF c, k, s
    <3> QED BY <2>1, <3>1, <3>2, <3>3, <3>4, <1>0, PositionFound
  <2>2. CASE que \notin OrderedQueues
    BY <2>2, <1>1
  <2> QED BY <2>1, <2>2
<1>4. Items' = [Items EXCEPT ![que] = InsertAt(c, p + 1, [key |-> k, data |-> d])]
  BY <1>0, ItemsInserted
<1>5. Items' = [Items EXCEPT ![que] = KQ!InsertAt(c, p + 1, [key |-> k, data |-> d])]
  BY <1>4, SameOperators
<1>6. KQ!AInsert(que, k, d)
  BY <1>3, <1>5 DEF KQ!AInsert
<1> QED BY <1>0, <1>6 DEF KQ!ANext

\* Nothing happens to the items and nothing is answered.
LEMMA SameItems ==
  ASSUME UNCHANGED <<order, qkey, qdata>> PROVE UNCHANGED Items
BY DEF Items

LEMMA QueueInsertStep ==
  ASSUME QInv, NEW q \in Queues, NEW k \in QueueKeys, NEW d \in Data,
         QueueInsert(q, k, d)
  PROVE  QInv' /\ UNCHANGED <<Items, result>>
<1>1. PICK n \in FreeNodes :
        /\ qn' = n /\ qkey' = [qkey EXCEPT ![n] = k] /\ qdata' = [qdata EXCEPT ![n] = d]
  BY DEF QueueInsert
<1>2. /\ qphase = "idle" /\ qphase' = "insert" /\ que' = q
      /\ curr' = IF q \in OrderedQueues THEN head[q] ELSE NIL
      /\ UNCHANGED <<qprev, qnext, head, tail, order, result>>
  BY DEF QueueInsert
<1>3. n \in QueueNodes /\ \A r \in Queues : \A i \in 1 .. Len(order[r]) : order[r][i] # n
  <2>1. n \in QueueNodes /\ \A r \in Queues : n \notin Range(order[r])
    BY DEF FreeNodes
  <2>2. ASSUME NEW r \in Queues, NEW i \in 1 .. Len(order[r]) PROVE order[r][i] # n
    <3>1. i \in DOMAIN order[r] /\ n \notin Range(order[r])
      BY <2>1, QueueFacts
    <3> QED BY <3>1 DEF Range
  <2> QED BY <2>1, <2>2
<1>4. QTyped'
  BY <1>1, <1>2, <1>3 DEF QInv, QTyped, Addresses
<1>5. QLinked'
  BY <1>2 DEF QInv, QLinked
<1>6. QApart'
  BY <1>1, <1>2, <1>3 DEF QInv, QApart
<1>7. QCall'
  <2>1. qdata'[n] \in Data
    BY <1>1, <1>3 DEF QInv, QTyped
  <2>2. InsertSoFar'
    <3>1. CASE curr' = NIL /\ q \in OrderedQueues
      <4>1. Len(order[q]) = 0
        BY <1>2, <3>1, QueueFacts DEF QChained
      <4> QED BY <1>2, <3>1, <4>1 DEF InsertSoFar
    <3>2. CASE curr' = NIL /\ q \notin OrderedQueues
      BY <1>2, <3>2 DEF InsertSoFar
    <3>3. CASE curr' # NIL
      <4>1. q \in OrderedQueues /\ curr' = order[q][1] /\ 1 \in 1 .. Len(order[q])
        BY <1>2, <3>3, QueueFacts DEF QChained
      <4>2. \A i \in 1 .. 1 - 1 : qkey'[order[q][i]] <= qkey'[qn']
        OBVIOUS
      <4> QED BY <1>2, <3>3, <4>1, <4>2 DEF InsertSoFar
    <3> QED BY <3>1, <3>2, <3>3
  <2> QED BY <1>1, <1>2, <1>3, <2>1, <2>2 DEF QCall
<1>8. Items' = Items
  <2>1. ASSUME NEW r \in Queues, NEW i \in 1 .. Len(order[r])
        PROVE  qkey'[order[r][i]] = qkey[order[r][i]] /\ qdata'[order[r][i]] = qdata[order[r][i]]
    <3>1. order[r][i] \in QueueNodes
      BY QueueFacts
    <3> QED BY <3>1, <1>1, <1>3 DEF QInv, QTyped
  <2> QED BY <2>1, <1>2 DEF Items
<1> QED BY <1>2, <1>4, <1>5, <1>6, <1>7, <1>8 DEF QInv

\* The fields of the queues stay, and so does what they say of the pointers.
LEMMA FieldsKept ==
  ASSUME QInv, UNCHANGED <<fields, order>>, qn' = qn \/ qn' = NIL, QCall'
  PROVE  QInv' /\ UNCHANGED Items
<1>1. UNCHANGED <<qprev, qnext, qkey, qdata, head, tail, order>>
  BY DEF fields
<1>2. QTyped' /\ QLinked'
  BY <1>1 DEF QInv, QTyped, QLinked
<1>3. QApart'
  <2>1. \A q \in Queues : \A i \in 1 .. Len(order[q]) : order[q][i] # qn'
    BY QueueFacts DEF QInv, QApart
  <2> QED BY <2>1, <1>1 DEF QInv, QApart
<1> QED BY <1>1, <1>2, <1>3, SameItems DEF QInv

\* The node behind the one at j.
LEMMA NextOf ==
  ASSUME QInv, NEW q \in Queues, NEW j \in 1 .. Len(order[q])
  PROVE  /\ qnext[order[q][j]] = IF j = Len(order[q]) THEN NIL ELSE order[q][j + 1]
         /\ qprev[order[q][j]] = IF j = 1 THEN NIL ELSE order[q][j - 1]
         /\ order[q][j] \in QueueNodes /\ order[q][j] # NIL
BY QueueFacts DEF QChained

LEMMA InsertStepStep ==
  ASSUME QInv, InsertStep PROVE QInv' /\ UNCHANGED <<Items, result>>
<1>1. /\ qphase = "insert" /\ curr # NIL /\ qkey[curr] <= qkey[qn] /\ curr' = qnext[curr]
      /\ UNCHANGED <<fields, qphase, que, qn, goal, take, result, order>>
  BY DEF InsertStep, Goes
<1>2. que \in Queues /\ qn \in QueueNodes /\ qdata[qn] \in Data /\ InsertSoFar
  BY <1>1 DEF QInv, QCall
<1> DEFINE s == order[que]
<1>3. que \in OrderedQueues
  BY <1>1, <1>2 DEF InsertSoFar
<1>4. PICK j \in 1 .. Len(s) : s[j] = curr /\ \A i \in 1 .. j - 1 : qkey[s[i]] <= qkey[qn]
  BY <1>1, <1>2 DEF InsertSoFar
<1>5. curr' = (IF j = Len(s) THEN NIL ELSE s[j + 1]) /\ Len(s) \in Nat
  BY <1>1, <1>2, <1>4, NextOf, QueueFacts
<1>6. \A i \in 1 .. j : qkey[s[i]] <= qkey[qn]
  <2> TAKE i \in 1 .. j
  <2>1. i = j \/ i \in 1 .. j - 1
    OBVIOUS
  <2> QED BY <2>1, <1>1, <1>4
<1>7. InsertSoFar'
  <2>0. UNCHANGED <<order, que, qn, qkey>>
    BY <1>1 DEF fields
  <2>1. CASE j = Len(s)
    BY <2>0, <2>1, <1>5, <1>6 DEF InsertSoFar
  <2>2. CASE j # Len(s)
    <3>1. j + 1 \in 1 .. Len(s) /\ (j + 1) - 1 = j
      BY <2>2, <1>5
    <3>2. curr' = s[j + 1] /\ curr' # NIL
      BY <2>2, <3>1, <1>2, <1>5, NextOf
    <3> QED BY <2>0, <3>1, <3>2, <1>3, <1>6 DEF InsertSoFar
  <2> QED BY <2>1, <2>2
<1>8. QCall'
  BY <1>1, <1>2, <1>7 DEF QCall, fields
<1> QED BY <1>1, <1>8, FieldsKept

\* A new node in front of the cursor.
LEMMA InsertBeforeStep ==
  ASSUME QInv, InsertBefore PROVE QInv' /\ KQ!ANext
<1> DEFINE s == order[que]
           before == qprev[curr]
<1>1. /\ qphase = "insert" /\ curr # NIL /\ ~(qkey[curr] <= qkey[qn])
      /\ qphase' = "idle" /\ qn' = NIL /\ result' = "SUCCESS"
      /\ UNCHANGED <<qkey, qdata, tail>>
      /\ qprev' = [qprev EXCEPT ![qn] = before, ![curr] = qn]
      /\ qnext' = IF before = NIL THEN [qnext EXCEPT ![qn] = curr]
                  ELSE [qnext EXCEPT ![qn] = curr, ![before] = qn]
      /\ head' = IF before = NIL THEN [head EXCEPT ![que] = qn] ELSE head
      /\ order' = [order EXCEPT ![que] = InsertAt(s, Before(s, curr) + 1, qn)]
  BY DEF InsertBefore, Goes, Return
<1>2. que \in Queues /\ qn \in QueueNodes /\ qdata[qn] \in Data /\ InsertSoFar
  BY <1>1 DEF QInv, QCall
<1>3. que \in OrderedQueues
  BY <1>1, <1>2 DEF InsertSoFar
<1>4. PICK j \in 1 .. Len(s) : s[j] = curr /\ \A i \in 1 .. j - 1 : qkey[s[i]] <= qkey[qn]
  BY <1>1, <1>2 DEF InsertSoFar
<1>s. /\ s \in Seq(QueueNodes) /\ Len(s) \in Nat
      /\ \A i, k \in 1 .. Len(s) : s[i] = s[k] => i = k
      /\ \A i \in 1 .. Len(s) : s[i] \in QueueNodes /\ s[i] # NIL
  BY <1>2, QueueFacts
<1>f. \A i \in 1 .. Len(s) : s[i] # qn
  BY <1>2 DEF QInv, QApart
<1>t. /\ qprev \in [QueueNodes -> Addresses] /\ qnext \in [QueueNodes -> Addresses]
      /\ head \in [Queues -> Addresses] /\ tail \in [Queues -> Addresses]
      /\ qkey \in [QueueNodes -> QueueKeys] /\ QueueKeys \subseteq Nat
  BY LinksFacts DEF QInv, QTyped
<1>b. before = IF j = 1 THEN NIL ELSE s[j - 1]
  BY <1>2, <1>4, NextOf
<1>p. PICK p \in 0 .. Len(s) : p = j - 1
  BY <1>s
<1>5. /\ p # Len(s) /\ p + 1 = j /\ (p = 0 <=> j = 1) /\ (p # 0 => p \in 1 .. Len(s))
      /\ (before = NIL <=> p = 0) /\ (p # 0 => before = s[p])
  <2>1. /\ p # Len(s) /\ p + 1 = j /\ (p = 0 <=> j = 1)
        /\ (p # 0 => p \in 1 .. Len(s))
    BY <1>p, <1>s
  <2>2. p # 0 => before = s[p]
    BY <2>1, <1>b, <1>p
  <2>3. before = NIL <=> p = 0
    BY <2>1, <2>2, <1>b, <1>s
  <2> QED BY <2>1, <2>2, <2>3
<1>u. PICK u \in Seq(QueueNodes) : IsInserted(u, s, p, qn) /\ order' = [order EXCEPT ![que] = u]
  <2>1. Before(s, curr) = j - 1
    BY <1>s, <1>4, BeforeFound
  <2>2. InsertAt(s, p + 1, qn) \in Seq(QueueNodes) /\ IsInserted(InsertAt(s, p + 1, qn), s, p, qn)
    BY <1>2, <1>s, InsertAtInserts
  <2>3. order' = [order EXCEPT ![que] = InsertAt(s, p + 1, qn)]
    BY <2>1, <1>1, <1>p
  <2> QED BY <2>2, <2>3
<1> HIDE DEF before
<1>6. LinkedIn(s, p, qn, qnext, qprev, qnext', qprev')
  <2>1. qnext'[qn] = curr /\ qprev'[qn] = before
    BY <1>1, <1>2, <1>4, <1>5, <1>f, <1>t, <1>s
  <2>2. ASSUME NEW i \in 1 .. Len(s) PROVE qnext'[s[i]] = IF i = p THEN qn ELSE qnext[s[i]]
    <3>1. s[i] # qn /\ s[i] \in QueueNodes
      BY <1>f, <1>s
    <3>2. CASE p = 0
      BY <3>1, <3>2, <1>1, <1>5, <1>t
    <3>3. CASE p # 0
      <4>1. before = s[p] /\ before # qn /\ before \in QueueNodes /\ (s[i] = before <=> i = p)
        BY <3>3, <1>5, <1>s, <1>f
      <4> QED BY <3>1, <3>3, <4>1, <1>1, <1>5, <1>t
    <3> QED BY <3>2, <3>3
  <2>3. ASSUME NEW i \in 1 .. Len(s) PROVE qprev'[s[i]] = IF i = p + 1 THEN qn ELSE qprev[s[i]]
    <3>1. s[i] # qn /\ s[i] \in QueueNodes /\ (s[i] = curr <=> i = p + 1)
      BY <1>f, <1>s, <1>4, <1>5
    <3> QED BY <3>1, <1>1, <1>t
  <2>4. qnext'[qn] = IF p = Len(s) THEN NIL ELSE s[p + 1]
    BY <2>1, <1>4, <1>5
  <2>5. qprev'[qn] = IF p = 0 THEN NIL ELSE s[p]
    BY <2>1, <1>5
  <2> QED BY <2>2, <2>3, <2>4, <2>5 DEF LinkedIn
<1>7. OthersKept(que, qn, qnext, qnext') /\ OthersKept(que, qn, qprev, qprev')
  <2> SUFFICES ASSUME NEW m \in QueueNodes, m # qn,
                      \A i \in 1 .. Len(s) : s[i] # m
               PROVE  qnext'[m] = qnext[m] /\ qprev'[m] = qprev[m]
    BY DEF OthersKept
  <2>1. m # curr /\ (p # 0 => m # before)
    BY <1>4, <1>5
  <2> QED BY <2>1, <1>1, <1>5, <1>t
<1>8. qprev' \in [QueueNodes -> Addresses] /\ qnext' \in [QueueNodes -> Addresses]
  <2>1. before \in Addresses /\ curr \in Addresses /\ qn \in Addresses
    BY <1>2, <1>4, <1>5, <1>s DEF Addresses
  <2> QED BY <2>1, <1>1, <1>t
<1>9. /\ head' = [head EXCEPT ![que] = IF p = 0 THEN qn ELSE head[que]]
      /\ tail' = [tail EXCEPT ![que] = IF p = Len(s) THEN qn ELSE tail[que]]
  <2>1. CASE p = 0
    BY <2>1, <1>1, <1>5, <1>t
  <2>2. CASE p # 0
    BY <2>2, <1>1, <1>5, <1>t
  <2> QED BY <2>1, <2>2
<1>10. QInv'
  BY <1>1, <1>u, <1>6, <1>7, <1>8, <1>9, LinkedInSound
<1>11. KQ!ANext
  <2>1. \A i \in 1 .. p : qkey[s[i]] <= qkey[qn]
    BY <1>4, <1>p
  <2>2. qkey[qn] < qkey[s[p + 1]]
    <3>1. qkey[qn] \in Nat /\ qkey[curr] \in Nat
      BY <1>2, <1>4, <1>s, <1>t
    <3>2. qkey[qn] < qkey[curr]
      BY <3>1, <1>1
    <3> QED BY <3>2, <1>4, <1>5
  <2> QED BY <1>1, <1>3, <1>u, <2>1, <2>2, InsertPromised
<1> QED BY <1>10, <1>11

LEMMA InsertAtEndStep ==
  ASSUME QInv, InsertAtEnd PROVE QInv' /\ KQ!ANext
<1> DEFINE s == order[que]
           t == tail[que]
           p == Len(s)
<1>1. /\ qphase = "insert" /\ curr = NIL
      /\ qphase' = "idle" /\ qn' = NIL /\ result' = "SUCCESS"
      /\ UNCHANGED <<qkey, qdata>>
      /\ qprev' = [qprev EXCEPT ![qn] = t]
      /\ qnext' = IF t = NIL THEN [qnext EXCEPT ![qn] = NIL]
                  ELSE [qnext EXCEPT ![qn] = NIL, ![t] = qn]
      /\ head' = IF t = NIL THEN [head EXCEPT ![que] = qn] ELSE head
      /\ tail' = [tail EXCEPT ![que] = qn]
      /\ order' = [order EXCEPT ![que] = Append(s, qn)]
  BY DEF InsertAtEnd, Return
<1>2. que \in Queues /\ qn \in QueueNodes /\ qdata[qn] \in Data /\ InsertSoFar
  BY <1>1 DEF QInv, QCall
<1>s. /\ s \in Seq(QueueNodes) /\ Len(s) \in Nat /\ p \in 0 .. Len(s)
      /\ (s = <<>> <=> Len(s) = 0)
      /\ \A i, k \in 1 .. Len(s) : s[i] = s[k] => i = k
      /\ \A i \in 1 .. Len(s) : s[i] \in QueueNodes /\ s[i] # NIL
  BY <1>2, QueueFacts
<1>f. \A i \in 1 .. Len(s) : s[i] # qn
  BY <1>2 DEF QInv, QApart
<1>t. /\ qprev \in [QueueNodes -> Addresses] /\ qnext \in [QueueNodes -> Addresses]
      /\ head \in [Queues -> Addresses] /\ tail \in [Queues -> Addresses]
      /\ qkey \in [QueueNodes -> QueueKeys] /\ QueueKeys \subseteq Nat
  BY LinksFacts DEF QInv, QTyped
<1>b. t = IF s = <<>> THEN NIL ELSE s[Len(s)]
  BY <1>2, QueueFacts DEF QChained
<1>5. (p # 0 => p \in 1 .. Len(s) /\ t = s[p] /\ t # NIL) /\ (p = 0 => t = NIL)
  BY <1>b, <1>s
<1>u. PICK u \in Seq(QueueNodes) : IsInserted(u, s, p, qn) /\ order' = [order EXCEPT ![que] = u]
  <2>1. /\ Append(s, qn) \in Seq(QueueNodes) /\ Len(Append(s, qn)) = Len(s) + 1
        /\ Append(s, qn)[Len(s) + 1] = qn
        /\ \A i \in 1 .. Len(s) : Append(s, qn)[i] = s[i]
    BY <1>2, <1>s, AppendProperties
  <2>2. IsInserted(Append(s, qn), s, p, qn)
    <3>1. Len(s) + 2 .. Len(s) + 1 = {}
      BY <1>s
    <3> QED BY <2>1, <3>1 DEF IsInserted
  <2> QED BY <2>1, <2>2, <1>1
<1> HIDE DEF t, p
<1>l. p = Len(s)
  BY DEF p
<1>6. LinkedIn(s, p, qn, qnext, qprev, qnext', qprev')
  <2>1. qnext'[qn] = NIL /\ qprev'[qn] = t
    <3>1. t # qn
      BY <1>2, <1>5, <1>f, LinksFacts
    <3> QED BY <3>1, <1>1, <1>2, <1>t
  <2>2. ASSUME NEW i \in 1 .. Len(s) PROVE qnext'[s[i]] = IF i = p THEN qn ELSE qnext[s[i]]
    <3>1. s[i] # qn /\ s[i] \in QueueNodes
      BY <1>f, <1>s
    <3>3. p # 0
      BY <1>l, <1>s
    <3>4. t = s[p] /\ t # qn /\ t \in QueueNodes /\ (s[i] = t <=> i = p) /\ t # NIL
      BY <3>3, <1>5, <1>s, <1>f
    <3> QED BY <3>1, <3>4, <1>1, <1>t
  <2>3. ASSUME NEW i \in 1 .. Len(s) PROVE qprev'[s[i]] = IF i = p + 1 THEN qn ELSE qprev[s[i]]
    <3>1. s[i] # qn /\ s[i] \in QueueNodes /\ i # p + 1
      BY <1>f, <1>s, <1>l
    <3> QED BY <3>1, <1>1, <1>t
  <2>4. qnext'[qn] = IF p = Len(s) THEN NIL ELSE s[p + 1]
    BY <2>1, <1>l
  <2>5. qprev'[qn] = IF p = 0 THEN NIL ELSE s[p]
    BY <2>1, <1>5
  <2> QED BY <2>2, <2>3, <2>4, <2>5 DEF LinkedIn
<1>7. OthersKept(que, qn, qnext, qnext') /\ OthersKept(que, qn, qprev, qprev')
  <2> SUFFICES ASSUME NEW m \in QueueNodes, m # qn,
                      \A i \in 1 .. Len(s) : s[i] # m
               PROVE  qnext'[m] = qnext[m] /\ qprev'[m] = qprev[m]
    BY DEF OthersKept
  <2>1. p # 0 => m # t
    BY <1>5
  <2> QED BY <2>1, <1>1, <1>5, <1>t
<1>8. qprev' \in [QueueNodes -> Addresses] /\ qnext' \in [QueueNodes -> Addresses]
  <2>1. t \in Addresses /\ NIL \in Addresses /\ qn \in Addresses
    BY <1>2, <1>t DEF Addresses, t
  <2> QED BY <2>1, <1>1, <1>t
<1>9. /\ head' = [head EXCEPT ![que] = IF p = 0 THEN qn ELSE head[que]]
      /\ tail' = [tail EXCEPT ![que] = IF p = Len(s) THEN qn ELSE tail[que]]
  <2>1. CASE p = 0
    BY <2>1, <1>1, <1>5, <1>l, <1>t
  <2>2. CASE p # 0
    BY <2>2, <1>1, <1>5, <1>l, <1>t
  <2> QED BY <2>1, <2>2
<1>10. QInv'
  BY <1>1, <1>s, <1>l, <1>u, <1>6, <1>7, <1>8, <1>9, LinkedInSound
<1>11. KQ!ANext
  <2>1. que \in OrderedQueues => \A i \in 1 .. p : qkey[s[i]] <= qkey[qn]
    BY <1>1, <1>2, <1>l DEF InsertSoFar
  <2> QED BY <1>1, <1>l, <1>s, <1>u, <2>1, InsertPromised
<1> QED BY <1>10, <1>11
\* The head of a chain that is not empty.
LEMMA HeadOf ==
  ASSUME QInv, NEW q \in Queues, ~Empty(q)
  PROVE  /\ Len(order[q]) \in Nat /\ 1 \in 1 .. Len(order[q]) /\ order[q] # <<>>
         /\ head[q] = order[q][1] /\ head[q] # NIL
<1>1. head[q] # NIL /\ head[q] = IF order[q] = <<>> THEN NIL ELSE order[q][1]
  BY QueueFacts DEF Empty, QChained
<1> QED BY <1>1, QueueFacts

LEMMA EmptyHas ==
  ASSUME QInv, NEW q \in Queues, Empty(q) PROVE Len(order[q]) = 0
<1>1. head[q] = NIL /\ head[q] = IF order[q] = <<>> THEN NIL ELSE order[q][1]
  BY QueueFacts DEF Empty, QChained
<1>2. CASE order[q] = <<>>
  BY <1>2, QueueFacts
<1>3. CASE order[q] # <<>>
  <2>1. 1 \in 1 .. Len(order[q])
    BY <1>3, QueueFacts
  <2> QED BY <2>1, <1>1, <1>3, QueueFacts
<1> QED BY <1>2, <1>3

LEMMA RemoveHeadStep ==
  ASSUME QInv, NEW q \in Queues, RemoveHead(q) PROVE QInv' /\ KQ!ANext
<1> DEFINE s == order[q]
           h == head[q]
           x == qnext[h]
<1>1. /\ qphase = "idle" /\ ~Empty(q)
      /\ head' = [head EXCEPT ![q] = x]
      /\ (x = NIL => tail' = [tail EXCEPT ![q] = NIL] /\ UNCHANGED qprev)
      /\ (x # NIL => qprev' = [qprev EXCEPT ![x] = NIL] /\ UNCHANGED tail)
      /\ order' = [order EXCEPT ![q] = Tail(s)]
      /\ result' = qdata[h]
      /\ UNCHANGED <<qnext, qkey, qdata, locals>>
  BY DEF RemoveHead, NewHead
<1>s. /\ s \in Seq(QueueNodes) /\ Len(s) \in Nat /\ 1 \in 1 .. Len(s) /\ s # <<>>
      /\ \A i, k \in 1 .. Len(s) : s[i] = s[k] => i = k
      /\ \A i \in 1 .. Len(s) : s[i] \in QueueNodes /\ s[i] # NIL
      /\ h = s[1]
  BY <1>1, HeadOf, QueueFacts
<1>t. /\ qprev \in [QueueNodes -> Addresses] /\ qnext \in [QueueNodes -> Addresses]
      /\ head \in [Queues -> Addresses] /\ tail \in [Queues -> Addresses]
  BY DEF QInv, QTyped
<1>x. x = IF 1 = Len(s) THEN NIL ELSE s[1 + 1]
  <2>1. qnext[s[1]] = IF 1 = Len(s) THEN NIL ELSE s[1 + 1]
    BY <1>s, NextOf
  <2> QED BY <2>1, <1>s
<1>y. (x = NIL <=> 1 = Len(s)) /\ (1 # Len(s) => 2 \in 1 .. Len(s) /\ x = s[2])
  <2>0. \A a \in Nat : 1 \in 1 .. a /\ 1 # a => 2 \in 1 .. a
    OBVIOUS
  <2>1. 1 # Len(s) => 2 \in 1 .. Len(s)
    BY <2>0, <1>s
  <2>2. CASE 1 = Len(s)
    BY <2>2, <1>x
  <2>3. CASE 1 # Len(s)
    <3>1. x = s[2] /\ 2 \in 1 .. Len(s)
      BY <2>1, <2>3, <1>x
    <3>2. s[2] # NIL
      BY <3>1, <1>s
    <3> QED BY <2>3, <3>1, <3>2
  <2> QED BY <2>2, <2>3
<1>p. qprev[s[1]] = NIL
  BY <1>s, NextOf
<1>u. PICK u \in Seq(QueueNodes) : IsRemoved(u, s, 1) /\ order' = [order EXCEPT ![q] = u]
  <2>1. /\ Tail(s) \in Seq(QueueNodes) /\ Len(Tail(s)) = Len(s) - 1
        /\ \A i \in 1 .. Len(s) - 1 : Tail(s)[i] = s[i + 1]
    BY <1>s, HeadTailProperties
  <2>2. IsRemoved(Tail(s), s, 1)
    BY <2>1 DEF IsRemoved
  <2> QED BY <2>1, <2>2, <1>1
<1> HIDE DEF x
<1>6. LinkedOut(s, 1, qnext, qprev, qnext', qprev')
  <2>1. ASSUME NEW i \in 1 .. Len(s), i # 1
        PROVE  qnext'[s[i]] = IF i + 1 = 1 THEN qnext[s[1]] ELSE qnext[s[i]]
    BY <1>1, <2>1
  <2>2. ASSUME NEW i \in 1 .. Len(s), i # 1
        PROVE  qprev'[s[i]] = IF i = 1 + 1 THEN qprev[s[1]] ELSE qprev[s[i]]
    <3>1. 1 # Len(s) /\ x = s[2] /\ x # NIL /\ (s[i] = x <=> i = 2)
      BY <2>2, <1>s, <1>y
    <3> QED BY <3>1, <1>1, <1>p, <1>s, <1>t
  <2> QED BY <2>1, <2>2 DEF LinkedOut
<1>7. OthersKept(q, NIL, qnext, qnext') /\ OthersKept(q, NIL, qprev, qprev')
  <2> SUFFICES ASSUME NEW m \in QueueNodes, \A i \in 1 .. Len(s) : s[i] # m
               PROVE  qnext'[m] = qnext[m] /\ qprev'[m] = qprev[m]
    BY DEF OthersKept
  <2>1. m # x
    BY <1>y, LinksFacts
  <2> QED BY <2>1, <1>1, <1>t
<1>8. qprev' \in [QueueNodes -> Addresses] /\ qnext' \in [QueueNodes -> Addresses]
  <2>1. NIL \in Addresses
    BY DEF Addresses
  <2> QED BY <2>1, <1>1, <1>t
<1>9. /\ head' = [head EXCEPT ![q] = IF 1 = 1 THEN qnext[s[1]] ELSE head[q]]
      /\ tail' = [tail EXCEPT ![q] = IF 1 = Len(s) THEN qprev[s[1]] ELSE tail[q]]
  <2>1. head' = [head EXCEPT ![q] = qnext[s[1]]]
    BY <1>1, <1>s DEF x
  <2>2. CASE 1 = Len(s)
    BY <2>1, <2>2, <1>1, <1>y, <1>p
  <2>3. CASE 1 # Len(s)
    BY <2>1, <2>3, <1>1, <1>y, <1>t
  <2> QED BY <2>2, <2>3
<1>i. qphase' = "idle" /\ qn' = NIL
  BY <1>1 DEF locals, QInv, QCall
<1>10. QInv'
  BY <1>1, <1>i, <1>s, <1>u, <1>6, <1>7, <1>8, <1>9, LinkedOutSound
<1>11. KQ!ANext
  <2>1. Items' = [Items EXCEPT ![q] = KQ!RemoveAt(Items[q], 1)]
    <3>1. Items' = [Items EXCEPT ![q] = RemoveAt(Items[q], 1)]
      BY <1>1, <1>s, <1>u, ItemsRemoved
    <3> QED BY <3>1, SameOperators
  <2>2. Items[q][1].data = qdata[s[1]] /\ 1 \in 1 .. Len(Items[q])
    BY <1>s, ItemAt
  <2>3. result' = Items[q][1].data
    BY <2>2, <1>1, <1>s
  <2> QED BY <2>1, <2>2, <2>3 DEF KQ!ANext, KQ!ARemove, KQ!ARemoveAt
<1> QED BY <1>10, <1>11

\* What _q_delete_node does to the node that a search found.
LEMMA FoundRemoveStep ==
  ASSUME QInv, FoundRemove PROVE QInv' /\ KQ!ANext
<1> DEFINE s == order[que]
           before == qprev[curr]
           behind == qnext[curr]
<1>1. /\ qphase = "find" /\ curr # NIL /\ qkey[curr] = goal
      /\ (before = NIL => head' = [head EXCEPT ![que] = behind] /\ UNCHANGED qnext)
      /\ (before # NIL => qnext' = [qnext EXCEPT ![before] = behind] /\ UNCHANGED head)
      /\ (behind = NIL => tail' = [tail EXCEPT ![que] = before] /\ UNCHANGED qprev)
      /\ (behind # NIL => qprev' = [qprev EXCEPT ![behind] = before] /\ UNCHANGED tail)
      /\ order' = [order EXCEPT ![que] = RemoveAt(s, Before(s, curr) + 1)]
      /\ qphase' = "idle" /\ qn' = NIL /\ result' = qdata[curr]
      /\ UNCHANGED <<qkey, qdata>>
  BY DEF FoundRemove, Return
<1>2. que \in Queues /\ goal \in QueueKeys /\ FindSoFar
  BY <1>1 DEF QInv, QCall
<1>3. PICK p \in 1 .. Len(s) : s[p] = curr /\ \A i \in 1 .. p - 1 : qkey[s[i]] # goal
  BY <1>1, <1>2 DEF FindSoFar
<1>s. /\ s \in Seq(QueueNodes) /\ Len(s) \in Nat /\ s # <<>>
      /\ \A i, k \in 1 .. Len(s) : s[i] = s[k] => i = k
      /\ \A i \in 1 .. Len(s) : s[i] \in QueueNodes /\ s[i] # NIL
  BY <1>2, QueueFacts
<1>t. /\ qprev \in [QueueNodes -> Addresses] /\ qnext \in [QueueNodes -> Addresses]
      /\ head \in [Queues -> Addresses] /\ tail \in [Queues -> Addresses]
  BY DEF QInv, QTyped
<1>b. /\ before = IF p = 1 THEN NIL ELSE s[p - 1]
      /\ behind = IF p = Len(s) THEN NIL ELSE s[p + 1]
  BY <1>2, <1>3, NextOf
<1>y. /\ (before = NIL <=> p = 1) /\ (p # 1 => p - 1 \in 1 .. Len(s) /\ before = s[p - 1])
      /\ (behind = NIL <=> p = Len(s))
      /\ (p # Len(s) => p + 1 \in 1 .. Len(s) /\ behind = s[p + 1])
  BY <1>s, <1>b
<1>u. PICK u \in Seq(QueueNodes) : IsRemoved(u, s, p) /\ order' = [order EXCEPT ![que] = u]
  <2>1. Before(s, curr) = p - 1 /\ (p - 1) + 1 = p
    <3>1. /\ Len(s) \in Nat /\ p \in 1 .. Len(s)
          /\ \A i, k \in 1 .. Len(s) : s[i] = s[k] => i = k
      BY <1>s
    <3> HIDE DEF s
    <3>2. Before(s, s[p]) = p - 1
      BY ONLY <3>1, BeforeFound
    <3>3. s[p] = curr
      BY <1>3
    <3> QED BY ONLY <3>1, <3>2, <3>3
  <2>2. RemoveAt(s, p) \in Seq(QueueNodes) /\ IsRemoved(RemoveAt(s, p), s, p)
    <3>1. s \in Seq(QueueNodes) /\ p \in 1 .. Len(s)
      BY <1>s
    <3> HIDE DEF s
    <3> QED BY ONLY <3>1, RemoveAtRemoves
  <2>3. order' = [order EXCEPT ![que] = RemoveAt(s, p)]
    BY <2>1, <1>1
  <2> QED BY <2>2, <2>3
<1>z. before = qprev[s[p]] /\ behind = qnext[s[p]]
  BY <1>3
<1> HIDE DEF before, behind
<1>6. LinkedOut(s, p, qnext, qprev, qnext', qprev')
  <2>1. ASSUME NEW i \in 1 .. Len(s), i # p
        PROVE  qnext'[s[i]] = IF i + 1 = p THEN qnext[s[p]] ELSE qnext[s[i]]
    <3>1. CASE p = 1
      <4>1. i + 1 # p
        BY <3>1
      <4> QED BY <3>1, <4>1, <1>1, <1>y
    <3>2. CASE p # 1
      <4>1. before \in QueueNodes /\ s[i] \in QueueNodes /\ (s[i] = before <=> i = p - 1)
        BY <3>2, <1>s, <1>y
      <4>2. i = p - 1 <=> i + 1 = p
        BY <1>s
      <4> QED BY <3>2, <4>1, <4>2, <1>1, <1>y, <1>z, <1>t
    <3> QED BY <3>1, <3>2
  <2>2. ASSUME NEW i \in 1 .. Len(s), i # p
        PROVE  qprev'[s[i]] = IF i = p + 1 THEN qprev[s[p]] ELSE qprev[s[i]]
    <3>1. CASE p = Len(s)
      <4>1. i # p + 1
        BY <3>1, <1>s
      <4> QED BY <3>1, <4>1, <1>1, <1>y
    <3>2. CASE p # Len(s)
      <4>1. behind \in QueueNodes /\ s[i] \in QueueNodes /\ (s[i] = behind <=> i = p + 1)
        BY <3>2, <1>s, <1>y
      <4> QED BY <3>2, <4>1, <1>1, <1>y, <1>z, <1>t
    <3> QED BY <3>1, <3>2
  <2> QED BY <2>1, <2>2 DEF LinkedOut
<1>7. OthersKept(que, NIL, qnext, qnext') /\ OthersKept(que, NIL, qprev, qprev')
  <2> SUFFICES ASSUME NEW m \in QueueNodes, \A i \in 1 .. Len(s) : s[i] # m
               PROVE  qnext'[m] = qnext[m] /\ qprev'[m] = qprev[m]
    BY DEF OthersKept
  <2>1. m # before /\ m # behind
    BY <1>y, LinksFacts
  <2> QED BY <2>1, <1>1, <1>t
<1>8. qprev' \in [QueueNodes -> Addresses] /\ qnext' \in [QueueNodes -> Addresses]
  <2>1. before \in Addresses /\ behind \in Addresses
    BY <1>z, <1>s, <1>t
  <2> QED BY <2>1, <1>1, <1>t
<1>9. /\ head' = [head EXCEPT ![que] = IF p = 1 THEN qnext[s[p]] ELSE head[que]]
      /\ tail' = [tail EXCEPT ![que] = IF p = Len(s) THEN qprev[s[p]] ELSE tail[que]]
  <2>1. head' = [head EXCEPT ![que] = IF p = 1 THEN qnext[s[p]] ELSE head[que]]
    BY <1>1, <1>y, <1>z, <1>t
  <2>2. tail' = [tail EXCEPT ![que] = IF p = Len(s) THEN qprev[s[p]] ELSE tail[que]]
    BY <1>1, <1>y, <1>z, <1>t
  <2> QED BY <2>1, <2>2
<1>10. QInv'
  BY <1>1, <1>2, <1>u, <1>6, <1>7, <1>8, <1>9, LinkedOutSound
<1>11. KQ!ANext
  <2>1. Items' = [Items EXCEPT ![que] = KQ!RemoveAt(Items[que], p)]
    <3>1. Items' = [Items EXCEPT ![que] = RemoveAt(Items[que], p)]
      BY <1>1, <1>2, <1>u, ItemsRemoved
    <3> QED BY <3>1, SameOperators
  <2>2. /\ p \in 1 .. Len(Items[que])
        /\ Items[que][p].key = qkey[s[p]] /\ Items[que][p].data = qdata[s[p]]
    BY <1>2, ItemAt
  <2>3. result' = Items[que][p].data
    BY <2>2, <1>1, <1>3
  <2>4. KQ!First(Items[que], goal, p)
    <3>1. Items[que][p].key = goal
      BY <2>2, <1>1, <1>3
    <3>2. ASSUME NEW i \in 1 .. (p - 1) PROVE Items[que][i].key # goal
      <4>1. i \in 1 .. Len(s)
        BY <1>s
      <4>2. Items[que][i].key = qkey[s[i]]
        BY <4>1, <1>2, ItemAt
      <4> QED BY <4>2, <1>3
    <3> QED BY <2>2, <3>1, <3>2 DEF KQ!First
  <2>5. KQ!ARemoveByKey(que, goal)
    BY <2>1, <2>2, <2>3, <2>4 DEF KQ!ARemoveByKey, KQ!ARemoveAt
  <2> QED BY <2>5, <1>2 DEF KQ!ANext
<1> QED BY <1>10, <1>11

\* _q_peek changes nothing.
LEMMA PeekStep ==
  ASSUME QInv, NEW q \in Queues, Peek(q) PROVE QInv' /\ KQ!ANext
<1>1. /\ ~Empty(q) /\ result' = ToString(qkey[head[q]])
      /\ UNCHANGED <<fields, locals, order>>
  BY DEF Peek
<1>2. QInv' /\ UNCHANGED Items
  <2>1. QCall'
    <3>1. UNCHANGED <<qkey, qdata, qphase, que, curr, qn, goal, order>>
      BY <1>1 DEF fields, locals
    <3> QED BY <3>1 DEF QInv, QCall, InsertSoFar, FindSoFar
  <2> QED BY <2>1, <1>1, FieldsKept DEF locals
<1>3. /\ 1 \in 1 .. Len(order[q]) /\ head[q] = order[q][1]
      /\ Items[q][1].key = qkey[order[q][1]] /\ 1 \in 1 .. Len(Items[q])
  BY <1>1, HeadOf, ItemAt
<1>4. Items[q] # <<>>
  BY <1>3
<1>5. result' = KQ!ToString(Items[q][1].key)
  BY <1>1, <1>3
<1> QED BY <1>2, <1>4, <1>5 DEF KQ!ANext, KQ!APeek

\* A search begins at the head of a queue that is not empty.
LEMMA FindInStep ==
  ASSUME QInv, NEW q \in Queues, NEW k \in QueueKeys, NEW removes \in BOOLEAN,
         FindIn(q, k, removes)
  PROVE  QInv' /\ UNCHANGED <<Items, result>>
<1>1. /\ qphase = "idle" /\ ~Empty(q)
      /\ qphase' = "find" /\ que' = q /\ curr' = head[q] /\ goal' = k
      /\ UNCHANGED <<fields, qn, result, order>>
  BY DEF FindIn
<1>2. FindSoFar'
  <2>1. 1 \in 1 .. Len(order[q]) /\ head[q] = order[q][1] /\ head[q] # NIL
    BY <1>1, HeadOf
  <2>2. \A i \in 1 .. 1 - 1 : qkey'[order[q][i]] # k
    OBVIOUS
  <2> QED BY <1>1, <2>1, <2>2 DEF FindSoFar
<1>3. QCall'
  <2>1. qn = NIL
    BY <1>1 DEF QInv, QCall
  <2> QED BY <1>1, <1>2, <2>1 DEF QCall
<1> QED BY <1>1, <1>3, FieldsKept

\* A search in an empty queue finds no key.
LEMMA FindInEmptyStep ==
  ASSUME QInv, NEW q \in Queues, FindInEmpty(q) PROVE QInv' /\ KQ!ANext
<1>1. /\ Empty(q) /\ result' = "EMPTY_QUEUE"
      /\ UNCHANGED <<fields, locals, order>>
  BY DEF FindInEmpty
<1>2. QInv' /\ UNCHANGED Items
  <2>1. QCall'
    <3>1. UNCHANGED <<qkey, qdata, qphase, que, curr, qn, goal, order>>
      BY <1>1 DEF fields, locals
    <3> QED BY <3>1 DEF QInv, QCall, InsertSoFar, FindSoFar
  <2> QED BY <2>1, <1>1, FieldsKept DEF locals
<1>3. Len(Items[q]) = 0
  <2>1. Len(order[q]) = 0
    BY <1>1, EmptyHas
  <2> QED BY <2>1, ItemFacts
<1>4. PICK k \in QueueKeys : TRUE
  BY LinksAssumptions DEF LinksAssumption
<1>5. KQ!ANotFound(q, k)
  <2>1. \A n \in 1 .. Len(Items[q]) : Items[q][n].key # k
    BY <1>3
  <2> QED BY <2>1, <1>1, <1>2 DEF KQ!ANotFound
<1> QED BY <1>2, <1>5 DEF KQ!ANext

\* The cursor of a search goes on.
LEMMA FindStepStep ==
  ASSUME QInv, FindStep PROVE QInv' /\ UNCHANGED <<Items, result>>
<1>1. /\ qphase = "find" /\ curr # NIL /\ qkey[curr] # goal /\ curr' = qnext[curr]
      /\ UNCHANGED <<fields, qphase, que, qn, goal, take, result, order>>
  BY DEF FindStep
<1>2. que \in Queues /\ goal \in QueueKeys /\ FindSoFar /\ qn = NIL
  BY <1>1 DEF QInv, QCall
<1> DEFINE s == order[que]
<1>4. PICK j \in 1 .. Len(s) : s[j] = curr /\ \A i \in 1 .. j - 1 : qkey[s[i]] # goal
  BY <1>1, <1>2 DEF FindSoFar
<1>5. curr' = (IF j = Len(s) THEN NIL ELSE s[j + 1]) /\ Len(s) \in Nat
  BY <1>1, <1>2, <1>4, NextOf, QueueFacts
<1>6. \A i \in 1 .. j : qkey[s[i]] # goal
  <2> TAKE i \in 1 .. j
  <2>1. i = j \/ i \in 1 .. j - 1
    OBVIOUS
  <2> QED BY <2>1, <1>1, <1>4
<1>7. FindSoFar'
  <2>0. UNCHANGED <<order, que, goal, qkey>>
    BY <1>1 DEF fields
  <2>1. CASE j = Len(s)
    BY <2>0, <2>1, <1>5, <1>6 DEF FindSoFar
  <2>2. CASE j # Len(s)
    <3>1. j + 1 \in 1 .. Len(s) /\ (j + 1) - 1 = j
      BY <2>2, <1>5
    <3>2. curr' = s[j + 1] /\ curr' # NIL
      BY <2>2, <3>1, <1>2, <1>5, NextOf
    <3> QED BY <2>0, <3>1, <3>2, <1>6 DEF FindSoFar
  <2> QED BY <2>1, <2>2
<1>8. QCall'
  BY <1>1, <1>2, <1>7 DEF QCall, fields
<1> QED BY <1>1, <1>8, FieldsKept

\* The cursor is behind the last node: no item has the key.
LEMMA FindEndsStep ==
  ASSUME QInv, FindEnds PROVE QInv' /\ KQ!ANext
<1>1. /\ qphase = "find" /\ curr = NIL /\ qphase' = "idle" /\ qn' = NIL
      /\ result' = "NOT_FOUND" /\ UNCHANGED <<fields, order>>
  BY DEF FindEnds, Return
<1>2. que \in Queues /\ goal \in QueueKeys /\ FindSoFar
  BY <1>1 DEF QInv, QCall
<1>3. QInv' /\ UNCHANGED Items
  <2>1. QCall'
    BY <1>1 DEF QCall
  <2> QED BY <2>1, <1>1, FieldsKept
<1>4. KQ!ANotFound(que, goal)
  <2>1. ASSUME NEW n \in 1 .. Len(Items[que]) PROVE Items[que][n].key # goal
    <3>1. n \in 1 .. Len(order[que])
      BY <1>2, ItemFacts
    <3>2. Items[que][n].key = qkey[order[que][n]]
      BY <3>1, <1>2, ItemAt
    <3> QED BY <3>1, <3>2, <1>1, <1>2 DEF FindSoFar
  <2> QED BY <2>1, <1>1, <1>3 DEF KQ!ANotFound
<1> QED BY <1>2, <1>3, <1>4 DEF KQ!ANext

\* _q_get_by_key answers the first item with the key, and leaves it.
LEMMA FoundGetStep ==
  ASSUME QInv, FoundGet PROVE QInv' /\ KQ!ANext
<1>1. /\ qphase = "find" /\ curr # NIL /\ qkey[curr] = goal
      /\ qphase' = "idle" /\ qn' = NIL
      /\ result' = qdata[curr] /\ UNCHANGED <<fields, order>>
  BY DEF FoundGet, Return
<1>2. que \in Queues /\ goal \in QueueKeys /\ FindSoFar
  BY <1>1 DEF QInv, QCall
<1>3. QInv' /\ UNCHANGED Items
  <2>1. QCall'
    BY <1>1 DEF QCall
  <2> QED BY <2>1, <1>1, FieldsKept
<1> DEFINE s == order[que]
<1>4. PICK p \in 1 .. Len(s) : s[p] = curr /\ \A i \in 1 .. p - 1 : qkey[s[i]] # goal
  BY <1>1, <1>2 DEF FindSoFar
<1>5. KQ!AGetByKey(que, goal)
  <2>1. /\ p \in 1 .. Len(Items[que])
        /\ Items[que][p].key = qkey[s[p]] /\ Items[que][p].data = qdata[s[p]]
    BY <1>2, ItemAt
  <2>2. KQ!First(Items[que], goal, p)
    <3>2. ASSUME NEW i \in 1 .. (p - 1) PROVE Items[que][i].key # goal
      <4>1. i \in 1 .. Len(s)
        BY <1>2, QueueFacts
      <4>2. Items[que][i].key = qkey[s[i]]
        BY <4>1, <1>2, ItemAt
      <4> QED BY <4>2, <1>4
    <3> QED BY <2>1, <1>1, <1>4, <3>2 DEF KQ!First
  <2>3. result' = Items[que][p].data
    BY <2>1, <1>1, <1>4
  <2> QED BY <2>1, <2>2, <2>3, <1>3 DEF KQ!AGetByKey
<1> QED BY <1>2, <1>3, <1>5 DEF KQ!ANext

-----------------------------------------------------------------------------
(* The theorem.                                                            *)

LEMMA QInitImplements == QInit => KQ!AInit
<1> SUFFICES ASSUME QInit PROVE KQ!AInit
  OBVIOUS
<1>1. \A q \in Queues : order[q] = <<>>
  BY DEF QInit
<1>2. \A q \in Queues : Items[q] = <<>>
  BY <1>1 DEF Items
<1>3. Items = [q \in Queues |-> <<>>]
  BY <1>2 DEF Items
<1> QED BY <1>3 DEF QInit, KQ!AInit

\* A step of a call keeps the invariant, and is a step of the promise or none.
LEMMA QStepImplements ==
  ASSUME QInv, [QNext]_qVars
  PROVE  QInv' /\ [KQ!ANext]_<<Items, result>>
<1>1. ASSUME NEW q \in Queues, NEW k \in QueueKeys, NEW d \in Data, QueueInsert(q, k, d)
      PROVE  QInv' /\ [KQ!ANext]_<<Items, result>>
  BY <1>1, QueueInsertStep
<1>2. ASSUME NEW q \in Queues, NEW k \in QueueKeys, NEW removes \in BOOLEAN,
             FindIn(q, k, removes)
      PROVE  QInv' /\ [KQ!ANext]_<<Items, result>>
  BY <1>2, FindInStep
<1>3. ASSUME NEW q \in Queues, FindInEmpty(q) \/ RemoveHead(q) \/ Peek(q)
      PROVE  QInv' /\ [KQ!ANext]_<<Items, result>>
  BY <1>3, FindInEmptyStep, RemoveHeadStep, PeekStep
<1>4. CASE InsertStep
  BY <1>4, InsertStepStep
<1>5. CASE InsertBefore
  BY <1>5, InsertBeforeStep
<1>6. CASE InsertAtEnd
  BY <1>6, InsertAtEndStep
<1>7. CASE FindStep
  BY <1>7, FindStepStep
<1>8. CASE FindEnds
  BY <1>8, FindEndsStep
<1>9. CASE FoundGet
  BY <1>9, FoundGetStep
<1>10. CASE FoundRemove
  BY <1>10, FoundRemoveStep
<1>11. CASE UNCHANGED qVars
  <2>1. UNCHANGED <<fields, qkey, qdata, qphase, que, curr, qn, goal, result, order>>
    BY <1>11 DEF qVars, locals, fields
  <2>2. QCall'
    BY <2>1 DEF QInv, QCall, InsertSoFar, FindSoFar
  <2> QED BY <2>1, <2>2, FieldsKept
<1> QED BY <1>1, <1>2, <1>3, <1>4, <1>5, <1>6, <1>7, <1>8, <1>9, <1>10, <1>11 DEF QNext

\* The linked nodes of queues.c, with their loops, implement the promise of
\* queues.h for every number of queues, keys and nodes: an insertion goes
\* behind all smaller and equal keys, a removal takes the first that fits, and
\* nothing else is lost, moved or doubled.
THEOREM QueuesAlwaysKept == QSpec => QueuesKept
<1>1. QInit => QInv /\ KQ!AInit
  BY InitQInv, QInitImplements
<1>2. QInv /\ [QNext]_qVars => QInv' /\ [KQ!ANext]_<<Items, result>>
  BY QStepImplements
<1> QED BY <1>1, <1>2, PTL DEF QSpec, QueuesKept, KQ!ASpec

-----------------------------------------------------------------------------
(* The mouse and the queue of events.                                      *)

\* The values that a byte of the mouse can have, and the events made of them.
Bytes == {p.buttons : p \in Packets} \cup {p.dx : p \in Packets}
           \cup {p.dy : p \in Packets} \cup {0, 250}
Triple(b, x, y) == [buttons |-> b, dx |-> x, dy |-> y]
Events == {MakeEvent(t[1], Triple(t[2], t[3], t[4])) :
             t \in Bytes \X Bytes \X Bytes \X Bytes}

\* The events that were made, in the order in which they will be handled.
Pending == IF dpc = "handle" THEN <<event>> ELSE <<>>
Seen == handled \o Pending \o event_queue

MouseTyped ==
  /\ wire \in Seq(Bytes) /\ sent \in Seq(Packets)
  /\ base \in Bytes /\ last_button_states \in Bytes
  /\ byte_cycle \in {-1, 0, 1, 2} /\ bytes \in [0 .. 2 -> Bytes]
  /\ event_queue \in Seq(Events) /\ handled \in Seq(Events)
  /\ dpc = "handle" => event \in Events

\* The packet that is on its way.
Current == sent[Len(sent)]

\* What is still on the wire, and what the interrupt has stored of the packet.
WireSound ==
  /\ byte_cycle = -1 => Len(wire) = 1 /\ sent = <<>>
  /\ byte_cycle = 0 =>
       wire = <<>> \/ wire = <<Current.buttons, Current.dx, Current.dy>>
  /\ byte_cycle = 1 => wire = <<Current.dx, Current.dy>> /\ bytes[0] = Current.buttons
  /\ byte_cycle = 2 =>
       wire = <<Current.dy>> /\ bytes[0] = Current.buttons /\ bytes[1] = Current.dx

\* How many packets are on their way.
OnTheWay == IF wire = <<>> \/ byte_cycle = -1 THEN 0 ELSE 1

\* The events stand for the packets so far, and the driver remembers the
\* buttons of the last of them.
EventsSound ==
  /\ Len(sent) - Len(Seen) = OnTheWay
  /\ \A k \in 1 .. Len(Seen) : Seen[k] = Decoded(sent, base)[k]
  /\ last_button_states =
       IF Len(Seen) = 0 THEN base ELSE sent[Len(Seen)].buttons

MouseSound == MouseTyped /\ WireSound /\ EventsSound

LEMMA SeenTyped ==
  ASSUME MouseTyped
  PROVE  /\ Pending \in Seq(Events) /\ Seen \in Seq(Events) /\ Len(Seen) \in Nat
         /\ Len(sent) \in Nat /\ DOMAIN sent = 1 .. Len(sent)
BY DEF MouseTyped, Pending, Seen

LEMMA DecodedAt ==
  ASSUME MouseTyped, NEW k \in 1 .. Len(sent)
  PROVE  Decoded(sent, base)[k] =
           MakeEvent(IF k = 1 THEN base ELSE sent[k - 1].buttons, sent[k])
BY DEF MouseTyped, Decoded

\* An event depends on the three bytes of its packet only.
LEMMA SameEvent ==
  ASSUME NEW last, NEW p
  PROVE  MakeEvent(last, Triple(p.buttons, p.dx, p.dy)) = MakeEvent(last, p)
BY DEF MakeEvent, EventType, Triple

LEMMA InitMouseSound == DeskInit => MouseSound
<1> SUFFICES ASSUME DeskInit PROVE MouseSound
  OBVIOUS
<1>1. MouseTyped
  <2>1. 0 \in Bytes /\ 250 \in Bytes
    BY DEF Bytes
  <2> QED BY <2>1 DEF DeskInit, FirstCycle, MouseTyped
<1>2. WireSound
  BY DEF DeskInit, FirstCycle, WireSound
<1>3. Seen = <<>> /\ Len(Seen) = 0 /\ Len(sent) = 0
  BY DEF DeskInit, Seen, Pending
<1>4. EventsSound
  BY <1>3 DEF EventsSound, DeskInit, OnTheWay, FirstCycle
<1> QED BY <1>1, <1>2, <1>4 DEF MouseSound

\* Nothing that EventsSound speaks of changes.
LEMMA EventsKept ==
  ASSUME EventsSound, UNCHANGED <<sent, base, last_button_states>>,
         Seen' = Seen, OnTheWay' = OnTheWay
  PROVE  EventsSound'
<1>1. Decoded(sent, base)' = Decoded(sent, base)
  BY DEF Decoded
<1> QED BY <1>1 DEF EventsSound

-----------------------------------------------------------------------------
(* Steps of the mouse.                                                     *)

LEMMA ReportSound ==
  ASSUME MouseSound, NEW p \in Packets, Report(p) PROVE MouseSound'
<1>0. MouseTyped /\ WireSound /\ EventsSound
  BY DEF MouseSound
<1>1. /\ wire = <<>> /\ wire' = <<p.buttons, p.dx, p.dy>>
      /\ sent' = Append(sent, p)
      /\ UNCHANGED <<base, byte_cycle, bytes, last_button_states, event_queue,
                     handled, dpc, event>>
  BY DEF Report
<1>2. byte_cycle = 0
  BY <1>0, <1>1 DEF MouseTyped, WireSound
<1>3. /\ sent' \in Seq(Packets) /\ Len(sent') = Len(sent) + 1
      /\ sent'[Len(sent) + 1] = p
      /\ \A k \in 1 .. Len(sent) : sent'[k] = sent[k]
      /\ Len(sent) \in Nat
  BY <1>0, <1>1, AppendProperties DEF MouseTyped
<1>4. MouseTyped'
  <2>1. p.buttons \in Bytes /\ p.dx \in Bytes /\ p.dy \in Bytes
    BY DEF Bytes
  <2>2. wire' \in Seq(Bytes)
    BY <1>1, <2>1
  <2> QED BY <1>0, <1>1, <1>3, <2>2 DEF MouseTyped
<1>5. WireSound'
  BY <1>1, <1>2, <1>3 DEF WireSound, Current
<1>6. Seen' = Seen /\ OnTheWay = 0 /\ OnTheWay' = 1
  BY <1>1, <1>2 DEF Seen, Pending, OnTheWay
<1>7. EventsSound'
  <2>1. Len(Seen) = Len(sent) /\ Len(sent') - Len(Seen') = 1
    BY <1>0, <1>3, <1>6, SeenTyped DEF EventsSound
  <2>2. ASSUME NEW k \in 1 .. Len(Seen)
        PROVE  Seen[k] = Decoded(sent', base)[k]
    <3>1. /\ k \in 1 .. Len(sent) /\ k \in 1 .. Len(sent')
          /\ (k # 1 => k - 1 \in 1 .. Len(sent))
      BY <2>1, <1>3
    <3>2. Decoded(sent, base)[k] =
            MakeEvent(IF k = 1 THEN base ELSE sent[k - 1].buttons, sent[k])
      BY <1>0, <3>1, DecodedAt
    <3>3. DOMAIN sent' = 1 .. Len(sent')
      BY <1>3
    <3>4. Decoded(sent', base)[k] =
            MakeEvent(IF k = 1 THEN base ELSE sent'[k - 1].buttons, sent'[k])
      BY <3>1, <3>3 DEF Decoded
    <3>5. Seen[k] = Decoded(sent, base)[k]
      BY <1>0 DEF EventsSound
    <3> QED BY <3>1, <3>2, <3>4, <3>5, <1>3
  <2>3. last_button_states = IF Len(Seen) = 0 THEN base ELSE sent'[Len(Seen)].buttons
    BY <2>1, <1>0, <1>3 DEF EventsSound
  <2> QED BY <2>1, <2>2, <2>3, <1>1, <1>6 DEF EventsSound
<1> QED BY <1>4, <1>5, <1>7 DEF MouseSound

LEMMA StrayByteSound == ASSUME MouseSound, StrayByte PROVE MouseSound'
<1>0. MouseTyped /\ WireSound /\ EventsSound
  BY DEF MouseSound
<1>1. /\ byte_cycle = -1 /\ byte_cycle' = 0 /\ wire' = Tail(wire) /\ wire # <<>>
      /\ last_button_states' = base'
      /\ last_button_states' \in {last_button_states, Head(wire)}
      /\ UNCHANGED <<sent, bytes, event_queue, handled, dpc, event>>
  BY DEF StrayByte
<1>2. Len(wire) = 1 /\ sent = <<>> /\ Len(sent) = 0 /\ wire' = <<>>
  BY <1>0, <1>1 DEF MouseTyped, WireSound
<1>3. MouseTyped'
  BY <1>0, <1>1, <1>2 DEF MouseTyped
<1>4. WireSound'
  BY <1>1, <1>2 DEF WireSound
<1>5. Seen' = Seen /\ OnTheWay = 0 /\ OnTheWay' = 0
  BY <1>1, <1>2 DEF Seen, Pending, OnTheWay
<1>6. Len(Seen) = 0
  BY <1>0, <1>2, <1>5, SeenTyped DEF EventsSound
<1>7. EventsSound'
  BY <1>1, <1>2, <1>5, <1>6 DEF EventsSound
<1> QED BY <1>3, <1>4, <1>7 DEF MouseSound

LEMMA PacketByteSound == ASSUME MouseSound, PacketByte PROVE MouseSound'
<1>0. MouseTyped /\ WireSound /\ EventsSound
  BY DEF MouseSound
<1>1. /\ byte_cycle \in {0, 1} /\ byte_cycle' = byte_cycle + 1
      /\ wire' = Tail(wire) /\ wire # <<>>
      /\ bytes' = [bytes EXCEPT ![byte_cycle] = Head(wire)]
      /\ UNCHANGED <<sent, base, last_button_states, event_queue, handled, dpc,
                     event>>
  BY DEF PacketByte
<1>2. wire' \in Seq(Bytes) /\ Head(wire) \in Bytes
  BY <1>0, <1>1, HeadTailProperties DEF MouseTyped
<1>3. MouseTyped'
  BY <1>0, <1>1, <1>2 DEF MouseTyped
<1>4. WireSound' /\ wire' # <<>>
  <2>0. Current' = Current /\ bytes \in [0 .. 2 -> Bytes]
    BY <1>0, <1>1 DEF Current, MouseTyped
  <2> DEFINE p == Current
  <2>1. CASE byte_cycle = 0
    <3>1. wire = <<p.buttons, p.dx, p.dy>>
      BY <1>0, <1>1, <2>1 DEF WireSound
    <3>2. wire' = <<p.dx, p.dy>> /\ Head(wire) = p.buttons
      BY <3>1, <1>1
    <3>3. byte_cycle' = 1 /\ bytes'[0] = p.buttons
      BY <3>2, <2>0, <2>1, <1>1
    <3> HIDE DEF p
    <3> QED BY <2>0, <3>2, <3>3 DEF WireSound, p
  <2>2. CASE byte_cycle = 1
    <3>1. wire = <<p.dx, p.dy>> /\ bytes[0] = p.buttons
      BY <1>0, <1>1, <2>2 DEF WireSound
    <3>2. wire' = <<p.dy>> /\ Head(wire) = p.dx
      BY <3>1, <1>1
    <3>3. byte_cycle' = 2 /\ bytes'[0] = p.buttons /\ bytes'[1] = p.dx
      BY <3>1, <3>2, <2>0, <2>2, <1>1
    <3> HIDE DEF p
    <3> QED BY <2>0, <3>2, <3>3 DEF WireSound, p
  <2> QED BY <1>1, <2>1, <2>2
<1>5. Seen' = Seen /\ OnTheWay' = OnTheWay
  BY <1>1, <1>4 DEF Seen, Pending, OnTheWay
<1>6. EventsSound'
  BY <1>0, <1>1, <1>5, EventsKept
<1> QED BY <1>3, <1>4, <1>6 DEF MouseSound

LEMMA PacketEndsSound == ASSUME MouseSound, PacketEnds PROVE MouseSound'
<1>0. MouseTyped /\ WireSound /\ EventsSound
  BY DEF MouseSound
<1> DEFINE p == Current
           e == MakeEvent(last_button_states, p)
           n == Len(Seen)
<1>1. /\ byte_cycle = 2 /\ byte_cycle' = 0
      /\ bytes' = [bytes EXCEPT ![2] = Head(wire)]
      /\ event_queue' = Append(event_queue,
                               MakeEvent(last_button_states,
                                         Triple(bytes'[0], bytes'[1], bytes'[2])))
      /\ last_button_states' = bytes'[0]
      /\ wire' = Tail(wire)
      /\ UNCHANGED <<sent, base, handled, dpc, event>>
  BY DEF PacketEnds, SavedButtons, Triple
<1>2. wire = <<p.dy>> /\ bytes[0] = p.buttons /\ bytes[1] = p.dx
  BY <1>0, <1>1 DEF WireSound
<1>3. /\ wire' = <<>> /\ bytes' \in [0 .. 2 -> Bytes]
      /\ bytes'[0] = p.buttons /\ bytes'[1] = p.dx /\ bytes'[2] = p.dy
  <2>1. Head(wire) = p.dy /\ Head(wire) \in Bytes /\ Tail(wire) = <<>>
    BY <1>0, <1>2 DEF MouseTyped
  <2> QED BY <2>1, <1>0, <1>1, <1>2 DEF MouseTyped
<1>4. e \in Events /\ event_queue' = Append(event_queue, e)
  <2>1. e = MakeEvent(last_button_states, Triple(bytes'[0], bytes'[1], bytes'[2]))
    BY <1>3, SameEvent
  <2>2. e \in Events
    <3>1. /\ last_button_states \in Bytes /\ bytes'[0] \in Bytes
          /\ bytes'[1] \in Bytes /\ bytes'[2] \in Bytes
      BY <1>0, <1>3 DEF MouseTyped
    <3>2. <<last_button_states, bytes'[0], bytes'[1], bytes'[2]>>
            \in Bytes \X Bytes \X Bytes \X Bytes
      BY <3>1
    <3> DEFINE S == Bytes \X Bytes \X Bytes \X Bytes
               u == <<last_button_states, bytes'[0], bytes'[1], bytes'[2]>>
    <3>3. e = MakeEvent(u[1], Triple(u[2], u[3], u[4])) /\ u \in S
      BY <2>1, <3>2
    <3> HIDE DEF e, S, u
    <3>4. \E t \in S : e = MakeEvent(t[1], Triple(t[2], t[3], t[4]))
      BY <3>3, Zenon
    <3> QED BY <3>4, Zenon DEF Events, S
  <2> QED BY <2>1, <2>2, <1>1
<1> HIDE DEF e
<1>5. Seen' = Append(Seen, e)
  <2>1. Pending' = Pending
    BY <1>1 DEF Pending
  <2>2. Seen' = (handled \o Pending) \o Append(event_queue, e)
    BY <2>1, <1>1, <1>4 DEF Seen
  <2>3. handled \o Pending \in Seq(Events) /\ event_queue \in Seq(Events)
    BY <1>0, SeenTyped DEF MouseTyped
  <2> DEFINE h == handled \o Pending
  <2>4. Append(event_queue, e) = event_queue \o <<e>> /\ <<e>> \in Seq(Events)
    BY <2>3, <1>4, AppendIsConcat
  <2>5. Append(h \o event_queue, e) = (h \o event_queue) \o <<e>>
    <3> HIDE DEF h
    <3>1. h \o event_queue \in Seq(Events)
      BY <2>3 DEF h
    <3> QED BY <3>1, <1>4, AppendIsConcat
  <2>6. h \o (event_queue \o <<e>>) = (h \o event_queue) \o <<e>>
    <3> HIDE DEF h
    <3> QED BY <2>3, <2>4, ConcatAssociative DEF h
  <2> QED BY <2>2, <2>4, <2>5, <2>6 DEF Seen
<1>s. Seen \in Seq(Events) /\ n \in Nat /\ Len(sent) \in Nat
  BY <1>0, SeenTyped
<1>6. OnTheWay = 1 /\ OnTheWay' = 0 /\ n + 1 = Len(sent)
  <2>1. OnTheWay = 1 /\ OnTheWay' = 0
    BY <1>1, <1>2, <1>3 DEF OnTheWay
  <2> QED BY <2>1, <1>0, <1>s DEF EventsSound
<1>7. /\ Len(Seen') = n + 1 /\ Seen'[n + 1] = e
      /\ \A k \in 1 .. n : Seen'[k] = Seen[k]
  BY <1>5, <1>4, <1>s, AppendProperties
<1>8. MouseTyped'
  <2>1. event_queue' \in Seq(Events)
    BY <1>0, <1>4 DEF MouseTyped
  <2>2. last_button_states' \in Bytes
    BY <1>1, <1>3
  <2>3. wire' \in Seq(Bytes) /\ byte_cycle' \in {-1, 0, 1, 2}
    <3>1. wire' = <<>> /\ byte_cycle' = 0
      BY <1>1, <1>3
    <3>2. <<>> \in Seq(Bytes)
      OBVIOUS
    <3> QED BY <3>1, <3>2
  <2>4. /\ sent' \in Seq(Packets) /\ base' \in Bytes
        /\ handled' \in Seq(Events)
        /\ (dpc' = "handle" => event' \in Events)
    BY <1>0, <1>1 DEF MouseTyped
  <2>5. bytes' \in [0 .. 2 -> Bytes]
    BY <1>3
  <2> QED BY <2>1, <2>2, <2>3, <2>4, <2>5 DEF MouseTyped
<1>9. WireSound'
  BY <1>1, <1>3 DEF WireSound
<1>10. Decoded(sent, base)[n + 1] = e
  <2>1. n + 1 \in 1 .. Len(sent) /\ (n + 1 = 1 <=> n = 0) /\ (n + 1) - 1 = n
    BY <1>s, <1>6
  <2>2. Decoded(sent, base)[n + 1] =
          MakeEvent(IF n + 1 = 1 THEN base ELSE sent[(n + 1) - 1].buttons, sent[n + 1])
    BY <2>1, <1>0, DecodedAt
  <2>3. last_button_states = IF n = 0 THEN base ELSE sent[n].buttons
    BY <1>0 DEF EventsSound
  <2> QED BY <2>1, <2>2, <2>3, <1>6 DEF e, Current
<1>11. EventsSound'
  <2>1. Decoded(sent, base)' = Decoded(sent, base)
    BY <1>1 DEF Decoded
  <2>2. ASSUME NEW k \in 1 .. n + 1 PROVE Seen'[k] = Decoded(sent, base)[k]
    <3>1. k = n + 1 \/ k \in 1 .. n
      BY <1>s
    <3>2. \A j \in 1 .. n : Seen[j] = Decoded(sent, base)[j]
      BY <1>0 DEF EventsSound
    <3> QED BY <3>1, <3>2, <1>7, <1>10
  <2>3. last_button_states' = sent'[n + 1].buttons
    BY <1>1, <1>3, <1>6 DEF Current
  <2>4. Len(sent') - Len(Seen') = 0 /\ Len(Seen') # 0
    BY <1>1, <1>6, <1>7, <1>s
  <2> QED BY <2>1, <2>2, <2>3, <2>4, <1>6, <1>7 DEF EventsSound
<1> QED BY <1>8, <1>9, <1>11 DEF MouseSound

-----------------------------------------------------------------------------
(* Steps of the thread, as far as the events are concerned.                *)

\* A step that neither takes nor makes an event.
LEMMA QuietSound ==
  ASSUME MouseSound, UNCHANGED <<mouseVars, event_queue, handled>>,
         dpc # "handle", dpc' # "handle"
  PROVE  MouseSound'
<1>0. MouseTyped /\ WireSound /\ EventsSound
  BY DEF MouseSound
<1>1. UNCHANGED <<wire, sent, base, byte_cycle, bytes, last_button_states>>
  BY DEF mouseVars
<1>2. Seen' = Seen /\ OnTheWay' = OnTheWay
  BY <1>1 DEF Seen, Pending, OnTheWay
<1>3. EventsSound'
  BY <1>0, <1>1, <1>2, EventsKept
<1>4. MouseTyped'
  BY <1>0, <1>1 DEF MouseTyped
<1>5. WireSound'
  BY <1>0, <1>1 DEF WireSound, Current
<1> QED BY <1>3, <1>4, <1>5 DEF MouseSound

LEMMA FetchEventSound == ASSUME MouseSound, FetchEvent PROVE MouseSound'
<1>0. MouseTyped /\ WireSound /\ EventsSound
  BY DEF MouseSound
<1>1. /\ UNCHANGED <<wire, sent, base, byte_cycle, bytes, last_button_states, handled>>
      /\ dpc = "fetch" /\ dpc' = "handle" /\ event_queue # <<>>
      /\ event' = Head(event_queue) /\ event_queue' = Tail(event_queue)
  BY DEF FetchEvent, mouseVars
<1>2. /\ event' \in Events /\ event_queue' \in Seq(Events)
      /\ <<event'>> \o event_queue' = event_queue
      /\ handled \in Seq(Events) /\ <<event'>> \in Seq(Events)
      /\ event_queue \in Seq(Events)
  <2> DEFINE q == event_queue
  <2>1. q \in Seq(Events) /\ q # <<>>
    BY <1>0, <1>1 DEF MouseTyped
  <2>2. /\ event' \in Events /\ event_queue' \in Seq(Events)
        /\ Len(event_queue') = Len(q) - 1 /\ event' = q[1]
        /\ \A i \in 1 .. Len(event_queue') : event_queue'[i] = q[i + 1]
    BY <1>1, <2>1, HeadTailProperties
  <2>3. <<event'>> \o event_queue' = q
    BY <2>1, <2>2
  <2> QED BY <2>1, <2>2, <2>3, <1>0 DEF MouseTyped
<1>3. Seen' = Seen
  <2>1. Seen' = (handled \o <<event'>>) \o event_queue'
    BY <1>1 DEF Seen, Pending
  <2>2. Seen = (handled \o <<>>) \o event_queue
    BY <1>1 DEF Seen, Pending
  <2>3. handled \o <<>> = handled
    BY <1>2, ConcatEmptySeq
  <2>4. (handled \o <<event'>>) \o event_queue' = handled \o (<<event'>> \o event_queue')
    BY <1>2, ConcatAssociative
  <2> QED BY <2>1, <2>2, <2>3, <2>4, <1>2
<1>4. OnTheWay' = OnTheWay
  BY <1>1 DEF OnTheWay
<1>5. EventsSound'
  BY <1>0, <1>1, <1>3, <1>4, EventsKept
<1>6. MouseTyped'
  BY <1>0, <1>1, <1>2 DEF MouseTyped
<1>7. WireSound'
  BY <1>0, <1>1 DEF WireSound, Current
<1> QED BY <1>5, <1>6, <1>7 DEF MouseSound

LEMMA HandleSound == ASSUME MouseSound, HandleMouseEvent PROVE MouseSound'
<1>0. MouseTyped /\ WireSound /\ EventsSound
  BY DEF MouseSound
<1>1. /\ UNCHANGED <<wire, sent, base, byte_cycle, bytes, last_button_states, event_queue>>
      /\ dpc = "handle" /\ dpc' = "dispose" /\ handled' = Append(handled, event)
  BY DEF HandleMouseEvent, mouseVars
<1>2. /\ handled \in Seq(Events) /\ event \in Events
      /\ handled' = handled \o <<event>> /\ handled' \in Seq(Events)
  <2>1. handled \in Seq(Events) /\ event \in Events
    BY <1>0, <1>1 DEF MouseTyped
  <2> QED BY <2>1, <1>1, AppendIsConcat, AppendProperties
<1>3. Seen' = Seen
  <2>1. Seen' = (handled' \o <<>>) \o event_queue
    BY <1>1 DEF Seen, Pending
  <2>2. Seen = (handled \o <<event>>) \o event_queue
    BY <1>1 DEF Seen, Pending
  <2>3. handled' \o <<>> = handled'
    BY <1>2, ConcatEmptySeq
  <2> QED BY <2>1, <2>2, <2>3, <1>2
<1>4. OnTheWay' = OnTheWay
  BY <1>1 DEF OnTheWay
<1>5. EventsSound'
  BY <1>0, <1>1, <1>3, <1>4, EventsKept
<1>6. MouseTyped'
  BY <1>0, <1>1, <1>2 DEF MouseTyped
<1>7. WireSound'
  BY <1>0, <1>1 DEF WireSound, Current
<1> QED BY <1>5, <1>6, <1>7 DEF MouseSound

LEMMA NextMouseSound == MouseSound /\ [DeskNext]_deskVars => MouseSound'
<1> SUFFICES ASSUME MouseSound, [DeskNext]_deskVars PROVE MouseSound'
  OBVIOUS
<1>1. ASSUME NEW p \in Packets, Report(p) PROVE MouseSound'
  BY <1>1, ReportSound
<1>2. CASE StrayByte
  BY <1>2, StrayByteSound
<1>3. CASE PacketByte
  BY <1>3, PacketByteSound
<1>4. CASE PacketEnds
  BY <1>4, PacketEndsSound
<1>5. CASE Open
  BY <1>5, QuietSound DEF Open
<1>6. CASE FetchEvent
  BY <1>6, FetchEventSound
<1>7. CASE FetchNone
  BY <1>7, QuietSound DEF FetchNone
<1>8. CASE HandleMouseEvent
  BY <1>8, HandleSound
<1>9. CASE Dispose
  BY <1>9, QuietSound DEF Dispose
<1>10. CASE Draw
  BY <1>10, QuietSound DEF Draw
<1>11. CASE Wake
  BY <1>11, QuietSound DEF Wake
<1>12. CASE ConsoleFlush
  BY <1>12, QuietSound DEF ConsoleFlush
<1>13. CASE UNCHANGED deskVars
  <2>1. UNCHANGED <<wire, sent, base, byte_cycle, bytes, last_button_states,
                    event_queue, handled, dpc, event>>
    BY <1>13 DEF deskVars, mouseVars
  <2>2. Seen' = Seen /\ OnTheWay' = OnTheWay
    BY <2>1 DEF Seen, Pending, OnTheWay
  <2>3. EventsSound'
    BY <2>1, <2>2, EventsKept DEF MouseSound
  <2>4. MouseTyped' /\ WireSound'
    BY <2>1 DEF MouseSound, MouseTyped, WireSound, Current
  <2> QED BY <2>3, <2>4 DEF MouseSound
<1> QED BY <1>1, <1>2, <1>3, <1>4, <1>5, <1>6, <1>7, <1>8, <1>9, <1>10, <1>11,
           <1>12, <1>13 DEF DeskNext, _mouse_isr, Thread

LEMMA SoundMeansInOrder == MouseSound => EventsInOrder
<1> SUFFICES ASSUME MouseSound PROVE EventsInOrder
  OBVIOUS
<1> DEFINE D == Decoded(sent, base)
           n == Len(Seen)
<1>0. MouseTyped /\ WireSound /\ EventsSound
  BY DEF MouseSound
<1>1. Seen \in Seq(Events) /\ n \in Nat /\ Len(sent) \in Nat /\ n <= Len(sent)
  <2>1. Seen \in Seq(Events) /\ n \in Nat /\ Len(sent) \in Nat
    BY <1>0, SeenTyped
  <2>2. OnTheWay \in {0, 1} /\ Len(sent) - n = OnTheWay
    BY <1>0 DEF EventsSound, OnTheWay
  <2> QED BY <2>1, <2>2
<1>2. Len(sent) - n = IF wire = <<>> \/ byte_cycle = -1 THEN 0 ELSE 1
  BY <1>0 DEF EventsSound, OnTheWay
<1>3. Seen = SubSeq(D, 1, n)
  <2>1. DOMAIN D = 1 .. Len(sent)
    BY <1>0, SeenTyped DEF Decoded
  <2>2. SubSeq(D, 1, n) = [k \in 1 .. n |-> D[k]]
    <3>1. SubSeq(D, 1, n) = [k \in 1 .. (n - 1) + 1 |-> D[k + 1 - 1]]
      OBVIOUS
    <3> QED BY <3>1, <1>1
  <2>3. Seen = [k \in 1 .. n |-> Seen[k]]
    BY <1>1
  <2>4. \A k \in 1 .. n : Seen[k] = D[k]
    BY <1>0 DEF EventsSound
  <2> HIDE DEF D, n
  <2> QED BY <2>2, <2>3, <2>4
<1> QED BY <1>2, <1>3 DEF EventsInOrder, Seen, Pending

\* Every packet becomes one event, and the desktop handles the events in the
\* order of the packets, for any packets and any number of them, wherever the
\* interrupt falls (mouse.c:123-176, events.c:31-44).
THEOREM EventsAlwaysInOrder == DeskSpec => []EventsInOrder
<1>1. DeskInit => MouseSound
  BY InitMouseSound
<1>2. MouseSound /\ [DeskNext]_deskVars => MouseSound'
  BY NextMouseSound
<1>3. MouseSound => EventsInOrder
  BY SoundMeansInOrder
<1> QED BY <1>1, <1>2, <1>3, PTL DEF DeskSpec

-----------------------------------------------------------------------------
(* The stack of windows.                                                   *)

Capacity == Cardinality(Element)

\* The elements of the stack are those of s, from the bottom, with the windows
\* in the order in which they were opened; only the one on top has the focus.
Stacked(s) ==
  /\ Fields(window_list, Windows \cup {Null})
  /\ Distinct(s) /\ Len(s) <= Len(Opened)
  /\ Chained(window_list, s) /\ ChainedBack(window_list, s)
  /\ \A k \in 1 .. Len(s) : window_list.data[s[k]] = Opened[k]
  /\ \A k \in 1 .. Len(s) : Opened[k] \in focused => k = Len(s)
  /\ dpc = "open" => Len(s) < Len(Opened)

StackKept == \E s \in Seq(Element) : Stacked(s)

LEMMA CapacityFacts ==
  /\ Capacity \in Nat /\ Len(Opened) <= Capacity /\ Len(Opened) \in {1, 2}
  /\ Opened \in Seq(Components)
BY DesktopAssumption, FS_CardinalityType DEF Capacity

LEMMA StackWalks ==
  ASSUME NEW s \in Seq(Element), Stacked(s)
  PROVE  /\ Forward(window_list, Capacity) = s
         /\ Backward(window_list, Capacity) = Reverse(s)
<1>1. Distinct(s) /\ Chained(window_list, s) /\ ChainedBack(window_list, s)
  BY DEF Stacked
<1>2. Capacity \in Nat /\ Len(s) \in Nat /\ Len(s) <= Capacity
  BY CapacityFacts DEF Stacked
<1>3. Forward(window_list, Capacity) = s
  <2>1. /\ window_list.head = IF s = <<>> THEN Null ELSE s[1]
        /\ \A k \in 1 .. Len(s) :
             window_list.next[s[k]] = IF k = Len(s) THEN Null ELSE s[k + 1]
    BY <1>1 DEF Chained
  <2> QED BY <1>1, <1>2, <2>1, WalkReads
<1>4. Backward(window_list, Capacity) = Reverse(s)
  <2>1. Fields(window_list, Windows \cup {Null})
    BY DEF Stacked
  <2> QED BY <1>1, <1>2, <2>1, WalkReadsBack
<1> QED BY <1>3, <1>4

LEMMA StackMeansSound == StackKept => StackSound
<1> SUFFICES ASSUME NEW s \in Seq(Element), Stacked(s) PROVE StackSound
  BY DEF StackKept
<1> DEFINE l == window_list
<1>1. Forward(l, Capacity) = s /\ Backward(l, Capacity) = Reverse(s)
  BY StackWalks
<1>2. /\ Len(Reverse(s)) = Len(s) /\ Len(s) \in Nat /\ DOMAIN s = 1 .. Len(s)
      /\ \A k \in 1 .. Len(s) : Reverse(s)[Len(s) + 1 - k] = s[k]
  BY DEF Reverse
<1>3. Len(s) = l.size
  BY DEF Stacked, Chained
<1>4. ASSUME NEW j \in 1 .. Len(s), NEW k \in 1 .. Len(s), j # k
      PROVE  l.data[s[j]] # l.data[s[k]]
  <2>1. j \in 1 .. Len(Opened) /\ k \in 1 .. Len(Opened)
    BY <1>2, CapacityFacts DEF Stacked
  <2>2. l.data[s[j]] = Opened[j] /\ l.data[s[k]] = Opened[k]
    BY DEF Stacked
  <2> QED BY <1>4, <2>1, <2>2, DesktopAssumption
<1>5. ASSUME NEW k \in 1 .. Len(s), l.data[s[k]] \in focused PROVE s[k] = l.tail
  <2>1. k = Len(s)
    BY <1>5 DEF Stacked
  <2>2. s # <<>> /\ l.tail = IF s = <<>> THEN Null ELSE s[Len(s)]
    BY DEF Stacked, Chained
  <2> QED BY <2>1, <2>2
<1> QED BY <1>1, <1>2, <1>3, <1>4, <1>5 DEF StackSound, Capacity

LEMMA InitStackKept == DeskInit => StackKept
<1> SUFFICES ASSUME DeskInit PROVE StackKept
  OBVIOUS
<1> DEFINE s == <<>>
<1>1. s \in Seq(Element) /\ Len(s) = 0 /\ Distinct(s)
  BY DEF Distinct
<1>2. /\ window_list.size = 0 /\ window_list.head = Null /\ window_list.tail = Null
      /\ Fields(window_list, Windows \cup {Null})
  <2>1. Null \in ListAddress
    BY DEF ListAddress
  <2>2. window_list = NoElements
    BY DEF DeskInit, list_init, NoElements
  <2> QED BY <2>1, <2>2 DEF NoElements, Fields
<1>3. Chained(window_list, s) /\ ChainedBack(window_list, s)
  BY <1>1, <1>2 DEF Chained, ChainedBack
<1>4. Len(s) <= Len(Opened) /\ (dpc = "open" => Len(s) < Len(Opened))
  <2> HIDE DEF s
  <2>1. \A n \in {1, 2} : 0 <= n /\ 0 < n
    OBVIOUS
  <2>2. 0 <= Len(Opened) /\ 0 < Len(Opened)
    BY <2>1, CapacityFacts
  <2> QED BY <2>2, <1>1
<1>5. \A k \in 1 .. Len(s) : FALSE
  BY <1>1
<1> HIDE DEF s
<1>6. Stacked(s)
  BY <1>1, <1>2, <1>3, <1>4, <1>5 DEF Stacked
<1> QED BY <1>1, <1>6 DEF StackKept

\* Some element is free as long as not all windows are open.
LEMMA FreeElementFacts ==
  ASSUME NEW s \in Seq(Element), Stacked(s), Len(s) < Len(Opened)
  PROVE  FreeElement \in Element /\ Fresh(s, FreeElement)
<1> DEFINE Free(n) == \A k \in 1 .. Cardinality(Element) :
                        k \in DOMAIN s => s[k] # n
<1>0. Len(s) \in {0, 1} /\ DOMAIN s = 1 .. Len(s) /\ Capacity \in Nat
      /\ Len(s) < Capacity
  <2>1. Len(s) \in Nat /\ DOMAIN s = 1 .. Len(s)
    OBVIOUS
  <2>2. Capacity \in Nat /\ Len(Opened) <= Capacity /\ Len(Opened) \in {1, 2}
    BY CapacityFacts
  <2>3. \A a, b, c \in Nat : a < b /\ b <= c /\ b \in {1, 2} => a \in {0, 1} /\ a < c
    OBVIOUS
  <2>4. Len(Opened) \in Nat
    BY <2>2
  <2> QED BY <2>1, <2>2, <2>3, <2>4
<1>f. Cardinality({}) = 0 /\ Cardinality({s[1]}) = 1
  BY FS_EmptySet, FS_Singleton
<1>1. \E n \in Element : Free(n)
  <2>1. CASE Len(s) = 0
    <3>1. Element # {}
      BY <1>0, <1>f, <2>1 DEF Capacity
    <3> QED BY <3>1, <2>1, <1>0
  <2>2. CASE Len(s) = 1
    <3>1. PICK n \in Element : n # s[1]
      <4>1. CASE Element \subseteq {s[1]}
        <5>1. Element = {s[1]}
          BY <4>1, <2>2
        <5> QED BY <5>1, <2>2, <1>0, <1>f DEF Capacity
      <4> QED BY <4>1
    <3> QED BY <3>1, <2>2, <1>0
  <2> QED BY <1>0, <2>1, <2>2
<1>2. FreeElement = CHOOSE n \in Element : Free(n)
  BY StackWalks DEF FreeElement, Capacity
<1>3. FreeElement \in Element /\ Free(FreeElement)
  BY <1>1, <1>2
<1>4. ASSUME NEW k \in 1 .. Len(s) PROVE s[k] # FreeElement
  <2>1. k \in 1 .. Cardinality(Element) /\ k \in DOMAIN s
    BY <1>0 DEF Capacity
  <2> QED BY <2>1, <1>3
<1> QED BY <1>3, <1>4 DEF Fresh
\* A new window on top of the stack.
LEMMA AddWindowStacked ==
  ASSUME NEW s \in Seq(Element), Stacked(s), Len(s) < Len(Opened),
         AddWindow(Opened[Len(s) + 1]), dpc' = "open" => Len(s) + 1 < Len(Opened)
  PROVE  StackKept'
<1>n. PICK n \in Element : n = FreeElement /\ Fresh(s, n)
  BY FreeElementFacts
<1> DEFINE L == Len(s)
           l == window_list
           w == Opened[L + 1]
           t == InsertAt(s, L + 1, n)
           D == Windows \cup {Null}
<1>0. /\ L \in Nat /\ L + 1 \in 1 .. Len(Opened) /\ DOMAIN Opened = 1 .. Len(Opened)
      /\ L \in 0 .. Len(s) /\ (s = <<>> <=> L = 0)
  BY CapacityFacts
<1>1. n \in Element /\ Fresh(s, n)
  BY <1>n
<1>2. /\ Fields(l, D) /\ Distinct(s) /\ Chained(l, s) /\ ChainedBack(l, s)
      /\ L <= Len(Opened)
  BY DEF Stacked
<1>3. w \in D
  BY <1>0 DEF Windows
<1>4. l.tail = IF s = <<>> THEN Null ELSE s[L]
  BY <1>2 DEF Chained
<1>5. window_list' = list_insert_next(l, l.tail, n, w)
  BY <1>n DEF AddWindow
<1>6. focused' = (focused \ (IF l.tail = Null THEN {} ELSE {l.data[l.tail]})) \cup {w}
  BY DEF AddWindow
<1> HIDE DEF w, t, D
<1>7. /\ Distinct(t) /\ Len(t) = L + 1 /\ t[L + 1] = n
      /\ \A i \in 1 .. L : t[i] = s[i]
  BY <1>0, <1>1, <1>2, DistinctInserted DEF t
<1>8. /\ Fields(window_list', D) /\ Chained(window_list', t)
      /\ ChainedBack(window_list', t)
      /\ window_list'.data = [l.data EXCEPT ![n] = w]
  <2>1. CASE s = <<>>
    <3>1. window_list' = InsertAtHead(l, n, w)
      BY <2>1, <1>4, <1>5 DEF list_insert_next
    <3>2. t = InsertAt(s, 1, n)
      BY <2>1, <1>0 DEF t
    <3> QED BY <3>1, <3>2, <1>1, <1>2, <1>3, HeadInserted
  <2>2. CASE s # <<>>
    <3>1. L \in 1 .. Len(s) /\ l.tail = s[L] /\ s[L] \in Element
      BY <2>2, <1>0, <1>4
    <3>2. window_list' = InsertBehind(l, s[L], n, w)
      BY <3>1, <1>5, NullIsNoElement DEF list_insert_next
    <3> QED BY <3>1, <3>2, <1>1, <1>2, <1>3, BehindInserted DEF t
  <2> QED BY <2>1, <2>2
<1>9. l.data \in [ListAddress -> D] /\ n \in ListAddress
  BY <1>1, <1>2 DEF Fields, ListAddress
<1>10. ASSUME NEW k \in 1 .. L
       PROVE  window_list'.data[t[k]] = Opened[k] /\ Opened[k] # w
  <2>1. t[k] = s[k] /\ s[k] # n /\ s[k] \in ListAddress
    BY <1>1, <1>7 DEF Fresh, ListAddress
  <2>2. l.data[s[k]] = Opened[k]
    BY DEF Stacked
  <2>3. k \in 1 .. Len(Opened) /\ k # L + 1
    BY <1>0
  <2>4. Opened[k] # w
    BY <2>3, <1>0, DesktopAssumption DEF w
  <2> QED BY <2>1, <2>2, <2>4, <1>8, <1>9
<1>11. ASSUME NEW k \in 1 .. Len(t) PROVE window_list'.data[t[k]] = Opened[k]
  <2>1. k \in 1 .. L \/ k = L + 1
    BY <1>0, <1>7
  <2>2. window_list'.data[n] = w
    BY <1>8, <1>9
  <2> QED BY <2>1, <2>2, <1>7, <1>10 DEF w
<1>12. ASSUME NEW k \in 1 .. Len(t), Opened[k] \in focused' PROVE k = Len(t)
  <2>1. CASE k \in 1 .. L
    <3>1. Opened[k] # w
      BY <2>1, <1>10
    <3>2. Opened[k] \in focused
      BY <3>1, <1>6, <1>12
    <3>3. k = L
      BY <2>1, <3>2 DEF Stacked
    <3>4. l.tail = s[L] /\ s[L] # Null /\ l.data[s[L]] = Opened[L]
      BY <2>1, <3>3, <1>0, <1>4, NullIsNoElement DEF Stacked
    <3> QED BY <3>1, <3>3, <3>4, <1>6, <1>12
  <2> QED BY <2>1, <1>0, <1>7
<1>13. Stacked(t)'
  <2>1. /\ Fields(window_list', Windows \cup {Null})
        /\ Distinct(t) /\ Len(t) <= Len(Opened)
        /\ Chained(window_list', t) /\ ChainedBack(window_list', t)
        /\ (dpc' = "open" => Len(t) < Len(Opened))
    BY <1>0, <1>7, <1>8 DEF D
  <2> QED BY <2>1, <1>11, <1>12 DEF Stacked, Fields, Chained, ChainedBack, t
<1> QED BY <1>7, <1>13 DEF StackKept, Distinct
\* A window is closed: nothing happens, or the one behind it goes.
LEMMA CloseWindowStacked ==
  ASSUME NEW s \in Seq(Element), Stacked(s), NEW w,
         window_list' = CloseWindow(window_list, w), UNCHANGED focused,
         dpc' # "open"
  PROVE  StackKept'
<1> DEFINE l == window_list
           D == Windows \cup {Null}
<1>0. /\ Fields(l, D) /\ Distinct(s) /\ Chained(l, s) /\ ChainedBack(l, s)
      /\ Len(s) \in Nat /\ Len(s) <= Len(Opened) /\ Len(Opened) \in {1, 2}
      /\ DOMAIN s = 1 .. Len(s)
      /\ \A k \in 1 .. Len(s) : l.data[s[k]] = Opened[k]
      /\ \A k \in 1 .. Len(s) : Opened[k] \in focused => k = Len(s)
  BY CapacityFacts DEF Stacked
<1>b. DOMAIN s = 1 .. Len(s) /\ Len(s) \in Nat /\ s \in Seq(Element)
  OBVIOUS
<1>1. CASE window_list' = l
  <2>1. Stacked(s)'
    BY <1>0, <1>1 DEF Stacked, Fields, Chained, ChainedBack
  <2> QED BY <2>1 DEF StackKept
<1>2. CASE window_list' # l
  <2> DEFINE found == {k \in DOMAIN s : l.data[s[k]] = w}
             m == CHOOSE k \in found : \A j \in found : k <= j
             e == s[m]
             t == RemoveAt(s, 2)
  <2>1. /\ found # {} /\ ~NothingToRemove(l, e)
        /\ window_list' = list_remove_next(l, e)
    <3>1. Forward(l, Cardinality(Element)) = s
      BY StackWalks DEF Capacity
    <3> QED BY <3>1, <1>2 DEF CloseWindow
  <2>2. m \in found
    <3>1. found \in SUBSET Nat
      BY <1>b
    <3>2. \E k \in found : \A j \in found : k <= j
      <4> HIDE DEF found
      <4> QED BY <2>1, <3>1, LeastElement
    <3> QED BY <3>2
  <2>3. m \in 1 .. Len(s) /\ e \in Element /\ e # Null
    <3>1. m \in DOMAIN s
      BY <2>2
    <3> HIDE DEF m
    <3> QED BY <3>1, <1>b, NullIsNoElement
  <2> HIDE DEF m, found
  <2>4. m # Len(s)
    <3>1. l.next[e] # Null
      BY <2>1, <2>3 DEF NothingToRemove
    <3> QED BY <3>1, <2>3, <1>0 DEF Chained
  <2>5. m = 1 /\ Len(s) = 2 /\ m + 1 \in 1 .. Len(s)
    <3>1. Len(s) \in 0 .. 2
      <4>1. Len(s) \in Nat /\ Len(s) <= Len(Opened) /\ Len(Opened) \in {1, 2}
        BY <1>0
      <4>2. \A a, b \in Nat : a <= b /\ b \in {1, 2} => a \in 0 .. 2
        OBVIOUS
      <4>3. Len(Opened) \in Nat
        BY <4>1
      <4> QED BY <4>1, <4>2, <4>3
    <3>2. \A a \in 0 .. 2 : \A k \in 1 .. a : k # a => k = 1 /\ a = 2
      OBVIOUS
    <3>3. m = 1 /\ Len(s) = 2
      BY <2>3, <2>4, <3>1, <3>2
    <3> QED BY <3>3
  <2>6. /\ Fields(window_list', D) /\ Chained(window_list', t)
        /\ window_list'.data = l.data
    <3>1. t = RemoveAt(s, m + 1)
      BY <2>5
    <3> HIDE DEF t, D
    <3> QED BY <1>0, <2>1, <2>3, <2>5, <3>1, NextRemoved
  <2>7. Distinct(t) /\ Len(t) = 1 /\ t[1] = s[1]
    <3>1. 2 \in 1 .. Len(s) /\ 1 \in 1 .. 2 - 1
      BY <2>5
    <3>2. /\ Distinct(t) /\ Len(t) = Len(s) - 1
          /\ \A i \in 1 .. 2 - 1 : t[i] = s[i]
      <4>1. Distinct(s)
        BY <1>0
      <4> QED BY <4>1, <3>1, DistinctRemoved
    <3> QED BY <3>1, <3>2, <2>5
  <2>8. window_list'.prev = l.prev
    <3>1. /\ l.next \in [ListAddress -> ListAddress]
          /\ l \in [size : Int, head : ListAddress, tail : ListAddress,
                     next : [ListAddress -> ListAddress],
                     prev : [ListAddress -> ListAddress], data : [ListAddress -> D]]
      BY <1>0 DEF Fields
    <3>2. l = [size |-> l.size, head |-> l.head, tail |-> l.tail, next |-> l.next,
               prev |-> l.prev, data |-> l.data]
      BY <3>1
    <3> HIDE DEF e
    <3>3. window_list' =
            [l EXCEPT !.next[e] = l.next[Removed(l, e)],
                      !.tail = IF l.next[Removed(l, e)] = Null THEN e ELSE @,
                      !.size = @ - 1]
      BY <2>1, <2>3 DEF list_remove_next
    <3> QED BY <3>2, <3>3
  <2> HIDE DEF t
  <2>9. ChainedBack(window_list', t)
    <3>1. 1 \in 1 .. Len(s) /\ l.prev[s[1]] = Null
      BY <2>5, <1>0 DEF ChainedBack
    <3> QED BY <3>1, <2>7, <2>8 DEF ChainedBack
  <2>10. ASSUME NEW k \in 1 .. Len(t)
         PROVE  window_list'.data[t[k]] = Opened[k] /\ (Opened[k] \in focused' => k = Len(t))
    <3>1. k = 1 /\ k \in 1 .. Len(s)
      BY <2>5, <2>7
    <3> QED BY <3>1, <1>0, <2>6, <2>7
  <2>11. Len(t) <= Len(Opened)
    <3>1. \A a \in {1, 2} : 1 <= a
      OBVIOUS
    <3>2. Len(t) = 1 /\ Len(Opened) \in {1, 2}
      BY <1>0, <2>7
    <3> QED BY <3>1, <3>2
  <2>12. Stacked(t)'
    BY <2>6, <2>7, <2>9, <2>10, <2>11
       DEF Stacked, Fields, Chained, ChainedBack, t
  <2> QED BY <2>7, <2>12 DEF StackKept, Distinct
<1> QED BY <1>1, <1>2

LEMMA NextStackKept == StackKept /\ [DeskNext]_deskVars => StackKept'
<1> SUFFICES ASSUME StackKept, [DeskNext]_deskVars PROVE StackKept'
  OBVIOUS
<1>1. PICK s \in Seq(Element) : Stacked(s)
  BY DEF StackKept
<1>2. ASSUME UNCHANGED <<window_list, focused>>, dpc' = "open" => dpc = "open"
      PROVE  StackKept'
  <2>1. Stacked(s)'
    BY <1>1, <1>2 DEF Stacked, Fields, Chained, ChainedBack
  <2> QED BY <2>1 DEF StackKept
<1>3. CASE Open
  <2>1. Len(s) < Len(Opened) /\ window_list.size = Len(s)
    BY <1>1, <1>3 DEF Stacked, Open, Chained
  <2>2. AddWindow(Opened[Len(s) + 1])
    BY <1>3, <2>1 DEF Open
  <2>3. dpc' = "open" => Len(s) + 1 < Len(Opened)
    <3>1. dpc' = IF Len(s) + 1 = Len(Opened) THEN "fetch" ELSE "open"
      BY <1>3, <2>1 DEF Open
    <3>2. Len(s) \in Nat /\ Len(Opened) \in Nat
      BY CapacityFacts
    <3> QED BY <2>1, <3>1, <3>2
  <2> QED BY <1>1, <2>1, <2>2, <2>3, AddWindowStacked
<1>4. CASE HandleMouseEvent
  <2>1. dpc' = "dispose" /\ UNCHANGED focused
    BY <1>4 DEF HandleMouseEvent
  <2>2. CASE window_list' = window_list
    BY <1>2, <2>1, <2>2
  <2>3. CASE window_list' # window_list
    <3>1. PICK w : w = Taker(cursor)
      OBVIOUS
    <3>2. window_list' = CloseWindow(window_list, w)
      BY <1>4, <2>3, <3>1 DEF HandleMouseEvent, HandledBy
    <3> QED BY <1>1, <2>1, <3>2, CloseWindowStacked
  <2> QED BY <2>2, <2>3
<1>5. CASE \E p \in Packets : Report(p)
  BY <1>5, <1>2 DEF Report, winVars
<1>6. CASE _mouse_isr
  BY <1>6, <1>2 DEF _mouse_isr, StrayByte, PacketByte, PacketEnds, winVars
<1>7. CASE FetchEvent \/ FetchNone \/ Dispose \/ Wake
  BY <1>7, <1>2 DEF FetchEvent, FetchNone, Dispose, Wake, winVars
<1>8. CASE Draw \/ ConsoleFlush
  BY <1>8, <1>2 DEF Draw, ConsoleFlush
<1>9. CASE UNCHANGED deskVars
  BY <1>9, <1>2 DEF deskVars, winVars
<1> QED BY <1>3, <1>4, <1>5, <1>6, <1>7, <1>8, <1>9 DEF DeskNext, Thread

\* The list of windows can be walked both ways, holds each window once, and
\* only the window on top has the focus, whatever is clicked and dragged, for
\* any layout of the two windows (linkedlist.c:33-117, desktop.cpp:67-94).
THEOREM StackAlwaysSound == DeskSpec => []StackSound
<1>1. DeskInit => StackKept
  BY InitStackKept
<1>2. StackKept /\ [DeskNext]_deskVars => StackKept'
  BY NextStackKept
<1>3. StackKept => StackSound
  BY StackMeansSound
<1> QED BY <1>1, <1>2, <1>3, PTL DEF DeskSpec

-----------------------------------------------------------------------------
(* Who takes an event.                                                     *)

\* The windows are tried in the order in which they are not painted: the first
\* of the ones that contain a point is the one painted last.
LEMMA TakerIsTopmost ==
  ASSUME StackKept, NEW start
  PROVE  /\ Taker(start) = TopmostInDrawOrder(start)
         /\ Taker(start) # Null => Taker(start) \in Windows
<1>1. PICK s \in Seq(Element) : Stacked(s)
  BY DEF StackKept
<1> DEFINE n == Len(s)
           a == DataOf(window_list, s)
           b == DataOf(window_list, Reverse(s))
           Hit(w) == Rect_Contains(Bounds(w), start[1], start[2])
           up == {k \in DOMAIN a : Hit(a[k])}
           down == {k \in DOMAIN b : Hit(b[k])}
           first == CHOOSE k \in down : \A j \in down : k <= j
           last == CHOOSE k \in up : \A j \in up : k >= j
<1>2. Forward(window_list, Cardinality(Element)) = s
      /\ Backward(window_list, Cardinality(Element)) = Reverse(s)
  BY <1>1, StackWalks DEF Capacity
<1>3. Taker(start) = IF down = {} THEN Null ELSE b[first]
  BY <1>2 DEF Taker, Tried
<1>4. TopmostInDrawOrder(start) = IF up = {} THEN Null ELSE a[last]
  BY <1>2 DEF TopmostInDrawOrder
<1>5. /\ n \in Nat /\ DOMAIN a = 1 .. n /\ DOMAIN b = 1 .. n
      /\ \A k \in 1 .. n : b[k] = a[(n - k) + 1]
  <2>1. n \in Nat /\ DOMAIN s = 1 .. n
    OBVIOUS
  <2>2. DOMAIN Reverse(s) = 1 .. n /\ \A k \in 1 .. n : Reverse(s)[k] = s[(n - k) + 1]
    BY <2>1 DEF Reverse
  <2>3. ASSUME NEW k \in 1 .. n PROVE b[k] = a[(n - k) + 1]
    <3>1. (n - k) + 1 \in 1 .. n
      BY <2>1
    <3>2. b[k] = window_list.data[Reverse(s)[k]]
      BY <2>2 DEF DataOf
    <3>3. a[(n - k) + 1] = window_list.data[s[(n - k) + 1]]
      BY <2>1, <3>1 DEF DataOf
    <3> QED BY <2>2, <3>2, <3>3
  <2>4. DOMAIN a = 1 .. n /\ DOMAIN b = 1 .. n
    BY <2>1, <2>2 DEF DataOf
  <2> QED BY <2>1, <2>3, <2>4
<1>6. ASSUME NEW k \in 1 .. n PROVE a[k] \in Windows
  <2>1. a[k] = window_list.data[s[k]]
    BY DEF DataOf
  <2>2. window_list.data[s[k]] = Opened[k] /\ Len(s) <= Len(Opened)
    BY <1>1 DEF Stacked
  <2>3. k \in 1 .. Len(Opened) /\ DOMAIN Opened = 1 .. Len(Opened)
    <3>1. DOMAIN Opened = 1 .. Len(Opened) /\ Len(Opened) \in Nat
      BY CapacityFacts
    <3> QED BY <3>1, <2>2, <1>5
  <2> QED BY <2>1, <2>2, <2>3 DEF Windows
<1> HIDE DEF a, b, Hit
<1>7. ASSUME NEW k \in 1 .. n
      PROVE  /\ (n - k) + 1 \in 1 .. n
             /\ k \in down => (n - k) + 1 \in up
             /\ k \in up => (n - k) + 1 \in down
  <2>1. (n - k) + 1 \in 1 .. n /\ (n - ((n - k) + 1)) + 1 = k
    BY <1>5
  <2>2. b[k] = a[(n - k) + 1] /\ b[(n - k) + 1] = a[k]
    BY <2>1, <1>5
  <2> QED BY <2>1, <2>2, <1>5
<1>8. down \in SUBSET (1 .. n) /\ up \in SUBSET (1 .. n)
  BY <1>5
<1>9. CASE down = {}
  <2>1. up = {}
    BY <1>7, <1>8, <1>9
  <2> QED BY <1>3, <1>4, <1>9, <2>1
<1>10. CASE down # {}
  <2> HIDE DEF down, up
  <2>0. down \in SUBSET Nat
    BY <1>8
  <2>1. PICK m \in down : \A k \in down : m <= k
    BY <2>0, <1>10, LeastElement
  <2>2. m \in 1 .. n /\ (n - m) + 1 \in up
    BY <2>1, <1>7, <1>8
  <2>3. ASSUME NEW k \in up PROVE (n - m) + 1 >= k
    <3>1. k \in 1 .. n /\ (n - k) + 1 \in down
      BY <1>7, <1>8
    <3>2. m <= (n - k) + 1
      BY <2>1, <3>1
    <3> QED BY <2>2, <3>1, <3>2, <1>5
  <2>4. first = m
    <3>1. first \in down /\ \A j \in down : first <= j
      BY <2>1
    <3>2. first \in 1 .. n /\ first <= m /\ m <= first
      BY <2>1, <3>1, <1>8
    <3> HIDE DEF first
    <3> QED BY <3>2, <2>2, <1>5
  <2>5. last = (n - m) + 1
    <3>1. last \in up /\ \A j \in up : last >= j
      BY <2>2, <2>3
    <3>2. last \in 1 .. n /\ last >= (n - m) + 1 /\ (n - m) + 1 >= last
      BY <2>2, <2>3, <3>1, <1>8
    <3> HIDE DEF last
    <3> QED BY <3>2, <2>2, <1>5
  <2>6. up # {} /\ b[m] = a[(n - m) + 1] /\ a[(n - m) + 1] \in Windows
    BY <2>2, <1>5, <1>6, <1>8
  <2> QED BY <1>3, <1>4, <1>10, <2>4, <2>5, <2>6
<1> QED BY <1>9, <1>10

LEMMA EventTaken ==
  ASSUME StackKept, [DeskNext]_deskVars, handled' # handled
  PROVE  /\ Taker(cursor) = TopmostInDrawOrder(cursor)
         /\ \A w \in Windows : place'[w] # place[w] => w = Taker(cursor)
<1>1. HandleMouseEvent
  BY DEF DeskNext, deskVars, Report, _mouse_isr, StrayByte, PacketByte, PacketEnds,
         Thread, Open, FetchEvent, FetchNone, Dispose, Draw, Wake, ConsoleFlush
<1>2. PICK t : t = Taker(cursor)
  OBVIOUS
<1>3. t = TopmostInDrawOrder(cursor) /\ (t # Null => t \in Windows)
  BY <1>2, TakerIsTopmost
<1>4. ASSUME NEW w \in Windows, w # t PROVE place'[w] = place[w]
  <2>1. CASE place' = place
    BY <2>1
  <2>2. CASE place' # place
    <3>1. t # Null /\ \E x, y : place' = Move(t, x, y)
      BY <1>1, <1>2, <2>2 DEF HandleMouseEvent, HandledBy
    <3>2. PICK x, y : place' = Move(t, x, y)
      BY <3>1
    <3>3. t \in Windows /\ w \in Components /\ w \notin Children[t]
      BY <1>3, <3>1, DesktopAssumption DEF Windows
    <3> QED BY <1>4, <3>2, <3>3 DEF Move
  <2> QED BY <2>1, <2>2
<1> QED BY <1>2, <1>3, <1>4

\* An event is for the window on top of the point where it began, and no other
\* window is moved by it, for any layout of the two windows and their children
\* (desktop.cpp:96-159).
THEOREM EventsAlwaysGoToTop == DeskSpec => EventsGoToTop
<1> DEFINE ToTop == handled' # handled =>
              /\ Taker(cursor) = TopmostInDrawOrder(cursor)
              /\ \A w \in Windows : place'[w] # place[w] => w = Taker(cursor)
<1>1. DeskInit => StackKept
  BY InitStackKept
<1>2. StackKept /\ [DeskNext]_deskVars => StackKept'
  BY NextStackKept
<1>3. StackKept /\ [DeskNext]_deskVars => [ToTop]_deskVars
  BY EventTaken
<1> QED BY <1>1, <1>2, <1>3, PTL DEF DeskSpec, EventsGoToTop

-----------------------------------------------------------------------------
(* The PCI bus.                                                            *)

LEMMA PciFacts ==
  /\ FLAG_BITS \in Nat \ {0} /\ WordSize \in Nat \ {0} /\ WordSize % FLAG_BITS = 0
  /\ Functions \in Seq(Nat \X Nat \X Nat) /\ Len(Functions) \in Nat
  /\ \A i, j \in 1 .. Len(Functions) : Functions[i] = Functions[j] => i = j
  /\ 1 .. Len(Functions) \subseteq Element
  /\ \A n \in 1 .. Len(Functions) : /\ Functions[n] \in Range(Functions)
                                    /\ Function0(Functions[n]) \in Range(Functions)
  /\ \A f \in Range(Functions) : \E n \in 1 .. Len(Functions) : f = Functions[n]
<1>1. PciAssumption
  BY PciAssumptions
<1>2. Functions \in Seq(Nat \X Nat \X Nat)
  BY <1>1 DEF PciAssumption
<1>3. Len(Functions) \in Nat /\ DOMAIN Functions = 1 .. Len(Functions)
  BY <1>2
<1>4. Range(Functions) = {Functions[n] : n \in 1 .. Len(Functions)}
  BY <1>3 DEF Range
<1>5. \A i, j \in 1 .. Len(Functions) : Functions[i] = Functions[j] => i = j
  BY <1>1, <1>3 DEF PciAssumption, IsInjective
<1> QED BY <1>1, <1>2, <1>3, <1>4, <1>5 DEF PciAssumption

\* A function is looked at in its turn.
LEMMA TurnOf ==
  ASSUME NEW n \in 1 .. Len(Functions)
  PROVE  Turn(Functions[n]) = n
<1>1. DOMAIN Functions = 1 .. Len(Functions)
  BY PciFacts
<1> DEFINE S == {m \in 1 .. Len(Functions) : Functions[m] = Functions[n]}
<1>2. \A m \in 1 .. Len(Functions) : Functions[m] = Functions[n] <=> m = n
  BY PciFacts
<1> QED BY <1>1, <1>2 DEF Turn

\* What is left of a number when its remainder is taken off is a multiple.
LEMMA MultipleBelow ==
  ASSUME NEW w \in Nat \ {0}, NEW b \in Nat \ {0}, w % b = 0
  PROVE  (w - 1) % b = b - 1
<1> DEFINE q == w \div b
<1>1. q \in Nat /\ w = q * b
  OBVIOUS
<1> HIDE DEF q
<1>2. q # 0
  BY <1>1
<1>3. q - 1 \in Nat /\ w - 1 = (q - 1) * b + (b - 1)
  BY <1>1, <1>2
<1>4. b - 1 \in 0 .. (b - 1)
  OBVIOUS
<1> DEFINE p == q - 1
           r == b - 1
<1>5. p \in Nat /\ r \in 0 .. (b - 1) /\ w - 1 = p * b + r
  BY <1>3, <1>4
<1> HIDE DEF p, r
<1>6. (p * b + r) % b = r
  BY <1>5
<1>7. (w - 1) % b = r
  BY <1>5, <1>6
<1> QED BY <1>7 DEF r

\* The size of a memory register is found.
LEMMA SizeIsFound ==
  ASSUME NEW b \in Nat, b < WordSize,
         b # 0 => WordSize % b = 0 /\ b % FLAG_BITS = 0,
         NEW v, v = IF b = 0 THEN 0 ELSE (WordSize - 1) - ((WordSize - 1) % b) + 0
  PROVE  SizeOf(v) = b
<1> DEFINE w == WordSize
           F == FLAG_BITS
<1>0. F \in Nat \ {0} /\ w \in Nat \ {0} /\ w % F = 0
  BY PciFacts
<1>1. SizeOf(v) = (w - (v - (v % F))) % w
  BY DEF SizeOf
<1> HIDE DEF w, F
<1>2. CASE b = 0
  <2>1. v = 0 /\ 0 % F = 0 /\ (w - (0 - 0)) = w /\ w % w = 0
    BY <1>0, <1>2
  <2> QED BY <1>1, <1>2, <2>1
<1>3. CASE b # 0
  <2>1. (w - 1) % b = b - 1
    BY <1>0, <1>3, MultipleBelow DEF w
  <2>2. v = w - b
    BY <1>0, <1>3, <2>1 DEF w
  <2>3. (w - b) % F = 0
    <3>1. PICK i \in Nat : w = i * F
      <4>1. w \div F \in Nat /\ w = (w \div F) * F
        BY <1>0
      <4> QED BY <4>1
    <3>2. PICK j \in Nat : b = j * F
      <4>1. b \div F \in Nat /\ b = (b \div F) * F
        BY <1>0, <1>3 DEF F
      <4> QED BY <4>1
    <3>3. w - b = (i - j) * F /\ i - j \in Int
      BY <3>1, <3>2, <1>0
    <3>4. \A k \in Int : (k * F) % F = 0
      BY <1>0
    <3> QED BY <3>3, <3>4
  <2>4. w - ((w - b) - 0) = b /\ b \in 0 .. (w - 1)
    BY <1>0, <1>3 DEF w
  <2>5. b % w = b
    BY <2>4, <1>0
  <2> QED BY <1>1, <2>2, <2>3, <2>4, <2>5
<1> QED BY <1>2, <1>3

\* There is a device: the function and the first of its slot answer.
Slotted(f) == Present(f) /\ Present(Function0(f))

\* Where nothing is plugged in, both halves of the first register say so.
LEMMA AllBitsSet ==
  ASSUME NEW x, NEW r, r = <<x, x, x, x>>
  PROVE  SubSeq(r, 1, 2) = <<x, x>> /\ SubSeq(r, 3, 4) = <<x, x>>
<1>1. r \in Seq({x}) /\ Len(r) = 4 /\ \A i \in 1 .. 4 : r[i] = x
  OBVIOUS
<1> DEFINE a == SubSeq(r, 1, 2)
           b == SubSeq(r, 3, 4)
           s == <<x, x>>
<1>2. a \in Seq({x}) /\ Len(a) = 2 /\ \A i \in 1 .. 2 : a[i] = x
  BY <1>1
<1>3. b \in Seq({x}) /\ Len(b) = 2 /\ \A i \in 1 .. 2 : b[i] = x
  BY <1>1
<1>4. s \in Seq({x}) /\ Len(s) = 2 /\ \A i \in 1 .. 2 : s[i] = x
  OBVIOUS
<1> HIDE DEF a, b, s
<1>5. a = s /\ b = s
  BY <1>2, <1>3, <1>4, SeqEqual
<1> QED BY <1>5 DEF a, b, s

LEMMA NumbersRead ==
  ASSUME bus \in Plugged, NEW f \in Range(Functions)
  PROVE  LET r == IF Present(f) THEN bus[f].register[0] ELSE <<"FF", "FF", "FF", "FF">>
         IN  /\ __pci_config_read_short(f, 0) = SubSeq(r, 1, 2)
             /\ __pci_config_read_short(f, 2) = SubSeq(r, 3, 4)
<1>1. HalfAt(0) = 1 /\ HalfAt(2) = 3 /\ 0 \div 4 = 0 /\ 2 \div 4 = 0
  BY DEF HalfAt
<1>2. /\ Register(f, 0) = IF Present(f) THEN bus[f].register[0] ELSE <<"FF", "FF", "FF", "FF">>
      /\ Register(f, 2) = Register(f, 0)
  BY <1>1 DEF Register
<1> QED BY <1>1, <1>2 DEF __pci_config_read_short

LEMMA FoundIsSlotted ==
  ASSUME bus \in Plugged, NEW n \in 1 .. Len(Functions), NEW f, f = Functions[n]
  PROVE  /\ Found(f) <=> Slotted(f)
         /\ Slotted(f) => /\ __pci_config_read_short(f, 2) = SubSeq(bus[f].register[0], 3, 4)
                          /\ CardIsPossible(bus[f])
<1>1. f \in Range(Functions) /\ Function0(f) \in Range(Functions)
  BY PciFacts
<1>2. \A g \in Range(Functions) : Present(g) => CardIsPossible(bus[g])
  BY PciAssumptions DEF PciAssumption, Present
<1>3. __pci_config_read_short(Function0(f), 0) # <<"FF", "FF">> <=> Present(Function0(f))
  <2> DEFINE g == Function0(f)
  <2>1. CASE Present(g)
    <3>1. __pci_config_read_short(g, 0) = SubSeq(bus[g].register[0], 1, 2)
      BY <2>1, <1>1, NumbersRead
    <3> QED BY <2>1, <3>1, <1>1, <1>2 DEF CardIsPossible
  <2>2. CASE ~Present(g)
    <3>1. __pci_config_read_short(g, 0) = SubSeq(<<"FF", "FF", "FF", "FF">>, 1, 2)
      BY <2>2, <1>1, NumbersRead
    <3> QED BY <2>2, <3>1, AllBitsSet
  <2> QED BY <2>1, <2>2
<1>4. /\ __pci_config_read_short(f, 2) # <<"FF", "FF">> <=> Present(f)
      /\ Present(f) => __pci_config_read_short(f, 2) = SubSeq(bus[f].register[0], 3, 4)
  <2>1. CASE Present(f)
    <3>1. __pci_config_read_short(f, 2) = SubSeq(bus[f].register[0], 3, 4)
      BY <2>1, <1>1, NumbersRead
    <3> QED BY <2>1, <3>1, <1>1, <1>2 DEF CardIsPossible
  <2>2. CASE ~Present(f)
    <3>1. __pci_config_read_short(f, 2) = SubSeq(<<"FF", "FF", "FF", "FF">>, 3, 4)
      BY <2>2, <1>1, NumbersRead
    <3> QED BY <2>2, <3>1, AllBitsSet
  <2> QED BY <2>1, <2>2
<1> QED BY <1>1, <1>2, <1>3, <1>4 DEF Found, Slotted

\* A base address register of a device can hold what it held, and tells its size.
LEMMA BarFacts ==
  ASSUME bus \in Plugged, NEW f \in Plug, NEW k \in Bars
  PROVE  /\ bus[f].bar[k].value \in Nat
         /\ \A v \in Nat : Settable(f, k, v) \in Int
         /\ Settable(f, k, bus[f].bar[k].value) = bus[f].bar[k].value
         /\ bus[f].bar[k].flags = 0 =>
              SizeOf(Settable(f, k, WordSize - 1)) = bus[f].bar[k].size
<1> DEFINE b == bus[f].bar[k]
<1>1. BarIsPossible(b)
  <2>1. f \in DOMAIN bus /\ bus[f] # NoDevice
    BY DEF Plug, Present
  <2>2. CardIsPossible(bus[f])
    BY <2>1, PciAssumptions DEF PciAssumption
  <2> QED BY <2>2 DEF CardIsPossible
<1>2. \A v : Settable(f, k, v) = IF b.size = 0 THEN 0 ELSE v - (v % b.size) + b.flags
  BY DEF Settable
<1>3. b.value \in Nat /\ b.size \in Nat /\ b.flags \in Nat /\ b.size < WordSize
  BY <1>1 DEF BarIsPossible
<1>4. IF b.size = 0 THEN b.value = 0 ELSE b.value % b.size = b.flags
  BY <1>1 DEF BarIsPossible
<1>5. b.size # 0 /\ b.flags = 0 => WordSize % b.size = 0 /\ b.size % FLAG_BITS = 0
  BY <1>1 DEF BarIsPossible
<1> HIDE DEF b
<1>6. \A v \in Nat : Settable(f, k, v) \in Int
  BY <1>2, <1>3
<1>7. Settable(f, k, b.value) = b.value
  BY <1>2, <1>3, <1>4
<1>8. ASSUME b.flags = 0 PROVE SizeOf(Settable(f, k, WordSize - 1)) = b.size
  BY <1>2, <1>3, <1>5, <1>8, SizeIsFound
<1> QED BY <1>3, <1>6, <1>7, <1>8 DEF b

-----------------------------------------------------------------------------
\* What is written into the registers is gone; but for one that is measured.
Restored == \A f \in Plug, k \in Bars : bars[f][k] = bus[f].bar[k].value
RestoredButOne ==
  \A f \in Plug, k \in Bars :
    (f = Here /\ k = bar) \/ bars[f][k] = bus[f].bar[k].value

\* The first n sizes are those of the registers of function f.
SizesRight(sizes, f, n) ==
  \A k \in 0 .. (n - 1) : bus[f].bar[k].flags = 0 => sizes[k + 1] = bus[f].bar[k].size

\* d is filled with what the n-th function says.
Describes(d, n) ==
  /\ Slotted(Functions[n]) /\ d.at = Functions[n]
  /\ d.device_id = SubSeq(bus[Functions[n]].register[0], 3, 4)
  /\ d.bar_sizes = <<>> \/ SizesRight(d.bar_sizes, Functions[n], 6)

\* The list is s: the devices of the functions looked at, the last one first.
Enumerates(s) ==
  /\ Distinct(s) /\ Chained(devices, s)
  /\ \A j \in 1 .. Len(s) : s[j] \in 1 .. (at - 1) /\ Describes(devices.data[s[j]], s[j])
  /\ \A i, j \in 1 .. Len(s) : i < j => s[i] > s[j]
  /\ \A n \in 1 .. (at - 1) : Slotted(Functions[n]) => \E j \in 1 .. Len(s) : s[j] = n
  /\ Len(s) <= at - 1

\* What is known of a device whose registers are being measured.
Measuring ==
  /\ {"at", "device_id", "bar_sizes"} \subseteq DOMAIN config
  /\ config.at = Here /\ config.device_id = SubSeq(bus[Here].register[0], 3, 4)
  /\ config.bar_sizes \in Seq(Int) /\ Len(config.bar_sizes) = bar
  /\ SizesRight(config.bar_sizes, Here, bar)
  /\ RestoredButOne
  /\ step \in {"read", "probe"} => bars[Here][bar] = bus[Here].bar[bar].value
  /\ step # "read" => orig = bus[Here].bar[bar].value
  /\ step = "restore" => size = Settable(Here, bar, WordSize - 1)
  /\ step = "size" => bars[Here][bar] = Settable(Here, bar, WordSize - 1)

Scan ==
  /\ bus \in Plugged /\ at \in 1 .. (Len(Functions) + 1) /\ bar \in Bars
  /\ bars \in [Plug -> [Bars -> Int]]
  /\ step \in {"look", "read", "probe", "size", "restore", "insert", "panic"}
  /\ step \in {"look", "insert"} => Restored
  /\ step \notin {"look", "panic"} => at <= Len(Functions) /\ Slotted(Here)
  /\ step \in {"read", "probe", "size", "restore"} => Measuring
  /\ step = "insert" => Describes(config, at)

PciSound ==
  /\ Scan
  /\ \E D : Fields(devices, D)
  /\ \E s : Enumerates(s)

LEMMA InitPciSound == PciInit => PciSound
<1> SUFFICES ASSUME PciInit PROVE PciSound
  OBVIOUS
<1> USE DEF PciInit
<1>1. /\ \A f \in Plug, k \in Bars : bus[f].bar[k].value \in Nat
      /\ Len(Functions) \in Nat
  BY BarFacts, PciFacts
<1>2. Plug = {g \in DOMAIN bus : Present(g)}
  BY DEF Plug
<1>3. bars = [f \in Plug |-> [k \in Bars |-> bus[f].bar[k].value]]
  BY <1>2
<1>4. bars \in [Plug -> [Bars -> Int]] /\ Restored
  BY <1>1, <1>3 DEF Restored
<1>5. Scan
  BY <1>1, <1>4 DEF Scan, Bars
<1>6. devices = NoElements
  BY DEF list_init, NoElements
<1>7. Fields(devices, {Null})
  BY <1>6 DEF Fields, NoElements, ListAddress
<1>8. Enumerates(<<>>)
  BY <1>6 DEF Enumerates, Distinct, Chained, NoElements
<1> QED BY <1>5, <1>7, <1>8 DEF PciSound


\* The list is as it was; the n-th function may be passed if it is no device.
LEMMA EnumerationKept ==
  ASSUME \E s : Enumerates(s), devices' = devices, bus' = bus,
         at' = at \/ (at' = at + 1 /\ at \in Nat /\ ~Slotted(Functions[at]))
  PROVE  \E s : Enumerates(s)'
<1>1. PICK s : Enumerates(s)
  OBVIOUS
<1>2. \A f : Slotted(f)' <=> Slotted(f)
  BY DEF Slotted, Present
<1>3. \A d, n : Describes(d, n)' <=> Describes(d, n)
  BY <1>2 DEF Describes, SizesRight
<1>4. CASE at' = at
  <2>1. Enumerates(s)'
    BY <1>1, <1>2, <1>3, <1>4 DEF Enumerates
  <2> QED BY <2>1
<1>5. CASE at' = at + 1 /\ at \in Nat /\ ~Slotted(Functions[at])
  <2>1. Len(s) \in Nat
    BY <1>1 DEF Enumerates, Distinct
  <2>2. 1 .. (at' - 1) = 1 .. at /\ \A n \in 1 .. at : n \in 1 .. (at - 1) \/ n = at
    BY <1>5
  <2>3. Distinct(s) /\ Chained(devices, s)'
    BY <1>1 DEF Enumerates
  <2>4. ASSUME NEW j \in 1 .. Len(s)
        PROVE  s[j] \in 1 .. at /\ Describes(devices.data[s[j]], s[j])'
    BY <1>1, <1>3, <1>5 DEF Enumerates
  <2>5. \A n \in 1 .. at : Slotted(Functions[n])' => \E j \in 1 .. Len(s) : s[j] = n
    BY <1>1, <1>2, <1>5, <2>2 DEF Enumerates
  <2>6. Len(s) <= at' - 1
    BY <1>1, <1>5, <2>1 DEF Enumerates
  <2>7. \A i, j \in 1 .. Len(s) : i < j => s[i] > s[j]
    BY <1>1 DEF Enumerates
  <2>8. Enumerates(s)'
    BY <2>2, <2>3, <2>4, <2>5, <2>6, <2>7 DEF Enumerates
  <2> QED BY <2>8
<1> QED BY <1>4, <1>5

LEMMA SkipSound == ASSUME PciSound, Skip PROVE PciSound'
<1> USE DEF Skip
<1>1. at \in 1 .. Len(Functions) /\ Len(Functions) \in Nat /\ ~Slotted(Functions[at])
      /\ at' = at + 1
  <2>1. at \in 1 .. Len(Functions) /\ Len(Functions) \in Nat /\ bus \in Plugged
    BY PciFacts DEF PciSound, Scan
  <2>2. ~Slotted(Functions[at])
    BY <2>1, FoundIsSlotted DEF Here
  <2> QED BY <2>1, <2>2
<1>2. Scan'
  BY <1>1 DEF PciSound, Scan, Restored, Plug, Present
<1>3. \E s : Enumerates(s)'
  BY <1>1, EnumerationKept DEF PciSound
<1> QED BY <1>2, <1>3 DEF PciSound

LEMMA LookSound == ASSUME PciSound, Look PROVE PciSound'
<1> USE DEF Look
<1>1. at \in 1 .. Len(Functions) /\ Len(Functions) \in Nat /\ bus \in Plugged /\ Restored
      /\ bars \in [Plug -> [Bars -> Int]]
  BY PciFacts DEF PciSound, Scan
<1>2. /\ Slotted(Here) /\ CardIsPossible(bus[Here])
      /\ __pci_config_read_short(Here, 2) = SubSeq(bus[Here].register[0], 3, 4)
  BY <1>1, FoundIsSlotted DEF Here
<1> DEFINE common == CommonFields(Here)
<1>3. /\ common.at = Here /\ common.bar_sizes = <<>>
      /\ common.device_id = SubSeq(bus[Here].register[0], 3, 4)
      /\ {"at", "device_id", "bar_sizes", "bar_address"} \subseteq DOMAIN common
  BY <1>2 DEF CommonFields
<1> HIDE DEF common
<1>4. config' = common \/ config' = [common EXCEPT !.bar_address = [k \in Bars |-> ReadBar(Here, k)]]
  BY DEF common
<1>5. /\ config'.at = Here /\ config'.bar_sizes = <<>>
      /\ config'.device_id = SubSeq(bus[Here].register[0], 3, 4)
      /\ {"at", "device_id", "bar_sizes"} \subseteq DOMAIN config'
  BY <1>3, <1>4
<1>6. step' \in {"read", "panic", "insert"} /\ bar' = 0
  OBVIOUS
<1>7. UNCHANGED <<bus, bars, at, devices>> /\ Here' = Here
  BY DEF Here
<1>8. Restored' /\ Slotted(Here)' /\ Plug' = Plug
  BY <1>1, <1>2, <1>7 DEF Restored, Plug, Slotted, Present
<1>9. Describes(config, at)'
  BY <1>5, <1>7, <1>8 DEF Describes, Here
<1>10. ASSUME step' = "read" PROVE Measuring'
  <2>1. Here \in Plug /\ 0 \in Bars
    <3>1. Here \in DOMAIN bus
      BY <1>1, PciFacts, PciAssumptions DEF PciAssumption, Here
    <3> QED BY <3>1, <1>2 DEF Plug, Slotted, Bars
  <2>2. bars'[Here'][bar'] = bus'[Here'].bar[bar'].value
    BY <2>1, <1>1, <1>6, <1>7 DEF Restored
  <2>3. /\ config'.bar_sizes \in Seq(Int) /\ Len(config'.bar_sizes) = bar'
        /\ SizesRight(config.bar_sizes, Here, bar)'
    <3>1. <<>> \in Seq(Int) /\ Len(<<>>) = 0 /\ 0 .. (bar' - 1) = {}
      BY <1>6
    <3>2. SizesRight(config.bar_sizes, Here, bar)'
      BY <3>1 DEF SizesRight
    <3> QED BY <3>1, <3>2, <1>5, <1>6
  <2>4. RestoredButOne'
    BY <1>8 DEF Restored, RestoredButOne
  <2> QED BY <1>5, <1>7, <1>10, <2>2, <2>3, <2>4 DEF Measuring
<1>11. bar' \in Bars
  BY <1>6 DEF Bars
<1>12. Scan'
  BY <1>1, <1>6, <1>7, <1>8, <1>9, <1>10, <1>11 DEF Scan
<1>13. \E s : Enumerates(s)'
  BY EnumerationKept DEF PciSound
<1>14. \E D : Fields(devices', D)
  BY <1>7 DEF PciSound
<1> QED BY <1>12, <1>13, <1>14 DEF PciSound


\* While a register is measured, the list and the functions stay.
LEMMA MeasuringKeeps ==
  ASSUME PciSound, UNCHANGED <<bus, at, devices>>
  PROVE  /\ \E s : Enumerates(s)'
         /\ \E D : Fields(devices', D)
         /\ Here' = Here /\ Plug' = Plug /\ Slotted(Here)' = Slotted(Here)
         /\ \A f, k, v : Settable(f, k, v)' = Settable(f, k, v)
<1>1. \E s : Enumerates(s)'
  BY EnumerationKept DEF PciSound
<1> QED BY <1>1 DEF PciSound, Here, Plug, Slotted, Present, Settable

LEMMA HereIsPlugged ==
  ASSUME PciSound, step \in {"read", "probe", "size", "restore"}
  PROVE  /\ Here \in Plug /\ bar \in Bars /\ bus \in Plugged /\ Measuring
         /\ bars \in [Plug -> [Bars -> Int]] /\ at \in 1 .. Len(Functions)
         /\ Slotted(Here) /\ Len(Functions) \in Nat
<1>1. /\ at \in 1 .. Len(Functions) /\ Len(Functions) \in Nat /\ Slotted(Here) /\ bus \in Plugged
      /\ bar \in Bars /\ Measuring /\ bars \in [Plug -> [Bars -> Int]]
  BY PciFacts DEF PciSound, Scan
<1>2. Here \in DOMAIN bus
  BY <1>1, PciFacts, PciAssumptions DEF PciAssumption, Here
<1> QED BY <1>1, <1>2 DEF Plug, Slotted

LEMMA ReadOriginalSound == ASSUME PciSound, ReadOriginal PROVE PciSound'
<1> USE DEF ReadOriginal
<1>1. /\ Here \in Plug /\ bar \in Bars /\ Measuring
      /\ bars \in [Plug -> [Bars -> Int]] /\ at \in 1 .. Len(Functions)
      /\ Slotted(Here) /\ Len(Functions) \in Nat /\ bus \in Plugged
  BY HereIsPlugged
<1>2. /\ \E s : Enumerates(s)'
      /\ \E D : Fields(devices', D)
      /\ Here' = Here /\ Plug' = Plug /\ Slotted(Here)' = Slotted(Here)
  BY MeasuringKeeps
<1>3. orig' = bus[Here].bar[bar].value /\ step' = "probe"
  BY <1>1 DEF Measuring, ReadBar
<1>4. Measuring'
  BY <1>1, <1>2, <1>3 DEF Measuring, RestoredButOne, SizesRight
<1>5. Scan'
  BY <1>1, <1>2, <1>3, <1>4 DEF Scan
<1> QED BY <1>2, <1>5 DEF PciSound

LEMMA ReadSizeSound == ASSUME PciSound, ReadSize PROVE PciSound'
<1> USE DEF ReadSize
<1>1. /\ Here \in Plug /\ bar \in Bars /\ Measuring
      /\ bars \in [Plug -> [Bars -> Int]] /\ at \in 1 .. Len(Functions)
      /\ Slotted(Here) /\ Len(Functions) \in Nat /\ bus \in Plugged
  BY HereIsPlugged
<1>2. /\ \E s : Enumerates(s)'
      /\ \E D : Fields(devices', D)
      /\ Here' = Here /\ Plug' = Plug /\ Slotted(Here)' = Slotted(Here)
  BY MeasuringKeeps
<1>3. \A f, k, v : Settable(f, k, v)' = Settable(f, k, v)
  BY MeasuringKeeps
<1>4. size' = Settable(Here, bar, WordSize - 1) /\ step' = "restore"
  BY <1>1 DEF Measuring, ReadBar
<1>5. size' = Settable(Here, bar, WordSize - 1)'
  BY <1>2, <1>3, <1>4
<1>6. Measuring'
  BY <1>1, <1>2, <1>4, <1>5 DEF Measuring, RestoredButOne, SizesRight
<1>7. Scan'
  BY <1>1, <1>2, <1>4, <1>6 DEF Scan
<1> QED BY <1>2, <1>7 DEF PciSound

LEMMA ProbeSound == ASSUME PciSound, Probe PROVE PciSound'
<1> USE DEF Probe
<1>1. /\ Here \in Plug /\ bar \in Bars /\ Measuring
      /\ bars \in [Plug -> [Bars -> Int]] /\ at \in 1 .. Len(Functions)
      /\ Slotted(Here) /\ Len(Functions) \in Nat /\ bus \in Plugged
  BY HereIsPlugged
<1>2. /\ \E s : Enumerates(s)'
      /\ \E D : Fields(devices', D)
      /\ Here' = Here /\ Plug' = Plug /\ Slotted(Here)' = Slotted(Here)
  BY MeasuringKeeps
<1>3. \A f, k, v : Settable(f, k, v)' = Settable(f, k, v)
  BY MeasuringKeeps
<1> DEFINE v == Settable(Here, bar, WordSize - 1)
<1>4. v \in Int
  <2>1. WordSize - 1 \in Nat
    BY PciFacts
  <2> QED BY <2>1, <1>1, BarFacts
<1>5. v' = v
  BY <1>2, <1>3
<1> HIDE DEF v
<1>6. bars' = [bars EXCEPT ![Here][bar] = v] /\ step' = "size"
  BY DEF v
<1>7. bars'[Here][bar] = v /\ bars' \in [Plug -> [Bars -> Int]]
  BY <1>1, <1>4, <1>6
<1>8. \A f \in Plug, k \in Bars : (f = Here /\ k = bar) \/ bars'[f][k] = bars[f][k]
  BY <1>1, <1>6
<1>9. RestoredButOne'
  BY <1>1, <1>2, <1>8 DEF Measuring, RestoredButOne
<1>10. SizesRight(config.bar_sizes, Here, bar)'
  BY <1>1, <1>2 DEF Measuring, SizesRight
<1>11. bars'[Here'][bar'] = Settable(Here, bar, WordSize - 1)'
  BY <1>2, <1>5, <1>7 DEF v
<1>12. Measuring'
  BY <1>1, <1>2, <1>6, <1>9, <1>10, <1>11 DEF Measuring
<1>13. Scan'
  BY <1>1, <1>2, <1>6, <1>7, <1>12 DEF Scan
<1> QED BY <1>2, <1>13 DEF PciSound

LEMMA RestoreSound == ASSUME PciSound, Restore PROVE PciSound'
<1> USE DEF Restore
<1>1. /\ Here \in Plug /\ bar \in Bars /\ Measuring
      /\ bars \in [Plug -> [Bars -> Int]] /\ at \in 1 .. Len(Functions)
      /\ Slotted(Here) /\ Len(Functions) \in Nat /\ bus \in Plugged
  BY HereIsPlugged
<1>2. /\ \E s : Enumerates(s)'
      /\ \E D : Fields(devices', D)
      /\ Here' = Here /\ Plug' = Plug /\ Slotted(Here)' = Slotted(Here)
  BY MeasuringKeeps
<1> DEFINE v == bus[Here].bar[bar].value
           n == SizeOf(size)
           old == config.bar_sizes
           new == Append(old, n)
<1>3. v \in Int /\ WrittenBack = v /\ Settable(Here, bar, WrittenBack) = v
      /\ size = Settable(Here, bar, WordSize - 1)
  BY <1>1, BarFacts DEF Measuring, WrittenBack
<1>4. n \in Int
  <2>1. size \in Int /\ FLAG_BITS \in Nat \ {0} /\ WordSize \in Nat \ {0}
    <3>1. FLAG_BITS \in Nat \ {0} /\ WordSize \in Nat \ {0}
      BY PciFacts
    <3>2. WordSize - 1 \in Nat
      BY <3>1
    <3>3. Settable(Here, bar, WordSize - 1) \in Int
      BY <3>2, <1>1, BarFacts
    <3> QED BY <3>1, <3>3, <1>3
  <2> QED BY <2>1 DEF SizeOf
<1>5. bus[Here].bar[bar].flags = 0 => n = bus[Here].bar[bar].size
  BY <1>1, <1>3, BarFacts
<1>6. bars' = [bars EXCEPT ![Here][bar] = v]
  BY <1>3
<1> HIDE DEF v, n
<1>7. bars' \in [Plug -> [Bars -> Int]] /\ Restored'
  <2>1. bars'[Here][bar] = v /\ bars' \in [Plug -> [Bars -> Int]]
    BY <1>1, <1>3, <1>6
  <2>2. \A f \in Plug, k \in Bars : (f = Here /\ k = bar) \/ bars'[f][k] = bars[f][k]
    BY <1>1, <1>6
  <2>3. \A f \in Plug, k \in Bars : bars'[f][k] = bus[f].bar[k].value
    BY <1>1, <2>1, <2>2 DEF Measuring, RestoredButOne, v
  <2> QED BY <2>1, <2>3, <1>2 DEF Restored
<1>8. old \in Seq(Int) /\ Len(old) = bar /\ SizesRight(old, Here, bar)
  BY <1>1 DEF Measuring
<1> HIDE DEF old
<1>9. new \in Seq(Int) /\ Len(new) = bar + 1
  BY <1>4, <1>8
<1>10. SizesRight(new, Here, bar + 1)
  <2> SUFFICES ASSUME NEW k \in 0 .. ((bar + 1) - 1), bus[Here].bar[k].flags = 0
               PROVE  new[k + 1] = bus[Here].bar[k].size
    BY DEF SizesRight
  <2>1. bar \in Nat
    BY <1>1 DEF Bars
  <2>2. CASE k = bar
    <3>1. new[bar + 1] = n
      BY <1>4, <1>8
    <3> QED BY <2>2, <3>1, <1>5 DEF n
  <2>3. CASE k # bar
    <3>1. k \in 0 .. (bar - 1) /\ k + 1 \in 1 .. Len(old)
      BY <2>1, <2>3, <1>8
    <3>2. new[k + 1] = old[k + 1]
      BY <3>1, <1>4, <1>8
    <3> QED BY <3>1, <3>2, <1>8 DEF SizesRight
  <2> QED BY <2>2, <2>3
<1>11. config' = [config EXCEPT !.bar_sizes = new]
  BY DEF old, new, n
<1> HIDE DEF new
<1>12. /\ config'.at = Here /\ config'.device_id = SubSeq(bus[Here].register[0], 3, 4)
       /\ config'.bar_sizes = new
       /\ {"at", "device_id", "bar_sizes"} \subseteq DOMAIN config'
  BY <1>1, <1>11 DEF Measuring
<1>13. RestoredButOne'
  BY <1>7 DEF Restored, RestoredButOne
<1>14. CASE bar = 5
  <2>1. step' = "insert" /\ bar' = 0
    BY <1>14
  <2>2. SizesRight(config.bar_sizes, Functions[at], 6)'
    <3>1. bar + 1 = 6
      BY <1>14
    <3>2. SizesRight(new, Here, 6)
      BY <3>1, <1>10
    <3> QED BY <3>2, <1>2, <1>12 DEF SizesRight, Here
  <2>3. Describes(config, at)'
    BY <2>2, <1>1, <1>2, <1>12 DEF Describes, Here
  <2>4. bar' \in Bars
    BY <2>1 DEF Bars
  <2>5. Scan'
    BY <2>1, <2>3, <2>4, <1>1, <1>2, <1>7 DEF Scan
  <2> QED BY <2>5, <1>2 DEF PciSound
<1>15. CASE bar # 5
  <2>1. step' = "read" /\ bar' = bar + 1 /\ bar' \in Bars
    BY <1>1, <1>15 DEF Bars
  <2>2. SizesRight(config.bar_sizes, Here, bar)'
    BY <1>2, <1>10, <1>12, <2>1 DEF SizesRight
  <2>3. bars'[Here'][bar'] = bus'[Here'].bar[bar'].value
    BY <1>1, <1>2, <1>7, <2>1 DEF Restored
  <2>4. Measuring'
    BY <1>2, <1>9, <1>12, <1>13, <2>1, <2>2, <2>3 DEF Measuring
  <2>5. Scan'
    BY <2>1, <2>4, <1>1, <1>2, <1>7 DEF Scan
  <2> QED BY <2>5, <1>2 DEF PciSound
<1> QED BY <1>14, <1>15

LEMMA InsertDeviceSound == ASSUME PciSound, InsertDevice PROVE PciSound'
<1> USE DEF InsertDevice
<1>1. /\ at \in 1 .. Len(Functions) /\ Len(Functions) \in Nat /\ Slotted(Here) /\ bus \in Plugged
      /\ bar \in Bars /\ Restored /\ bars \in [Plug -> [Bars -> Int]] /\ Describes(config, at)
  BY PciFacts DEF PciSound, Scan
<1>2. PICK s : Enumerates(s)
  BY DEF PciSound
<1>3. PICK D : Fields(devices, D)
  BY DEF PciSound
<1> DEFINE E == D \union {config}
           L == Len(s)
<1>t. PICK t : t = InsertAt(s, 1, at)
  OBVIOUS
<1>4. Fields(devices, E)
  BY <1>3 DEF Fields
<1>5. Distinct(s) /\ Chained(devices, s) /\ s \in Seq(Element) /\ L \in Nat
  BY <1>2 DEF Enumerates, Distinct
<1>6. at \in Element /\ Fresh(s, at)
  <2>1. at \in Element
    BY <1>1, PciFacts
  <2>2. ASSUME NEW k \in 1 .. Len(s) PROVE s[k] # at
    <3>1. s[k] \in 1 .. (at - 1)
      BY <1>2 DEF Enumerates
    <3> QED BY <3>1, <1>1
  <2> QED BY <2>1, <2>2 DEF Fresh
<1>7. devices' = InsertAtHead(devices, at, config)
  BY DEF list_insert_next
<1>8. config \in E
  OBVIOUS
<1> HIDE DEF E
<1>9. /\ Fields(devices', E) /\ Distinct(t) /\ Chained(devices', t)
      /\ devices'.data = [devices.data EXCEPT ![at] = config]
  BY <1>4, <1>5, <1>6, <1>7, <1>8, <1>t, HeadInserted
<1>10. /\ Len(t) = L + 1 /\ t[1] = at
       /\ \A i \in 2 .. L + 1 : t[i] = s[i - 1]
  <2>1. 0 \in 0 .. Len(s) /\ t = InsertAt(s, 0 + 1, at)
    BY <1>5, <1>t
  <2>2. Len(t) = L + 1 /\ t[0 + 1] = at
    BY <1>5, <1>6, <2>1, InsertAtElements
  <2>3. \A i \in 0 + 2 .. L + 1 : t[i] = s[i - 1]
    BY <1>5, <1>6, <2>1, InsertAtElements
  <2> QED BY <2>2, <2>3
<1>11. \A d, n : Describes(d, n)' <=> Describes(d, n)
  BY DEF Describes, SizesRight, Slotted, Present
<1>12. at' - 1 = at
  BY <1>1
<1>13. ASSUME NEW j \in 1 .. Len(t)
       PROVE  t[j] \in 1 .. (at' - 1) /\ Describes(devices.data[t[j]], t[j])'
  <2>1. DOMAIN devices.data = ListAddress
    BY <1>3 DEF Fields
  <2>2. CASE j = 1
    <3>1. devices'.data[at] = config
      BY <1>6, <1>9, <2>1 DEF ListAddress
    <3> QED BY <2>2, <3>1, <1>1, <1>10, <1>11, <1>12
  <2>3. CASE j # 1
    <3>1. t[j] = s[j - 1] /\ j - 1 \in 1 .. L
      BY <2>3, <1>5, <1>10
    <3>2. s[j - 1] \in 1 .. (at - 1) /\ Describes(devices.data[s[j - 1]], s[j - 1])
      BY <3>1, <1>2 DEF Enumerates
    <3>3. devices'.data[s[j - 1]] = devices.data[s[j - 1]]
      <4>1. s[j - 1] # at /\ s[j - 1] \in ListAddress
        BY <3>1, <3>2, <1>1, <1>5 DEF ListAddress
      <4> QED BY <4>1, <1>9, <2>1
    <3> QED BY <3>1, <3>2, <3>3, <1>1, <1>11, <1>12
  <2> QED BY <2>2, <2>3
<1>14. ASSUME NEW i \in 1 .. Len(t), NEW j \in 1 .. Len(t), i < j PROVE t[i] > t[j]
  <2>1. t[j] = s[j - 1] /\ j - 1 \in 1 .. L /\ s[j - 1] \in 1 .. (at - 1)
    BY <1>2, <1>5, <1>10, <1>14 DEF Enumerates
  <2>2. CASE i = 1
    BY <2>1, <2>2, <1>1, <1>10
  <2>3. CASE i # 1
    <3>1. t[i] = s[i - 1] /\ i - 1 \in 1 .. L /\ i - 1 < j - 1
      BY <2>3, <1>5, <1>10, <1>14
    <3> QED BY <2>1, <3>1, <1>2 DEF Enumerates
  <2> QED BY <2>2, <2>3
<1>15. ASSUME NEW n \in 1 .. (at' - 1), Slotted(Functions[n])'
       PROVE  \E j \in 1 .. Len(t) : t[j] = n
  <2>1. CASE n = at
    BY <2>1, <1>5, <1>10
  <2>2. CASE n # at
    <3>1. n \in 1 .. (at - 1) /\ Slotted(Functions[n])
      BY <2>2, <1>1, <1>12, <1>15 DEF Slotted, Present
    <3>2. PICK j \in 1 .. L : s[j] = n
      BY <3>1, <1>2 DEF Enumerates
    <3>3. j + 1 \in 2 .. L + 1 /\ t[j + 1] = s[(j + 1) - 1] /\ (j + 1) - 1 = j
      BY <3>2, <1>5, <1>10
    <3> QED BY <3>2, <3>3, <1>5, <1>10
  <2> QED BY <2>1, <2>2
<1>16. Len(t) <= at' - 1
  <2>1. L <= at - 1
    BY <1>2 DEF Enumerates
  <2> QED BY <2>1, <1>1, <1>5, <1>10, <1>12
<1>17. Enumerates(t)'
  BY <1>9, <1>13, <1>14, <1>15, <1>16 DEF Enumerates
<1>18. Plug' = Plug /\ Restored'
  BY <1>1 DEF Restored, Plug, Present
<1>19. Scan'
  BY <1>1, <1>18 DEF Scan
<1> QED BY <1>9, <1>17, <1>19 DEF PciSound

LEMMA NextPciSound == PciSound /\ [PciNext]_pciVars => PciSound'
<1> SUFFICES ASSUME PciSound, [PciNext]_pciVars PROVE PciSound'
  OBVIOUS
<1>1. CASE UNCHANGED pciVars
  <2>1. \E s : Enumerates(s)'
    BY <1>1, EnumerationKept DEF PciSound, pciVars
  <2>2. Scan'
    BY <1>1 DEF PciSound, Scan, Restored, Plug, Present, Slotted, Here, Measuring,
                RestoredButOne, SizesRight, Settable, Describes, pciVars
  <2> QED BY <1>1, <2>1, <2>2 DEF PciSound, pciVars
<1> QED BY <1>1, SkipSound, LookSound, ReadOriginalSound, ProbeSound, ReadSizeSound,
           RestoreSound, InsertDeviceSound DEF PciNext


-----------------------------------------------------------------------------
\* What the searches answer with is the entry itself or one before it.
LEMMA FirstOfHits ==
  ASSUME NEW hit \in SUBSET (DOMAIN Listed), NEW n \in Nat, DOMAIN Listed = 1 .. n,
         NEW j \in hit
  PROVE  FirstOf(hit) \in {Listed[i] : i \in 1 .. j}
<1>1. hit \in SUBSET Nat /\ hit # {}
  OBVIOUS
<1>2. \E k \in hit : \A i \in hit : k <= i
  BY <1>1, LeastElement
<1> DEFINE k == CHOOSE k \in hit : \A i \in hit : k <= i
<1>3. k \in hit /\ k <= j
  BY <1>2
<1>4. k \in 1 .. j
  BY <1>3
<1>5. FirstOf(hit) = Listed[k]
  BY <1>1 DEF FirstOf
<1> HIDE DEF k
<1> QED BY <1>4, <1>5

LEMMA SoundMeansDevicesFound == PciSound => DevicesFound
<1> SUFFICES ASSUME PciSound, step = "look" PROVE DevicesFound
  BY DEF DevicesFound
<1>1. /\ at \in 1 .. (Len(Functions) + 1) /\ Restored /\ bus \in Plugged
      /\ Len(Functions) \in Nat
  BY PciFacts DEF PciSound, Scan
<1>2. PICK s : Enumerates(s)
  BY DEF PciSound
<1> DEFINE L == Len(s)
           EntryAt(j) == devices.data[s[j]]
<1>3. Distinct(s) /\ s \in Seq(Element) /\ L \in Nat /\ L <= Len(Functions)
  <2>1. L <= at - 1 /\ Distinct(s)
    BY <1>2 DEF Enumerates
  <2>2. s \in Seq(Element)
    BY <2>1 DEF Distinct
  <2>3. L \in Nat
    BY <2>2
  <2>4. at - 1 <= Len(Functions) /\ at \in Int
    BY <1>1
  <2> HIDE DEF L
  <2>5. L <= Len(Functions)
    BY <2>1, <2>3, <2>4, <1>1
  <2> QED BY <2>1, <2>2, <2>3, <2>5
<1>4. Forward(devices, Len(Functions)) = s
  BY <1>1, <1>2, <1>3, WalkReads DEF Enumerates, Chained
<1>5. Listed = [j \in 1 .. L |-> EntryAt(j)]
  BY <1>3, <1>4 DEF Listed, DataOf
<1>6. \A j \in 1 .. L : s[j] \in 1 .. (at - 1) /\ Describes(EntryAt(j), s[j])
  BY <1>2 DEF Enumerates
<1>7. \A j \in 1 .. L : /\ EntryAt(j).at = Functions[s[j]] /\ s[j] \in 1 .. Len(Functions)
                        /\ Turn(EntryAt(j).at) = s[j]
  <2> SUFFICES ASSUME NEW j \in 1 .. L
               PROVE  /\ EntryAt(j).at = Functions[s[j]] /\ s[j] \in 1 .. Len(Functions)
                      /\ Turn(EntryAt(j).at) = s[j]
    OBVIOUS
  <2>1. EntryAt(j).at = Functions[s[j]]
    BY <1>6 DEF Describes
  <2>2. s[j] \in 1 .. Len(Functions)
    BY <1>1, <1>6
  <2> QED BY <2>1, <2>2, TurnOf
<1> HIDE DEF L, EntryAt
<1>8. DOMAIN Listed = 1 .. L /\ \A j \in 1 .. L : Listed[j] = EntryAt(j)
  BY <1>5
<1>9. Range(Listed) = {EntryAt(j) : j \in 1 .. L}
  BY <1>8 DEF Range
<1>10. {d.at : d \in Range(Listed)} =
         {f \in Plug : Turn(f) < at /\ Present(Function0(f))}
  <2>1. ASSUME NEW d \in Range(Listed)
        PROVE  d.at \in Plug /\ Turn(d.at) < at /\ Present(Function0(d.at))
    <3>1. PICK j \in 1 .. L : d = EntryAt(j)
      BY <1>9
    <3>2. d.at = Functions[s[j]] /\ Slotted(d.at) /\ Turn(d.at) = s[j]
      BY <3>1, <1>6, <1>7 DEF Describes
    <3>3. d.at \in DOMAIN bus
      <4>1. d.at \in Range(Functions)
        BY <3>1, <1>7, PciFacts
      <4> QED BY <4>1, <1>1, PciAssumptions DEF PciAssumption
    <3> QED BY <3>1, <3>2, <3>3, <1>1, <1>6 DEF Slotted, Plug
  <2>2. ASSUME NEW f \in Plug, Turn(f) < at, Present(Function0(f))
        PROVE  \E d \in Range(Listed) : f = d.at
    <3>1. f \in Range(Functions)
      BY <1>1, PciAssumptions DEF PciAssumption, Plug
    <3>2. PICK n \in 1 .. Len(Functions) : f = Functions[n]
      BY <3>1, PciFacts
    <3>3. n \in 1 .. (at - 1) /\ Slotted(Functions[n])
      BY <2>2, <3>2, <1>1, TurnOf DEF Slotted, Plug
    <3>4. PICK j \in 1 .. L : s[j] = n
      BY <3>3, <1>2 DEF Enumerates, L
    <3> QED BY <3>2, <3>4, <1>7, <1>9
  <2> QED BY <2>1, <2>2
<1>11. \A i, j \in DOMAIN Listed : i < j => Turn(Listed[i].at) > Turn(Listed[j].at)
  BY <1>2, <1>7, <1>8 DEF Enumerates, L
<1>12. ASSUME NEW d \in Range(Listed), NEW k \in Bars,
              d.bar_sizes # <<>>, bus[d.at].bar[k].flags = 0
       PROVE  d.bar_sizes[k + 1] = bus[d.at].bar[k].size
  <2>1. PICK j \in 1 .. L : d = EntryAt(j)
    BY <1>9
  <2>2. SizesRight(d.bar_sizes, d.at, 6)
    BY <2>1, <1>6, <1>7, <1>12 DEF Describes
  <2>3. k \in 0 .. (6 - 1)
    BY DEF Bars
  <2> QED BY <2>2, <2>3, <1>12 DEF SizesRight
<1>13. ASSUME NEW j \in DOMAIN Listed
       PROVE  LET d == Listed[j]
                  m == __pci_find_by_device(d.vendor_id, d.device_id)
                  c == __pci_find_by_class(d.base_class, d.sub_class, d.programming_if)
              IN /\ d.device_id = SubSeq(bus[d.at].register[0], 3, 4)
                 /\ {m, c} \subseteq Range(SubSeq(Listed, 1, j))
  <2> DEFINE d == Listed[j]
             m == __pci_find_by_device(d.vendor_id, d.device_id)
             c == __pci_find_by_class(d.base_class, d.sub_class, d.programming_if)
             hm == {k \in DOMAIN Listed :
                      Listed[k].vendor_id = d.vendor_id /\ Listed[k].device_id = d.device_id}
             hc == {k \in DOMAIN Listed :
                      /\ Listed[k].base_class = d.base_class /\ Listed[k].sub_class = d.sub_class
                      /\ Listed[k].programming_if = d.programming_if}
  <2>1. d.device_id = SubSeq(bus[d.at].register[0], 3, 4)
    BY <1>6, <1>7, <1>8 DEF Describes
  <2>2. Range(SubSeq(Listed, 1, j)) = {Listed[i] : i \in 1 .. j}
    <3>1. j \in 1 .. L /\ L \in Nat
      BY <1>3, <1>8 DEF L
    <3>2. Listed \in Seq(Range(Listed)) /\ Len(Listed) = L
      BY <3>1, <1>5, <1>8, <1>9
    <3>3. /\ SubSeq(Listed, 1, j) \in Seq(Range(Listed)) /\ Len(SubSeq(Listed, 1, j)) = j
          /\ \A i \in 1 .. j : SubSeq(Listed, 1, j)[i] = Listed[i]
      <4> DEFINE l == Listed
                 R == Range(Listed)
      <4>1. l \in Seq(R) /\ Len(l) = L
        BY <3>2
      <4> HIDE DEF l, R
      <4>2. /\ SubSeq(l, 1, j) \in Seq(R) /\ Len(SubSeq(l, 1, j)) = j
            /\ \A i \in 1 .. j : SubSeq(l, 1, j)[i] = l[i]
        BY <3>1, <4>1
      <4> QED BY <4>2 DEF l, R
    <3>4. DOMAIN SubSeq(Listed, 1, j) = 1 .. j
      BY <3>3
    <3> QED BY <3>3, <3>4 DEF Range
  <2>3. m = FirstOf(hm) /\ c = FirstOf(hc)
    BY DEF __pci_find_by_device, __pci_find_by_class
  <2>4. j \in hm /\ j \in hc /\ hm \in SUBSET (DOMAIN Listed) /\ hc \in SUBSET (DOMAIN Listed)
    OBVIOUS
  <2> HIDE DEF m, c, hm, hc, d
  <2>5. L \in Nat
    BY <1>3 DEF L
  <2>6. m \in {Listed[i] : i \in 1 .. j} /\ c \in {Listed[i] : i \in 1 .. j}
    BY <2>3, <2>4, <2>5, <1>8, FirstOfHits
  <2> QED BY <2>1, <2>2, <2>6 DEF m, c, d
<1>14. \A f \in Plug, k \in Bars : bars[f][k] = bus[f].bar[k].value
  BY <1>1 DEF Restored
<1> QED BY <1>10, <1>11, <1>12, <1>13, <1>14 DEF DevicesFound

(* When the scan of the bus comes to a function, what it wrote into the    *)
(* registers of those before is gone, and each device before is in the     *)
(* list once, the last one first, with the sizes of its memory; both       *)
(* searches find each (pci.c:63-189, 203-219, 352-388).                    *)
THEOREM DevicesAlwaysFound == PciSpec => []DevicesFound
<1>1. PciSpec => []PciSound
  BY InitPciSound, NextPciSound, PTL DEF PciSpec
<1> QED BY <1>1, SoundMeansDevicesFound, PTL
=============================================================================
