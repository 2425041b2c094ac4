----------------------------- MODULE LockProofs -----------------------------
(***************************************************************************)
(* Proofs about reader/writer locks, for every number of PCBs and locks:   *)
(* the counters of a lock agree with who holds it and who waits for it,    *)
(* nobody waits for a lock that nobody holds, and no reader gets a lock    *)
(* that a writer waits for.                                                *)
(***************************************************************************)
EXTENDS Locks, ProcessProofs, FiniteSetTheorems

\* What the types of Locks.tla add to those of the process core.
LockTyped ==
  /\ lockCount \in 0 .. MaxLocks
  /\ readerCount \in [LockIds -> Nat]
  /\ writerWaitingCount \in [LockIds -> Nat]
  /\ hasWriter \in [LockIds -> BOOLEAN]
  /\ wanted \in [Pcbs -> LockModes \cup {"none"}]
  /\ flushing \in LockIds \cup {0}
  /\ holds \in [LockIds -> [Pcbs -> LockModes \cup {"none"}]]

\* Writers stand before readers.
Ordered(s, want) ==
  \A i, j \in 1 .. Len(s) : i <= j => WaitKey(want[s[i]]) <= WaitKey(want[s[j]])

\* BehindEqual, whatever the waiters want.
Behind(s, n, m, want) ==
  /\ \A i \in 1 .. n : WaitKey(want[s[i]]) <= WaitKey(m)
  /\ n < Len(s) => WaitKey(want[s[n + 1]]) > WaitKey(m)

\* What is true of one lock at every step:
\* the counters count,
Counted(l) ==
  /\ readerCount[l] = Cardinality(Holders(l, "LOCK_READ"))
  /\ writerWaitingCount[l] = Cardinality(Waiters(l, "LOCK_WRITE"))
\* who waits wants it and does not hold it, and writers wait in front,
WaitingRight(l) ==
  /\ \A p \in Pcbs : In(LockQ(l), p) => wanted[p] \in LockModes /\ holds[l][p] = "none"
  /\ Ordered(queue[LockQ(l)], wanted)
\* a lock that has a writer is held by one, and unless its readers are being
\* flushed, who waits finds it marked and held.
Marked(l) ==
  /\ hasWriter[l] => \E p \in Pcbs : holds[l][p] = "LOCK_WRITE"
  /\ l = flushing => Waiters(l, "LOCK_WRITE") = {}
  /\ l # flushing /\ queue[LockQ(l)] # <<>> =>
       /\ hasWriter[l] \/ writerWaitingCount[l] > 0
       /\ \E p \in Pcbs : holds[l][p] # "none"

LockOK(l) == Counted(l) /\ WaitingRight(l) /\ Marked(l)

\* The inductive invariant.
LockInv ==
  /\ CallsSound
  /\ LockTyped
  /\ flushing # 0 => mode = "release"
  /\ \A l \in LockIds : LockOK(l)

\* The step of ReadersYield.
YieldStep ==
  \A l \in LockIds :
    (\E p \in Pcbs : holds[l][p] # "LOCK_READ" /\ holds'[l][p] = "LOCK_READ")
      => Waiters(l, "LOCK_WRITE") = {}

LEMMA LockQFacts ==
  /\ \A l \in LockIds : LockQ(l) \in QueueIds \ CoreQs
  /\ \A l, k \in LockIds : l # k => LockQ(k) \notin {LockQ(l)} \cup ReadyQs
  /\ 0 \notin LockIds
BY LockAssumptions
   DEF LockAssumption, LockQ, LockIds, QueueIds, CoreQs, FreeQ, SleepQ, ReadQ, ReadyQs, ReadyQ

-----------------------------------------------------------------------------
(* Counting and order.                                                     *)

LEMMA PcbSetsFinite == \A T : T \subseteq Pcbs => IsFiniteSet(T) /\ Cardinality(T) \in Nat
<1>1. IsFiniteSet(Pcbs)
  BY ConstantFacts, FS_Interval DEF Pcbs
<1> QED BY <1>1, FS_Subset, FS_CardinalityType

LEMMA OneMore ==
  ASSUME NEW T, T \subseteq Pcbs, NEW p, p \notin T, NEW U, U = T \cup {p}
  PROVE  Cardinality(U) = Cardinality(T) + 1
BY PcbSetsFinite, FS_AddElement

LEMMA OneLess ==
  ASSUME NEW T, T \subseteq Pcbs, NEW p, p \in T, NEW U, U = T \ {p}
  PROVE  Cardinality(U) = Cardinality(T) - 1
BY PcbSetsFinite, FS_RemoveElement

LEMMA CountedThere ==
  ASSUME NEW T, Cardinality(T) > 0
  PROVE  T # {}
<1>1. T = {} => Cardinality(T) = 0
  BY FS_EmptySet, Zenon
<1> QED BY <1>1

LEMMA OrderedTail ==
  ASSUME NEW s \in Seq(Pcbs), s # <<>>, IsInjective(s),
         NEW w \in [Pcbs -> LockModes \cup {"none"}], NEW v,
         \A x \in Pcbs : x # Head(s) => v[x] = w[x], Ordered(s, w)
  PROVE  /\ Ordered(Tail(s), v)
         /\ w[Head(s)] = "LOCK_READ" => \A x : Contains(s, x) => w[x] = "LOCK_READ"
<1> DEFINE t == Tail(s)
<1>1. /\ t \in Seq(Pcbs) /\ Len(t) = Len(s) - 1 /\ Len(s) \in Nat \ {0}
      /\ \A i \in 1 .. Len(t) : t[i] = s[i + 1]
      /\ Head(s) = s[1] /\ Head(s) \in Pcbs
  BY HeadTailProperties, EmptySeq
<1>2. \A i \in 1 .. Len(t) : i + 1 \in 1 .. Len(s) /\ t[i] = s[i + 1] /\ t[i] \in Pcbs
  BY <1>1, ElementOfSeq
<1> HIDE DEF t
<1>3. \A i \in 1 .. Len(t) : v[t[i]] = w[s[i + 1]]
  <2> SUFFICES ASSUME NEW i \in 1 .. Len(t) PROVE v[t[i]] = w[s[i + 1]]
    OBVIOUS
  <2>1. DOMAIN s = 1 .. Len(s) /\ 1 \in 1 .. Len(s) /\ i + 1 # 1
    BY <1>1
  <2>2. s[i + 1] # s[1]
    BY <2>1, <1>2 DEF IsInjective
  <2> QED BY <2>2, <1>1, <1>2
<1>4. Ordered(t, v)
  <2> SUFFICES ASSUME NEW i \in 1 .. Len(t), NEW j \in 1 .. Len(t), i <= j
               PROVE  WaitKey(v[t[i]]) <= WaitKey(v[t[j]])
    BY DEF Ordered
  <2>1. i + 1 \in 1 .. Len(s) /\ j + 1 \in 1 .. Len(s) /\ i + 1 <= j + 1
    BY <1>2
  <2>2. WaitKey(w[s[i + 1]]) <= WaitKey(w[s[j + 1]])
    BY <2>1 DEF Ordered
  <2> QED BY <2>2, <1>3
<1>5. ASSUME w[Head(s)] = "LOCK_READ", NEW x, Contains(s, x) PROVE w[x] = "LOCK_READ"
  <2>1. PICK j \in 1 .. Len(s) : s[j] = x
    BY <1>5 DEF Contains
  <2>2. 1 \in 1 .. Len(s) /\ 1 <= j
    BY <1>1
  <2>3. WaitKey(w[s[1]]) <= WaitKey(w[s[j]])
    BY <2>2 DEF Ordered
  <2> QED BY <2>1, <2>3, <1>1, <1>5 DEF WaitKey
<1> QED BY <1>4, <1>5 DEF t

(* A new waiter stands behind the first n, none of which wants the lock    *)
(* less than it does.                                                      *)
LEMMA OrderedInsert ==
  ASSUME NEW s \in Seq(Pcbs), NEW c \in Pcbs, ~Contains(s, c), NEW n \in 0 .. Len(s),
         NEW m \in LockModes, NEW w \in [Pcbs -> LockModes \cup {"none"}], Ordered(s, w),
         Behind(s, n, m, w),
         NEW v, v = [w EXCEPT ![c] = m], NEW t, t = InsertAt(s, n + 1, c)
  PROVE  Ordered(t, v)
<1>1. t \in Seq(Pcbs) /\ Len(t) = Len(s) + 1
  <2>1. t \in Seq(Pcbs)
    BY InsertAtElements
  <2>2. Len(t) = Len(s) + 1
    BY InsertAtElements
  <2> QED BY <2>1, <2>2
<1>2. t[n + 1] = c
  BY InsertAtElements
<1>3. \A i \in 1 .. n : t[i] = s[i]
  BY InsertAtElements
<1>4. \A i \in n + 2 .. Len(s) + 1 : t[i] = s[i - 1]
  BY InsertAtElements
<1>5. \A i \in 1 .. Len(s) : s[i] \in Pcbs /\ s[i] # c /\ v[s[i]] = w[s[i]]
  BY ElementOfSeq DEF Contains
<1>6. v[c] = m /\ WaitKey(m) \in {0, 1} /\ \A x \in Pcbs : WaitKey(w[x]) \in {0, 1}
  BY DEF WaitKey
<1>7. ASSUME NEW i \in n + 1 .. Len(s) PROVE WaitKey(w[s[i]]) >= WaitKey(m)
  <2>1. n + 1 \in 1 .. Len(s) /\ i \in 1 .. Len(s) /\ n + 1 <= i
    OBVIOUS
  <2>2. WaitKey(w[s[n + 1]]) <= WaitKey(w[s[i]])
    BY <2>1 DEF Ordered
  <2> QED BY <2>1, <2>2, <1>5, <1>6 DEF Behind
<1> SUFFICES ASSUME NEW i \in 1 .. Len(t), NEW j \in 1 .. Len(t), i <= j
             PROVE  WaitKey(v[t[i]]) <= WaitKey(v[t[j]])
  BY DEF Ordered
<1> HIDE DEF Ordered
<1>8. CASE i = j
  <2>1. WaitKey(v[t[i]]) \in {0, 1}
    BY DEF WaitKey
  <2> QED BY <2>1, <1>8
<1>9. CASE j <= n
  <2>1. i \in 1 .. n /\ j \in 1 .. n /\ i \in 1 .. Len(s) /\ j \in 1 .. Len(s)
    BY <1>9
  <2>2. WaitKey(w[s[i]]) <= WaitKey(w[s[j]])
    BY <2>1 DEF Ordered
  <2> QED BY <2>1, <2>2, <1>3, <1>5
<1>10. CASE j = n + 1 /\ i <= n
  <2>1. i \in 1 .. n /\ i \in 1 .. Len(s)
    BY <1>10
  <2> QED BY <2>1, <1>10, <1>2, <1>3, <1>5, <1>6 DEF Behind
<1>11. CASE j > n + 1 /\ i = n + 1
  <2>1. j \in n + 2 .. Len(s) + 1 /\ j - 1 \in n + 1 .. Len(s) /\ j - 1 \in 1 .. Len(s)
    BY <1>11, <1>1
  <2> QED BY <2>1, <1>11, <1>2, <1>4, <1>5, <1>6, <1>7
<1>12. CASE j > n + 1 /\ i <= n
  <2>1. /\ j \in n + 2 .. Len(s) + 1 /\ j - 1 \in 1 .. Len(s)
        /\ i \in 1 .. n /\ i \in 1 .. Len(s) /\ i <= j - 1
    BY <1>12, <1>1
  <2>2. WaitKey(w[s[i]]) <= WaitKey(w[s[j - 1]])
    BY <2>1 DEF Ordered
  <2> QED BY <2>1, <2>2, <1>3, <1>4, <1>5
<1>13. CASE j > n + 1 /\ i > n + 1
  <2>1. /\ j \in n + 2 .. Len(s) + 1 /\ j - 1 \in 1 .. Len(s)
        /\ i \in n + 2 .. Len(s) + 1 /\ i - 1 \in 1 .. Len(s) /\ i - 1 <= j - 1
    BY <1>13, <1>1
  <2>2. WaitKey(w[s[i - 1]]) <= WaitKey(w[s[j - 1]])
    BY <2>1 DEF Ordered
  <2> QED BY <2>1, <2>2, <1>4, <1>5
<1> QED BY <1>8, <1>9, <1>10, <1>11, <1>12, <1>13

-----------------------------------------------------------------------------
(* What a step does to a lock.                                             *)

(* A lock that the step is not about.                                      *)
LEMMA OtherLock ==
  ASSUME LockInv, NEW k \in LockIds, queue'[LockQ(k)] = queue[LockQ(k)],
         readerCount'[k] = readerCount[k], hasWriter'[k] = hasWriter[k],
         writerWaitingCount'[k] = writerWaitingCount[k], holds'[k] = holds[k],
         \A p \in Pcbs : In(LockQ(k), p) => wanted'[p] = wanted[p],
         (k = flushing') <=> (k = flushing)
  PROVE  LockOK(k)'
<1>1. LockOK(k) /\ queue[LockQ(k)] \in Seq(Pcbs)
  BY LockQFacts DEF LockInv, CallsSound, TypeOK
<1>2. \A p \in Pcbs : In(LockQ(k), p)' <=> In(LockQ(k), p)
  BY DEF In
<1>3. \A m : Holders(k, m)' = Holders(k, m) /\ Waiters(k, m)' = Waiters(k, m)
  BY <1>2 DEF Holders, Waiters
<1>4. Counted(k)'
  BY <1>1, <1>3 DEF LockOK, Counted
<1>5. WaitingRight(k)'
  <2>1. \A p \in Pcbs : In(LockQ(k), p)' => wanted'[p] \in LockModes /\ holds'[k][p] = "none"
    BY <1>1, <1>2 DEF LockOK, WaitingRight
  <2>2. Ordered(queue'[LockQ(k)], wanted')
    <3> DEFINE s == queue[LockQ(k)]
    <3>1. \A i \in 1 .. Len(s) : s[i] \in Pcbs /\ In(LockQ(k), s[i])
      BY <1>1, ElementOfSeq DEF In, Contains
    <3>2. \A i \in 1 .. Len(s) : wanted'[s[i]] = wanted[s[i]]
      BY <3>1
    <3>3. Ordered(s, wanted)
      BY <1>1 DEF LockOK, WaitingRight
    <3> HIDE DEF s
    <3>4. Ordered(s, wanted')
      BY <3>2, <3>3 DEF Ordered
    <3> QED BY <3>4 DEF s
  <2> QED BY <2>1, <2>2 DEF WaitingRight
<1>6. Marked(k)'
  BY <1>1, <1>3 DEF LockOK, Marked
<1> QED BY <1>4, <1>5, <1>6 DEF LockOK

(* Steps that change no queue.                                             *)
LEMMA StepInPlace ==
  ASSUME LockInv, CallsType', NEW m \in {"user", "release"}, CoreKept(m), mode \in Busy
  PROVE  CallsSound' /\ UNCHANGED <<queue, current>> /\ mode' = m
<1>1. m \in Busy /\ CallsSound
  BY DEF LockInv, Busy
<1> QED BY <1>1, CoreKeptSound DEF CoreKept

(* A call that returns at once.                                            *)
LEMMA CallInPlace ==
  ASSUME LockInv, User, CoreKept(mode), NEW v \in Statuses, Ret(v)
  PROVE  CallsSound' /\ UNCHANGED <<queue, current>> /\ mode' = mode
<1>1. mode \in {"user", "release"} /\ mode \in Busy /\ CallsType'
  BY RetTyped DEF User, Busy, LockInv, CallsSound
<1> QED BY <1>1, StepInPlace

(* No lock is being flushed while a process runs, and the process waits    *)
(* for none.                                                               *)
LEMMA UserFacts ==
  ASSUME LockInv, User
  PROVE  /\ flushing = 0 /\ \A l \in LockIds : l # flushing
         /\ current \in Pcbs /\ \A l \in LockIds : ~In(LockQ(l), current)
         /\ mode \in Busy /\ mode # "release"
<1>1. flushing = 0 /\ \A l \in LockIds : l # flushing
  BY LockQFacts DEF LockInv, User
<1>2. current \in Pcbs /\ \A l \in LockIds : ~In(LockQ(l), current)
  BY LockQFacts DEF LockInv, CallsSound, TypeOK, Placement, CurrentPlaced, User
<1> QED BY <1>1, <1>2 DEF User, Busy

(* readerCount without the caller.                                         *)
LEMMA ReadersLeftFacts ==
  ASSUME LockInv, NEW l \in LockIds, NEW m \in LockModes, current \in Pcbs,
         holds[l][current] = m
  PROVE  /\ Cardinality(Holders(l, "LOCK_READ") \ {current}) = ReadersLeft(l, m)
         /\ ReadersLeft(l, m) \in Nat
<1> DEFINE H == Holders(l, "LOCK_READ")
<1>1. H \subseteq Pcbs /\ readerCount[l] = Cardinality(H) /\ readerCount[l] \in Nat
  BY DEF Holders, LockInv, LockTyped, LockOK, Counted
<1>2. current \in H <=> m = "LOCK_READ"
  BY DEF Holders
<1> HIDE DEF H
<1>3. Cardinality(H \ {current}) = ReadersLeft(l, m)
  <2>1. CASE m = "LOCK_READ"
    <3>1. Cardinality(H \ {current}) = Cardinality(H) - 1
      BY <1>1, <1>2, <2>1, OneLess
    <3> QED BY <3>1, <2>1, <1>1 DEF ReadersLeft, WaitKey
  <2>2. CASE m # "LOCK_READ"
    <3>1. H \ {current} = H
      BY <1>2, <2>2
    <3>2. ReadersLeft(l, m) = readerCount[l] - 0
      BY <2>2 DEF ReadersLeft, WaitKey
    <3> QED BY <3>1, <3>2, <1>1
  <2> QED BY <2>1, <2>2
<1>4. Cardinality(H \ {current}) \in Nat
  <2>1. H \ {current} \subseteq Pcbs
    BY <1>1
  <2> QED BY <2>1, PcbSetsFinite
<1> QED BY <1>3, <1>4 DEF H

(* The head of a wait queue leaves it.                                     *)
LEMMA HeadLeaves ==
  ASSUME LockInv, NEW l \in LockIds, SchedHead(LockQ(l)), mode \in Busy, mode' \in Busy,
         CallsType', NEW p, p = Head(queue[LockQ(l)]),
         wanted' = [wanted EXCEPT ![p] = "none"]
  PROVE  /\ CallsSound'
         /\ p \in Pcbs /\ p # current /\ holds[l][p] = "none" /\ wanted[p] \in LockModes
         /\ In(LockQ(l), p) /\ queue[LockQ(l)] # <<>>
         /\ \A k \in LockIds \ {l} :
              /\ queue'[LockQ(k)] = queue[LockQ(k)]
              /\ \A x \in Pcbs : In(LockQ(k), x) => wanted'[x] = wanted[x]
         /\ \A x \in Pcbs : In(LockQ(l), x)' <=> In(LockQ(l), x) /\ x # p
         /\ \A x \in Pcbs : x # p => wanted'[x] = wanted[x]
         /\ Ordered(queue[LockQ(l)], wanted)'
         /\ Waiters(l, "LOCK_WRITE")' = Waiters(l, "LOCK_WRITE") \ {p}
         /\ wanted[p] = "LOCK_READ" => Waiters(l, "LOCK_WRITE") = {}
<1>1. PICK q \in QueueIds \ CoreQs : q = LockQ(l)
  BY LockQFacts
<1>2. /\ CallsSound' /\ queue'[q] = Tail(queue[q]) /\ queue[q] # <<>>
      /\ \A r \in QueueIds \ ({q} \cup ReadyQs) : queue'[r] = queue[r]
  BY <1>1, SchedHeadSound DEF LockInv
<1>3. \A k \in LockIds \ {l} : queue'[LockQ(k)] = queue[LockQ(k)]
  <2>1. \A k \in LockIds \ {l} : LockQ(k) \in QueueIds \ ({q} \cup ReadyQs)
    BY <1>1, LockQFacts
  <2> QED BY <2>1, <1>2
<1>4. queue[q] \in Seq(Pcbs) /\ IsInjective(queue[q]) /\ current \in Pcbs
  BY DEF LockInv, CallsSound, TypeOK, Placement, AtMostOnePlace
<1>5. /\ p \in Pcbs /\ In(q, p)
      /\ \A x : Contains(Tail(queue[q]), x) <=> Contains(queue[q], x) /\ x # p
  <2> DEFINE s == queue[q]
  <2>1. s \in Seq(Pcbs) /\ s # <<>> /\ IsInjective(s) /\ p = Head(s)
    BY <1>1, <1>2, <1>4
  <2> HIDE DEF s
  <2>2. /\ p \in Pcbs /\ Contains(s, p)
        /\ \A x : Contains(Tail(s), x) <=> Contains(s, x) /\ x # p
    BY <2>1, TailFacts
  <2> QED BY <2>2 DEF s, In
<1>6. p # current /\ \A k \in LockIds \ {l} : ~In(LockQ(k), p)
  <2>1. p # current
    BY <1>5 DEF LockInv, CallsSound, Placement, CurrentPlaced, Busy
  <2>2. \A k \in LockIds \ {l} : LockQ(k) \in QueueIds /\ LockQ(k) # q
    BY <1>1, LockQFacts
  <2>3. \A k \in LockIds \ {l} : ~In(LockQ(k), p)
    BY <2>2, <1>5 DEF LockInv, CallsSound, Placement, AtMostOnePlace
  <2> QED BY <2>1, <2>3
<1>7. wanted \in [Pcbs -> LockModes \cup {"none"}]
  BY DEF LockInv, LockTyped
<1>8. \A x \in Pcbs : x # p => wanted'[x] = wanted[x]
  BY <1>7
<1>9. holds[l][p] = "none" /\ wanted[p] \in LockModes /\ Ordered(queue[q], wanted)
  BY <1>1, <1>5 DEF LockInv, LockOK, WaitingRight
<1>10. \A x \in Pcbs : In(q, x)' <=> In(q, x) /\ x # p
  BY <1>2, <1>5 DEF In
<1>11. /\ Ordered(queue'[q], wanted')
       /\ wanted[p] = "LOCK_READ" => \A x : Contains(queue[q], x) => wanted[x] = "LOCK_READ"
  <2> DEFINE s == queue[q]
  <2>1. s \in Seq(Pcbs) /\ s # <<>> /\ IsInjective(s) /\ p = Head(s) /\ Ordered(s, wanted)
    BY <1>1, <1>2, <1>4, <1>9
  <2>2. queue'[q] = Tail(s)
    BY <1>2
  <2> HIDE DEF s
  <2>3. /\ Ordered(Tail(s), wanted')
        /\ wanted[p] = "LOCK_READ" => \A x : Contains(s, x) => wanted[x] = "LOCK_READ"
    BY <2>1, <1>7, <1>8, OrderedTail
  <2> QED BY <2>2, <2>3 DEF s
<1>12. Waiters(l, "LOCK_WRITE")' = Waiters(l, "LOCK_WRITE") \ {p}
  BY <1>1, <1>8, <1>10 DEF Waiters
<1>13. wanted[p] = "LOCK_READ" => Waiters(l, "LOCK_WRITE") = {}
  BY <1>1, <1>11 DEF Waiters, In
<1> QED BY <1>1, <1>2, <1>3, <1>5, <1>6, <1>8, <1>9, <1>10, <1>11, <1>12, <1>13

-----------------------------------------------------------------------------
(* The invariant and ReadersYield, one operation at a time.                *)

LEMMA LockInitInv == LockInit => LockInv
<1> SUFFICES ASSUME LockInit PROVE LockInv
  OBVIOUS
<1>1. CallsSound
  BY InitCallsSound DEF LockInit
<1>2. LockTyped /\ flushing = 0
  BY LockAssumptions DEF LockInit, LockTyped, LockAssumption
<1>3. \A l \in LockIds : queue[LockQ(l)] = <<>>
  <2>1. \A l \in LockIds : /\ LockQ(l) \in QueueIds
                           /\ LockQ(l) # FreeQ /\ LockQ(l) # ReadyQ(PRIO_HIGH)
    BY LockQFacts, ConstantFacts DEF CoreQs, ReadyQs
  <2> QED BY <2>1 DEF LockInit, Init
<1>4. ASSUME NEW l \in LockIds PROVE LockOK(l)
  <2>1. \A p \in Pcbs : ~In(LockQ(l), p) /\ holds[l][p] = "none"
    BY <1>3 DEF In, Contains, LockInit
  <2>2. Holders(l, "LOCK_READ") = {} /\ Waiters(l, "LOCK_WRITE") = {}
    BY <2>1 DEF Holders, Waiters
  <2>3. Counted(l)
    BY <2>2, FS_EmptySet DEF Counted, LockInit
  <2>4. WaitingRight(l)
    BY <1>3, <2>1 DEF WaitingRight, Ordered
  <2>5. Marked(l)
    BY <1>3, <2>2 DEF Marked, LockInit
  <2> QED BY <2>3, <2>4, <2>5 DEF LockOK
<1> QED BY <1>1, <1>2, <1>4 DEF LockInv

LEMMA CoreInv ==
  ASSUME LockInv, LockCore
  PROVE  LockInv' /\ YieldStep
<1>1. CallsSound' /\ Next /\ TypeOK /\ UNCHANGED lockVars
  BY CoreSound DEF LockInv, LockCore, Core, CallsSound
<1>2. flushing = 0
  BY <1>1, CoreOutsideLoops DEF LockInv
<1>3. \A l \in LockIds : queue'[LockQ(l)] = queue[LockQ(l)]
  BY <1>1, LockQFacts, CoreWaits
<1>4. \A l \in LockIds : LockOK(l)'
  BY <1>1, <1>3, OtherLock DEF lockVars
<1>5. LockTyped'
  BY <1>1 DEF LockInv, LockTyped, lockVars
<1>6. YieldStep
  BY <1>1 DEF YieldStep, lockVars
<1> QED BY <1>1, <1>2, <1>4, <1>5, <1>6 DEF LockInv, lockVars

(* Calls that change no lock.                                              *)
LEMMA NoLockChange ==
  ASSUME LockInv, UNCHANGED <<readerCount, writerWaitingCount, hasWriter, wanted,
                              flushing, holds>>,
         CallsSound', UNCHANGED queue, UNCHANGED mode, lockCount' \in 0 .. MaxLocks
  PROVE  LockInv' /\ YieldStep
<1>1. \A l \in LockIds : LockOK(l)'
  BY OtherLock
<1>2. LockTyped' /\ YieldStep
  BY DEF LockInv, LockTyped, YieldStep
<1> QED BY <1>1, <1>2 DEF LockInv

LEMMA SimpleCallInv ==
  ASSUME LockInv, LockNew \/ \E l \in LockIds : UnknownLock(l) \/ LockDestroy(l)
  PROVE  LockInv' /\ YieldStep
<1>1. /\ User /\ CoreKept(mode) /\ \E v \in Statuses : Ret(v)
      /\ UNCHANGED <<readerCount, writerWaitingCount, hasWriter, wanted, flushing, holds>>
  BY DEF LockNew, UnknownLock, LockDestroy, Statuses, lockVars
<1>2. CallsSound' /\ UNCHANGED queue /\ UNCHANGED mode
  BY <1>1, CallInPlace
<1>3. lockCount' \in 0 .. MaxLocks
  BY LockAssumptions
  DEF LockAssumption, LockInv, LockTyped, LockNew, UnknownLock, LockDestroy, lockVars
<1> QED BY <1>1, <1>2, <1>3, NoLockChange

(* A lock that nobody may be waiting for: it is neither marked nor flushed. *)
LEMMA UnmarkedEmpty ==
  ASSUME LockInv, NEW l \in LockIds, l # flushing, ~hasWriter[l], ~(writerWaitingCount[l] > 0)
  PROVE  queue[LockQ(l)] = <<>>
BY DEF LockInv, LockOK, Marked

LEMMA EmptyQueueFacts ==
  ASSUME NEW l, queue[LockQ(l)] = <<>>
  PROVE  \A p : ~In(LockQ(l), p)
BY DEF In, Contains

LEMMA LockLockInv ==
  ASSUME LockInv, NEW l \in LockIds, NEW m \in LockModes, LockLock(l, m)
  PROVE  LockInv' /\ YieldStep
<1>1. /\ User /\ CoreKept(mode) /\ Ret("SUCCESS") /\ ~MustWait(l, m)
      /\ holds[l][current] = "none"
      /\ holds' = [holds EXCEPT ![l][current] = m]
      /\ UNCHANGED <<lockCount, writerWaitingCount, wanted, flushing>>
  BY DEF LockLock, MayLock
<1>2. /\ readerCount' = IF m = "LOCK_READ" THEN [readerCount EXCEPT ![l] = @ + 1]
                                           ELSE readerCount
      /\ hasWriter' = IF m = "LOCK_READ" THEN hasWriter
                                         ELSE [hasWriter EXCEPT ![l] = TRUE]
  BY DEF LockLock
<1>3. CallsSound' /\ UNCHANGED queue /\ UNCHANGED mode
  BY <1>1, CallInPlace DEF Statuses
<1>4. flushing = 0 /\ l # flushing /\ current \in Pcbs
  BY <1>1, UserFacts
<1>5. LockTyped /\ Counted(l) /\ Marked(l)
  BY DEF LockInv, LockOK
<1>6. queue[LockQ(l)] = <<>> /\ ~hasWriter[l]
  BY <1>1, <1>4, UnmarkedEmpty DEF MustWait
<1>7. \A p \in Pcbs : ~In(LockQ(l), p) /\ ~In(LockQ(l), p)'
  BY <1>3, <1>6, EmptyQueueFacts DEF In
<1>8. Waiters(l, "LOCK_WRITE") = {} /\ Waiters(l, "LOCK_WRITE")' = {}
  BY <1>7 DEF Waiters
<1>9. /\ \A k \in LockIds \ {l} : holds'[k] = holds[k]
      /\ \A x \in Pcbs : holds'[l][x] = IF x = current THEN m ELSE holds[l][x]
      /\ holds' \in [LockIds -> [Pcbs -> LockModes \cup {"none"}]]
  BY <1>1, <1>4, <1>5 DEF LockTyped
<1>10. /\ \A k \in LockIds \ {l} : readerCount'[k] = readerCount[k] /\ hasWriter'[k] = hasWriter[k]
       /\ readerCount' \in [LockIds -> Nat] /\ hasWriter' \in [LockIds -> BOOLEAN]
  BY <1>2, <1>5 DEF LockTyped
<1>11. Counted(l)'
  <2> DEFINE H == Holders(l, "LOCK_READ")
  <2> DEFINE G == Holders(l, "LOCK_READ")'
  <2>1. /\ H \subseteq Pcbs /\ current \notin H /\ readerCount[l] = Cardinality(H)
        /\ G = IF m = "LOCK_READ" THEN H \cup {current} ELSE H
    BY <1>1, <1>4, <1>5, <1>9 DEF Holders, Counted, LockModes
  <2> HIDE DEF H, G
  <2>2. readerCount'[l] = Cardinality(G)
    <3>1. CASE m = "LOCK_READ"
      <4>1. Cardinality(G) = Cardinality(H) + 1
        BY <2>1, <3>1, OneMore
      <4>2. readerCount'[l] = readerCount[l] + 1
        BY <1>2, <1>5, <3>1 DEF LockTyped
      <4> QED BY <2>1, <4>1, <4>2
    <3>2. CASE m # "LOCK_READ"
      BY <2>1, <3>2, <1>2
    <3> QED BY <3>1, <3>2
  <2> QED BY <2>2, <1>1, <1>5, <1>8 DEF G, Counted
<1>12. WaitingRight(l)'
  BY <1>3, <1>6, <1>7 DEF WaitingRight, Ordered
<1>13. Marked(l)'
  <2>1. hasWriter'[l] => holds'[l][current] = "LOCK_WRITE"
    BY <1>2, <1>4, <1>6, <1>9 DEF LockModes
  <2> QED BY <2>1, <1>1, <1>3, <1>4, <1>6, <1>8 DEF Marked
<1>14. \A k \in LockIds \ {l} : LockOK(k)'
  BY <1>1, <1>3, <1>9, <1>10, OtherLock
<1>15. LockTyped'
  BY <1>1, <1>5, <1>9, <1>10 DEF LockTyped
<1>16. YieldStep
  BY <1>8, <1>9 DEF YieldStep
<1> QED BY <1>1, <1>3, <1>4, <1>11, <1>12, <1>13, <1>14, <1>15, <1>16 DEF LockInv, LockOK

LEMMA LockWaitInv ==
  ASSUME LockInv, NEW l \in LockIds, NEW m \in LockModes, LockWait(l, m)
  PROVE  LockInv' /\ YieldStep
<1> DEFINE s == queue[LockQ(l)]
<1>1. /\ User /\ MustWait(l, m) /\ holds[l][current] = "none"
      /\ wanted' = [wanted EXCEPT ![current] = m]
      /\ writerWaitingCount' = [writerWaitingCount EXCEPT ![l] = @ + (1 - WaitKey(m))]
      /\ UNCHANGED <<lockCount, readerCount, hasWriter, flushing, holds>>
  BY DEF LockWait, MayLock
<1>2. PICK n \in 0 .. Len(s) : Behind(s, n, m, wanted) /\ BlockAt(LockQ(l), n)
  BY DEF LockWait, BehindEqual, Behind
<1>3. PICK q \in QueueIds \ CoreQs : q = LockQ(l)
  BY LockQFacts
<1>4. /\ CallsSound' /\ UNCHANGED current
      /\ \A r \in QueueIds \ {q} : queue'[r] = queue[r]
      /\ \A p \in Pcbs : In(q, p)' <=> In(q, p) \/ p = current
      /\ In(q, current)'
  BY <1>1, <1>2, <1>3, BlockAtSound DEF LockInv
<1>5. /\ flushing = 0 /\ l # flushing /\ current \in Pcbs
      /\ \A k \in LockIds : ~In(LockQ(k), current)
  BY <1>1, UserFacts
<1>6. LockTyped /\ Counted(l) /\ WaitingRight(l) /\ Marked(l)
  BY DEF LockInv, LockOK
<1>7. \A x \in Pcbs : wanted'[x] = IF x = current THEN m ELSE wanted[x]
  BY <1>1, <1>5, <1>6 DEF LockTyped
<1>8. \A k \in LockIds \ {l} :
        /\ queue'[LockQ(k)] = queue[LockQ(k)]
        /\ \A x \in Pcbs : In(LockQ(k), x) => wanted'[x] = wanted[x]
  <2>1. \A k \in LockIds \ {l} : LockQ(k) \in QueueIds \ {q}
    BY <1>3, LockQFacts
  <2> QED BY <2>1, <1>4, <1>5, <1>7
<1>9. /\ writerWaitingCount' \in [LockIds -> Nat]
      /\ \A k \in LockIds \ {l} : writerWaitingCount'[k] = writerWaitingCount[k]
      /\ writerWaitingCount'[l] = IF m = "LOCK_READ" THEN writerWaitingCount[l]
                                                     ELSE writerWaitingCount[l] + 1
  BY <1>1, <1>6 DEF LockTyped, WaitKey
<1>10. Counted(l)'
  <2> DEFINE W == Waiters(l, "LOCK_WRITE")
  <2> DEFINE V == Waiters(l, "LOCK_WRITE")'
  <2>1. /\ W \subseteq Pcbs /\ current \notin W /\ writerWaitingCount[l] = Cardinality(W)
        /\ V = IF m = "LOCK_WRITE" THEN W \cup {current} ELSE W
    BY <1>3, <1>4, <1>5, <1>6, <1>7 DEF Waiters, Counted
  <2> HIDE DEF W, V
  <2>2. writerWaitingCount'[l] = Cardinality(V)
    <3>1. CASE m = "LOCK_WRITE"
      <4>1. Cardinality(V) = Cardinality(W) + 1
        BY <2>1, <3>1, OneMore
      <4> QED BY <2>1, <3>1, <4>1, <1>9
    <3>2. CASE m # "LOCK_WRITE"
      BY <2>1, <3>2, <1>9 DEF LockModes
    <3> QED BY <3>1, <3>2
  <2>3. Holders(l, "LOCK_READ")' = Holders(l, "LOCK_READ")
    BY <1>1 DEF Holders
  <2> QED BY <2>2, <2>3, <1>1, <1>6 DEF V, Counted
<1>11. WaitingRight(l)'
  <2>1. \A p \in Pcbs : In(q, p)' => wanted'[p] \in LockModes /\ holds'[l][p] = "none"
    BY <1>1, <1>3, <1>4, <1>6, <1>7 DEF WaitingRight
  <2>2. Ordered(queue'[q], wanted')
    <3>1. /\ s \in Seq(Pcbs) /\ ~Contains(s, current) /\ Ordered(s, wanted)
          /\ wanted \in [Pcbs -> LockModes \cup {"none"}]
      BY <1>3, <1>5, <1>6 DEF LockInv, CallsSound, TypeOK, WaitingRight, In, LockTyped
    <3>2. queue'[q] = InsertAt(s, n + 1, current)
      BY <1>2, <1>3 DEF BlockAt, LockInv, CallsSound, TypeOK
    <3> HIDE DEF s
    <3> QED BY <3>1, <3>2, <1>1, <1>2, <1>5, OrderedInsert
  <2> QED BY <2>1, <2>2, <1>3 DEF WaitingRight
<1>12. \E p \in Pcbs : holds[l][p] # "none"
  <2>1. CASE hasWriter[l]
    BY <2>1, <1>6 DEF Marked
  <2>2. CASE writerWaitingCount[l] > 0
    <3>1. PICK W : W = Waiters(l, "LOCK_WRITE") /\ Cardinality(W) > 0
      BY <2>2, <1>6 DEF Counted
    <3>2. W # {}
      BY <3>1, CountedThere
    <3>3. queue[LockQ(l)] # <<>>
      BY <3>1, <3>2, EmptyQueueFacts DEF Waiters
    <3> QED BY <3>3, <1>5, <1>6 DEF Marked
  <2>3. CASE readerCount[l] > 0
    <3>1. PICK H : H = Holders(l, "LOCK_READ") /\ Cardinality(H) > 0
      BY <2>3, <1>6 DEF Counted
    <3>2. H # {}
      BY <3>1, CountedThere
    <3> QED BY <3>1, <3>2 DEF Holders
  <2> QED BY <2>1, <2>2, <2>3, <1>1 DEF MustWait
<1>13. Marked(l)'
  <2>1. hasWriter'[l] => \E p \in Pcbs : holds'[l][p] = "LOCK_WRITE"
    BY <1>1, <1>6 DEF Marked
  <2>2. hasWriter'[l] \/ writerWaitingCount'[l] > 0
    <3>1. writerWaitingCount[l] \in Nat
      BY <1>6 DEF LockTyped
    <3> QED BY <3>1, <1>1, <1>9 DEF MustWait, LockModes
  <2> QED BY <2>1, <2>2, <1>1, <1>5, <1>12 DEF Marked
<1>14. \A k \in LockIds \ {l} : LockOK(k)'
  BY <1>1, <1>8, <1>9, OtherLock
<1>15. LockTyped'
  BY <1>1, <1>5, <1>6, <1>9 DEF LockTyped
<1>16. YieldStep
  BY <1>1 DEF YieldStep
<1> QED BY <1>1, <1>4, <1>5, <1>10, <1>11, <1>13, <1>14, <1>15, <1>16 DEF LockInv, LockOK

(* The caller gives the lock up and hands it to nobody.                    *)
LEMMA GiveUpFacts ==
  ASSUME LockInv, NEW l \in LockIds, NEW m \in LockModes, MayUnlock(l, m),
         readerCount' = [readerCount EXCEPT ![l] = ReadersLeft(l, m)],
         holds' = [holds EXCEPT ![l][current] = "none"]
  PROVE  /\ readerCount' \in [LockIds -> Nat]
         /\ holds' \in [LockIds -> [Pcbs -> LockModes \cup {"none"}]]
         /\ readerCount'[l] = Cardinality(Holders(l, "LOCK_READ")')
         /\ \A x \in Pcbs : holds'[l][x] = IF x = current THEN "none" ELSE holds[l][x]
         /\ \A k \in LockIds \ {l} : holds'[k] = holds[k] /\ readerCount'[k] = readerCount[k]
         /\ YieldStep
<1>1. User /\ holds[l][current] = m /\ LockTyped
  BY DEF MayUnlock, LockInv
<1>2. current \in Pcbs
  BY <1>1, UserFacts
<1>3. /\ Cardinality(Holders(l, "LOCK_READ") \ {current}) = ReadersLeft(l, m)
      /\ ReadersLeft(l, m) \in Nat
  BY <1>1, <1>2, ReadersLeftFacts
<1>4. /\ \A x \in Pcbs : holds'[l][x] = IF x = current THEN "none" ELSE holds[l][x]
      /\ \A k \in LockIds \ {l} : holds'[k] = holds[k]
      /\ holds' \in [LockIds -> [Pcbs -> LockModes \cup {"none"}]]
  BY <1>1, <1>2 DEF LockTyped
<1>5. /\ readerCount' \in [LockIds -> Nat] /\ readerCount'[l] = ReadersLeft(l, m)
      /\ \A k \in LockIds \ {l} : readerCount'[k] = readerCount[k]
  BY <1>1, <1>3 DEF LockTyped
<1>6. Holders(l, "LOCK_READ")' = Holders(l, "LOCK_READ") \ {current}
  BY <1>2, <1>4 DEF Holders
<1>7. YieldStep
  BY <1>4 DEF YieldStep
<1> QED BY <1>3, <1>4, <1>5, <1>6, <1>7

LEMMA UnlockAloneInv ==
  ASSUME LockInv, NEW l \in LockIds, NEW m \in LockModes,
         UnlockQuiet(l, m) \/ UnlockEmpty(l, m)
  PROVE  LockInv' /\ YieldStep
<1>1. /\ MayUnlock(l, m) /\ User /\ CoreKept(mode) /\ \E v \in Statuses : Ret(v)
      /\ holds[l][current] = m
      /\ readerCount' = [readerCount EXCEPT ![l] = ReadersLeft(l, m)]
      /\ holds' = [holds EXCEPT ![l][current] = "none"]
      /\ UNCHANGED <<lockCount, writerWaitingCount, wanted, flushing>>
  BY DEF UnlockQuiet, UnlockEmpty, MayUnlock, Statuses
<1>2. CallsSound' /\ UNCHANGED queue /\ UNCHANGED mode
  BY <1>1, CallInPlace
<1>3. flushing = 0 /\ l # flushing /\ current \in Pcbs
  BY <1>1, UserFacts
<1>4. /\ readerCount' \in [LockIds -> Nat]
      /\ holds' \in [LockIds -> [Pcbs -> LockModes \cup {"none"}]]
      /\ readerCount'[l] = Cardinality(Holders(l, "LOCK_READ")')
      /\ \A x \in Pcbs : holds'[l][x] = IF x = current THEN "none" ELSE holds[l][x]
      /\ \A k \in LockIds \ {l} : holds'[k] = holds[k] /\ readerCount'[k] = readerCount[k]
      /\ YieldStep
  BY <1>1, GiveUpFacts
<1>5. LockTyped /\ Counted(l) /\ Marked(l)
  BY DEF LockInv, LockOK
<1>6. queue[LockQ(l)] = <<>>
  <2>1. CASE UnlockQuiet(l, m)
    <3>1. ~hasWriter[l] /\ ~(writerWaitingCount[l] > 0)
      BY <2>1 DEF UnlockQuiet
    <3> QED BY <3>1, <1>3, UnmarkedEmpty
  <2>2. CASE UnlockEmpty(l, m)
    BY <2>2 DEF UnlockEmpty
  <2> QED BY <2>1, <2>2
<1>7. \A p \in Pcbs : ~In(LockQ(l), p) /\ ~In(LockQ(l), p)'
  BY <1>2, <1>6, EmptyQueueFacts DEF In
<1>8. Waiters(l, "LOCK_WRITE") = {} /\ Waiters(l, "LOCK_WRITE")' = {}
  BY <1>7 DEF Waiters
<1>9. /\ hasWriter' \in [LockIds -> BOOLEAN]
      /\ \A k \in LockIds \ {l} : hasWriter'[k] = hasWriter[k]
      /\ hasWriter'[l] => hasWriter[l] /\ m # "LOCK_WRITE"
  <2>1. CASE UnlockQuiet(l, m)
    BY <2>1, <1>5 DEF UnlockQuiet, LockTyped
  <2>2. CASE UnlockEmpty(l, m)
    BY <2>2, <1>5 DEF UnlockEmpty, LockTyped
  <2> QED BY <2>1, <2>2
<1>10. Counted(l)'
  BY <1>1, <1>4, <1>5, <1>8 DEF Counted
<1>11. WaitingRight(l)'
  BY <1>2, <1>6, <1>7 DEF WaitingRight, Ordered
<1>12. Marked(l)'
  <2>1. hasWriter'[l] => \E p \in Pcbs : holds'[l][p] = "LOCK_WRITE"
    <3> SUFFICES ASSUME hasWriter'[l] PROVE \E p \in Pcbs : holds'[l][p] = "LOCK_WRITE"
      OBVIOUS
    <3>1. PICK p \in Pcbs : holds[l][p] = "LOCK_WRITE"
      BY <1>5, <1>9 DEF Marked
    <3>2. p # current
      BY <3>1, <1>1, <1>9
    <3> QED BY <3>1, <3>2, <1>4
  <2> QED BY <2>1, <1>1, <1>2, <1>3, <1>6, <1>8 DEF Marked
<1>13. \A k \in LockIds \ {l} : LockOK(k)'
  BY <1>1, <1>2, <1>4, <1>9, OtherLock
<1>14. LockTyped'
  BY <1>1, <1>4, <1>5, <1>9 DEF LockTyped
<1> QED BY <1>1, <1>2, <1>3, <1>4, <1>10, <1>11, <1>12, <1>13, <1>14 DEF LockInv, LockOK

(* The caller gives the lock up and hands it to the head of its queue.     *)
LEMMA HandoverFacts ==
  ASSUME LockInv, NEW l \in LockIds, NEW m \in LockModes, MayUnlock(l, m),
         NEW p \in Pcbs, p # current, holds[l][p] = "none", wanted[p] \in LockModes,
         Handover(l, m, p)
  PROVE  /\ holds' \in [LockIds -> [Pcbs -> LockModes \cup {"none"}]]
         /\ wanted' \in [Pcbs -> LockModes \cup {"none"}]
         /\ \A x \in Pcbs : holds'[l][x] = IF x = p THEN wanted[p]
                                           ELSE IF x = current THEN "none" ELSE holds[l][x]
         /\ \A k \in LockIds \ {l} : holds'[k] = holds[k]
         /\ ReadersLeft(l, m) \in Nat
         /\ Cardinality(Holders(l, "LOCK_READ")') =
              ReadersLeft(l, m) + (IF wanted[p] = "LOCK_READ" THEN 1 ELSE 0)
<1>1. User /\ holds[l][current] = m /\ LockTyped
  BY DEF MayUnlock, LockInv
<1>2. current \in Pcbs
  BY <1>1, UserFacts
<1>3. /\ Cardinality(Holders(l, "LOCK_READ") \ {current}) = ReadersLeft(l, m)
      /\ ReadersLeft(l, m) \in Nat
  BY <1>1, <1>2, ReadersLeftFacts
<1>4. holds' = [holds EXCEPT ![l] = [holds[l] EXCEPT ![current] = "none", ![p] = wanted[p]]]
  BY <1>1, <1>2 DEF Handover, LockTyped
<1>5. /\ \A x \in Pcbs : holds'[l][x] = IF x = p THEN wanted[p]
                                        ELSE IF x = current THEN "none" ELSE holds[l][x]
      /\ \A k \in LockIds \ {l} : holds'[k] = holds[k]
      /\ holds' \in [LockIds -> [Pcbs -> LockModes \cup {"none"}]]
  BY <1>1, <1>2, <1>4 DEF LockTyped
<1>6. wanted' \in [Pcbs -> LockModes \cup {"none"}]
  BY <1>1 DEF Handover, LockTyped
<1>7. Cardinality(Holders(l, "LOCK_READ")') =
        ReadersLeft(l, m) + (IF wanted[p] = "LOCK_READ" THEN 1 ELSE 0)
  <2> DEFINE H == Holders(l, "LOCK_READ") \ {current}
  <2> DEFINE G == Holders(l, "LOCK_READ")'
  <2>1. /\ H \subseteq Pcbs /\ p \notin H /\ Cardinality(H) = ReadersLeft(l, m)
        /\ G = IF wanted[p] = "LOCK_READ" THEN H \cup {p} ELSE H
    BY <1>2, <1>3, <1>5 DEF Holders
  <2> HIDE DEF H, G
  <2>2. CASE wanted[p] = "LOCK_READ"
    <3>1. Cardinality(G) = Cardinality(H) + 1
      BY <2>1, <2>2, OneMore
    <3> QED BY <3>1, <2>1, <2>2 DEF G
  <2>3. CASE wanted[p] # "LOCK_READ"
    BY <2>1, <2>3, <1>3 DEF G
  <2> QED BY <2>2, <2>3
<1> QED BY <1>3, <1>5, <1>6, <1>7

LEMMA UnlockHandsOverInv ==
  ASSUME LockInv, NEW l \in LockIds, NEW m \in LockModes,
         UnlockToWriter(l, m) \/ UnlockToReaders(l, m)
  PROVE  LockInv' /\ YieldStep
<1>1. PICK p : p = Head(queue[LockQ(l)])
  OBVIOUS
<1>2. /\ MayUnlock(l, m) /\ User /\ holds[l][current] = m /\ SchedHead(LockQ(l))
      /\ Handover(l, m, p) /\ wanted' = [wanted EXCEPT ![p] = "none"]
      /\ UNCHANGED lockCount
  BY <1>1 DEF UnlockToWriter, UnlockToReaders, MayUnlock, Handover
<1>3. /\ \/ /\ wanted[p] = "LOCK_WRITE"
            /\ Ret("SUCCESS") /\ UNCHANGED <<mode, flushing>>
            /\ readerCount' = [readerCount EXCEPT ![l] = ReadersLeft(l, m)]
            /\ writerWaitingCount' = [writerWaitingCount EXCEPT ![l] = @ - 1]
            /\ hasWriter' = [hasWriter EXCEPT ![l] = TRUE]
         \/ /\ wanted[p] = "LOCK_READ"
            /\ NoRet /\ mode' = "release" /\ flushing' = l
            /\ readerCount' = [readerCount EXCEPT ![l] = ReadersLeft(l, m) + 1]
            /\ UNCHANGED writerWaitingCount
            /\ hasWriter' = [hasWriter EXCEPT ![l] = FALSE]
  BY <1>1 DEF UnlockToWriter, UnlockToReaders
<1>4. /\ flushing = 0 /\ \A k \in LockIds : k # flushing
      /\ current \in Pcbs /\ mode \in Busy /\ mode' \in Busy /\ CallsType'
  <2>1. mode' \in Busy
    BY <1>2, <1>3 DEF User, Busy
  <2>2. CallsType'
    BY <1>3, RetTyped DEF LockInv, CallsSound, Statuses
  <2> QED BY <2>1, <2>2, <1>2, UserFacts
<1>5. /\ CallsSound'
      /\ p \in Pcbs /\ p # current /\ holds[l][p] = "none" /\ wanted[p] \in LockModes
      /\ In(LockQ(l), p)
      /\ \A k \in LockIds \ {l} :
           /\ queue'[LockQ(k)] = queue[LockQ(k)]
           /\ \A x \in Pcbs : In(LockQ(k), x) => wanted'[x] = wanted[x]
      /\ \A x \in Pcbs : In(LockQ(l), x)' <=> In(LockQ(l), x) /\ x # p
      /\ \A x \in Pcbs : x # p => wanted'[x] = wanted[x]
      /\ Ordered(queue[LockQ(l)], wanted)'
      /\ Waiters(l, "LOCK_WRITE")' = Waiters(l, "LOCK_WRITE") \ {p}
      /\ wanted[p] = "LOCK_READ" => Waiters(l, "LOCK_WRITE") = {}
  BY <1>1, <1>2, <1>4, HeadLeaves
<1>6. /\ holds' \in [LockIds -> [Pcbs -> LockModes \cup {"none"}]]
      /\ wanted' \in [Pcbs -> LockModes \cup {"none"}]
      /\ \A x \in Pcbs : holds'[l][x] = IF x = p THEN wanted[p]
                                        ELSE IF x = current THEN "none" ELSE holds[l][x]
      /\ \A k \in LockIds \ {l} : holds'[k] = holds[k]
      /\ ReadersLeft(l, m) \in Nat
      /\ Cardinality(Holders(l, "LOCK_READ")') =
           ReadersLeft(l, m) + (IF wanted[p] = "LOCK_READ" THEN 1 ELSE 0)
  BY <1>2, <1>5, HandoverFacts
<1>7. LockTyped /\ Counted(l) /\ WaitingRight(l) /\ Marked(l)
  BY DEF LockInv, LockOK
<1>8. /\ readerCount' \in [LockIds -> Nat] /\ hasWriter' \in [LockIds -> BOOLEAN]
      /\ \A k \in LockIds \ {l} : readerCount'[k] = readerCount[k] /\ hasWriter'[k] = hasWriter[k]
      /\ readerCount'[l] = Cardinality(Holders(l, "LOCK_READ")')
  <2> DEFINE n == ReadersLeft(l, m) + (IF wanted[p] = "LOCK_READ" THEN 1 ELSE 0)
  <2>1. n \in Nat /\ n = Cardinality(Holders(l, "LOCK_READ")')
    BY <1>6
  <2>2. PICK b \in BOOLEAN : hasWriter' = [hasWriter EXCEPT ![l] = b]
    BY <1>3
  <2>3. readerCount' = [readerCount EXCEPT ![l] = n]
    <3>1. CASE wanted[p] = "LOCK_WRITE"
      <4>1. n = ReadersLeft(l, m)
        BY <3>1, <1>6
      <4>2. readerCount' = [readerCount EXCEPT ![l] = ReadersLeft(l, m)]
        BY <3>1, <1>3
      <4> QED BY <4>1, <4>2
    <3>2. CASE wanted[p] = "LOCK_READ"
      <4>1. n = ReadersLeft(l, m) + 1
        BY <3>2
      <4>2. readerCount' = [readerCount EXCEPT ![l] = ReadersLeft(l, m) + 1]
        BY <3>2, <1>3
      <4> QED BY <4>1, <4>2
    <3> QED BY <3>1, <3>2, <1>5 DEF LockModes
  <2> HIDE DEF n
  <2>4. readerCount \in [LockIds -> Nat] /\ hasWriter \in [LockIds -> BOOLEAN]
    BY <1>7 DEF LockTyped
  <2> QED BY <2>1, <2>2, <2>3, <2>4
<1>9. /\ writerWaitingCount' \in [LockIds -> Nat]
      /\ \A k \in LockIds \ {l} : writerWaitingCount'[k] = writerWaitingCount[k]
      /\ writerWaitingCount'[l] = Cardinality(Waiters(l, "LOCK_WRITE")')
  <2> DEFINE W == Waiters(l, "LOCK_WRITE")
  <2> DEFINE V == Waiters(l, "LOCK_WRITE")'
  <2>1. /\ W \subseteq Pcbs /\ V = W \ {p} /\ writerWaitingCount[l] = Cardinality(W)
        /\ p \in W <=> wanted[p] = "LOCK_WRITE"
    BY <1>5, <1>7 DEF Waiters, Counted
  <2> HIDE DEF W, V
  <2>2. CASE wanted[p] = "LOCK_WRITE"
    <3>1. Cardinality(V) = Cardinality(W) - 1
      BY <2>1, <2>2, OneLess
    <3>2. V \subseteq Pcbs
      BY <2>1
    <3>3. Cardinality(V) \in Nat
      BY <3>2, PcbSetsFinite
    <3>4. writerWaitingCount' = [writerWaitingCount EXCEPT ![l] = @ - 1]
      BY <2>2, <1>3
    <3>5. writerWaitingCount[l] - 1 = Cardinality(V)
      BY <2>1, <3>1
    <3> QED BY <3>3, <3>4, <3>5, <1>7 DEF V, LockTyped
  <2>3. CASE wanted[p] = "LOCK_READ"
    <3>1. V = W /\ UNCHANGED writerWaitingCount
      BY <2>1, <2>3, <1>3
    <3> QED BY <3>1, <2>1, <1>7 DEF V, LockTyped
  <2> QED BY <2>2, <2>3, <1>5 DEF LockModes
<1>10. Counted(l)'
  BY <1>8, <1>9 DEF Counted
<1>11. WaitingRight(l)'
  <2>1. \A x \in Pcbs : In(LockQ(l), x)' => wanted'[x] \in LockModes /\ holds'[l][x] = "none"
    BY <1>5, <1>6, <1>7 DEF WaitingRight
  <2> QED BY <2>1, <1>5 DEF WaitingRight
<1>12. Marked(l)'
  <2>1. CASE wanted[p] = "LOCK_WRITE"
    <3>1. hasWriter' = [hasWriter EXCEPT ![l] = TRUE] /\ UNCHANGED flushing
      BY <2>1, <1>3
    <3>2. hasWriter'[l] = TRUE
      BY <3>1, <1>7 DEF LockTyped
    <3>3. holds'[l][p] = "LOCK_WRITE"
      BY <2>1, <1>5, <1>6
    <3>4. l # flushing'
      BY <3>1, <1>4
    <3> QED BY <3>2, <3>3, <3>4, <1>5 DEF Marked, LockModes
  <2>2. CASE wanted[p] = "LOCK_READ"
    <3>1. ~hasWriter'[l] /\ l = flushing' /\ Waiters(l, "LOCK_WRITE")' = {}
      BY <2>2, <1>3, <1>5, <1>7 DEF LockTyped
    <3> QED BY <3>1 DEF Marked
  <2> QED BY <2>1, <2>2, <1>5 DEF LockModes
<1>13. \A k \in LockIds \ {l} : LockOK(k)'
  <2>1. \A k \in LockIds \ {l} : (k = flushing') <=> (k = flushing)
    BY <1>3, <1>4
  <2> QED BY <2>1, <1>5, <1>6, <1>8, <1>9, OtherLock
<1>14. LockTyped' /\ (flushing' # 0 => mode' = "release")
  BY <1>2, <1>3, <1>4, <1>6, <1>7, <1>8, <1>9 DEF LockTyped
<1>15. YieldStep
  BY <1>5, <1>6 DEF YieldStep
<1> QED BY <1>5, <1>10, <1>11, <1>12, <1>13, <1>14, <1>15 DEF LockInv, LockOK

LEMMA FlushReaderInv ==
  ASSUME LockInv, FlushReader
  PROVE  LockInv' /\ YieldStep
<1>1. PICK l : l = flushing
  OBVIOUS
<1>2. l \in LockIds /\ mode = "release" /\ LockTyped
  BY <1>1 DEF FlushReader, LockInv, LockTyped
<1>3. PICK p : p = Head(queue[LockQ(l)])
  OBVIOUS
<1>4. /\ SchedHead(LockQ(l)) /\ mode' = mode /\ NoRet
      /\ wanted' = [wanted EXCEPT ![p] = "none"]
      /\ holds' = [holds EXCEPT ![l][p] = wanted[p]]
      /\ readerCount' = [readerCount EXCEPT ![l] = @ + 1]
      /\ UNCHANGED <<lockCount, writerWaitingCount, hasWriter, flushing>>
  BY <1>1, <1>3 DEF FlushReader, ReleaseHead
<1>5. mode \in Busy /\ mode' \in Busy /\ CallsType'
  BY <1>2, <1>4, RetTyped DEF Busy, LockInv, CallsSound
<1>6. /\ CallsSound'
      /\ p \in Pcbs /\ holds[l][p] = "none" /\ wanted[p] \in LockModes
      /\ In(LockQ(l), p)
      /\ \A k \in LockIds \ {l} :
           /\ queue'[LockQ(k)] = queue[LockQ(k)]
           /\ \A x \in Pcbs : In(LockQ(k), x) => wanted'[x] = wanted[x]
      /\ \A x \in Pcbs : In(LockQ(l), x)' <=> In(LockQ(l), x) /\ x # p
      /\ \A x \in Pcbs : x # p => wanted'[x] = wanted[x]
      /\ Ordered(queue[LockQ(l)], wanted)'
      /\ Waiters(l, "LOCK_WRITE")' = Waiters(l, "LOCK_WRITE") \ {p}
  BY <1>2, <1>3, <1>4, <1>5, HeadLeaves
<1>7. Counted(l) /\ WaitingRight(l) /\ Marked(l)
  BY <1>2 DEF LockInv, LockOK
<1>8. Waiters(l, "LOCK_WRITE") = {} /\ Waiters(l, "LOCK_WRITE")' = {} /\ wanted[p] = "LOCK_READ"
  <2>1. Waiters(l, "LOCK_WRITE") = {}
    BY <1>1, <1>7 DEF Marked
  <2> QED BY <2>1, <1>6 DEF Waiters, LockModes
<1>9. /\ holds' \in [LockIds -> [Pcbs -> LockModes \cup {"none"}]]
      /\ \A x \in Pcbs : holds'[l][x] = IF x = p THEN "LOCK_READ" ELSE holds[l][x]
      /\ \A k \in LockIds \ {l} : holds'[k] = holds[k]
  BY <1>2, <1>4, <1>6, <1>8 DEF LockTyped, LockModes
<1>10. /\ readerCount' \in [LockIds -> Nat]
       /\ readerCount'[l] = readerCount[l] + 1
       /\ \A k \in LockIds \ {l} : readerCount'[k] = readerCount[k]
       /\ wanted' \in [Pcbs -> LockModes \cup {"none"}]
  <2>1. readerCount \in [LockIds -> Nat] /\ wanted \in [Pcbs -> LockModes \cup {"none"}]
    BY <1>2 DEF LockTyped
  <2>2. wanted' \in [Pcbs -> LockModes \cup {"none"}]
    BY <2>1, <1>4
  <2>3. readerCount' = [readerCount EXCEPT ![l] = readerCount[l] + 1]
    BY <1>4
  <2>4. readerCount[l] + 1 \in Nat
    BY <2>1, <1>2
  <2> QED BY <2>1, <2>2, <2>3, <2>4, <1>2
<1>11. Counted(l)'
  <2> DEFINE H == Holders(l, "LOCK_READ")
  <2> DEFINE G == Holders(l, "LOCK_READ")'
  <2>1. H \subseteq Pcbs /\ p \notin H /\ readerCount[l] = Cardinality(H) /\ G = H \cup {p}
    BY <1>6, <1>7, <1>9 DEF Holders, Counted
  <2> HIDE DEF H, G
  <2>2. Cardinality(G) = Cardinality(H) + 1
    BY <2>1, OneMore
  <2> QED BY <2>1, <2>2, <1>4, <1>7, <1>8, <1>10 DEF G, Counted
<1>12. WaitingRight(l)'
  <2>1. \A x \in Pcbs : In(LockQ(l), x)' => wanted'[x] \in LockModes /\ holds'[l][x] = "none"
    BY <1>6, <1>7, <1>9 DEF WaitingRight
  <2> QED BY <2>1, <1>6 DEF WaitingRight
<1>13. Marked(l)'
  <2>1. hasWriter'[l] => \E x \in Pcbs : holds'[l][x] = "LOCK_WRITE"
    <3>1. \A x \in Pcbs : holds[l][x] = "LOCK_WRITE" => x # p
      BY <1>6
    <3> QED BY <3>1, <1>4, <1>7, <1>9 DEF Marked
  <2> QED BY <2>1, <1>1, <1>4, <1>8 DEF Marked
<1>14. \A k \in LockIds \ {l} : LockOK(k)'
  BY <1>4, <1>6, <1>9, <1>10, OtherLock
<1>15. LockTyped' /\ (flushing' # 0 => mode' = "release")
  BY <1>2, <1>4, <1>9, <1>10 DEF LockTyped
<1>16. YieldStep
  BY <1>2, <1>8, <1>9 DEF YieldStep
<1> QED BY <1>6, <1>11, <1>12, <1>13, <1>14, <1>15, <1>16 DEF LockInv, LockOK

LEMMA FlushDoneInv ==
  ASSUME LockInv, FlushDone
  PROVE  LockInv' /\ YieldStep
<1>1. PICK l : l = flushing
  OBVIOUS
<1>2. /\ l \in LockIds /\ l # 0 /\ mode = "release" /\ mode \in Busy /\ LockTyped
      /\ queue[LockQ(l)] = <<>>
      /\ flushing' = 0 /\ Ret("SUCCESS") /\ CoreKept("user")
      /\ UNCHANGED <<lockCount, readerCount, writerWaitingCount, hasWriter, wanted, holds>>
  BY <1>1 DEF FlushDone, FlushMore, LockInv, LockTyped, Busy
<1>3. CallsSound' /\ UNCHANGED queue
  <2>1. CallsType'
    BY <1>2, RetTyped DEF LockInv, CallsSound, Statuses
  <2> QED BY <1>2, <2>1, StepInPlace
<1>4. LockOK(l)'
  <2>1. Counted(l) /\ WaitingRight(l) /\ Marked(l)
    BY <1>2 DEF LockInv, LockOK
  <2>2. Counted(l)' /\ WaitingRight(l)'
    BY <2>1, <1>2, <1>3 DEF Counted, WaitingRight, Holders, Waiters, In
  <2>3. Marked(l)'
    BY <2>1, <1>2, <1>3 DEF Marked
  <2> QED BY <2>2, <2>3 DEF LockOK
<1>5. \A k \in LockIds \ {l} : LockOK(k)'
  <2>1. \A k \in LockIds \ {l} : (k = flushing') <=> (k = flushing)
    BY <1>1, <1>2, LockQFacts
  <2> QED BY <2>1, <1>2, <1>3, OtherLock
<1>6. LockTyped' /\ YieldStep
  BY <1>2 DEF LockTyped, YieldStep
<1> QED BY <1>2, <1>3, <1>4, <1>5, <1>6 DEF LockInv

-----------------------------------------------------------------------------
LEMMA LockStep ==
  ASSUME LockInv, [LockNext]_allVars
  PROVE  LockInv' /\ [YieldStep]_allVars
<1>1. CASE LockCore
  BY <1>1, CoreInv
<1>2. CASE LockCall
  <2>1. CASE LockNew \/ \E l \in LockIds : UnknownLock(l) \/ LockDestroy(l)
    BY <2>1, SimpleCallInv
  <2>2. ASSUME NEW l \in LockIds, NEW m \in LockModes,
               LockLock(l, m) \/ LockWait(l, m) \/ LockUnlock(l, m)
        PROVE  LockInv' /\ YieldStep
    <3>1. CASE LockLock(l, m)
      BY <3>1, LockLockInv
    <3>2. CASE LockWait(l, m)
      BY <3>2, LockWaitInv
    <3>3. CASE LockUnlock(l, m)
      BY <3>3, UnlockAloneInv, UnlockHandsOverInv DEF LockUnlock
    <3> QED BY <2>2, <3>1, <3>2, <3>3
  <2> QED BY <1>2, <2>1, <2>2 DEF LockCall
<1>3. CASE LockLoop
  BY <1>3, FlushReaderInv, FlushDoneInv DEF LockLoop
<1>4. CASE UNCHANGED allVars
  <2>1. CallsSound'
    <3>1. UNCHANGED <<vars, callVars>>
      BY <1>4 DEF allVars
    <3>2. TypeOK' /\ CallsType'
      BY <3>1
      DEF LockInv, CallsSound, TypeOK, CallsType, vars, callVars, pcbVars, memVars
    <3>3. Placement'
      BY <3>1, KeepPlacement DEF LockInv, CallsSound, vars, pcbVars
    <3> QED BY <3>2, <3>3 DEF CallsSound
  <2>2. UNCHANGED lockVars /\ UNCHANGED mode /\ UNCHANGED queue
    BY <1>4 DEF allVars, vars
  <2>3. lockCount' \in 0 .. MaxLocks
    BY <2>2 DEF lockVars, LockInv, LockTyped
  <2>4. UNCHANGED <<readerCount, writerWaitingCount, hasWriter, wanted, flushing, holds>>
    BY <2>2 DEF lockVars
  <2>5. LockInv'
    BY <2>1, <2>2, <2>3, <2>4, NoLockChange
  <2> QED BY <2>5, <1>4
<1> QED BY <1>1, <1>2, <1>3, <1>4 DEF LockNext

LEMMA LockInvariant == LockSpec => []LockInv
<1>1. LockInv /\ [LockNext]_allVars => LockInv'
  BY LockStep
<1> QED BY <1>1, LockInitInv, PTL DEF LockSpec

(* For every number of processes and locks: the counters that decide who   *)
(* may pass agree with who holds a lock and who waits, in the middle of a  *)
(* flush too, and nobody waits for a lock that nobody holds.               *)
THEOREM LockAlwaysSound == LockSpec => []LockSound
<1>1. LockInv => LockSound
  <2> SUFFICES ASSUME LockInv PROVE LockSound
    OBVIOUS
  <2>1. LockType
    BY DEF LockInv, CallsSound, LockTyped, LockType
  <2>2. CountsAgree
    BY DEF LockInv, LockOK, Counted, CountsAgree
  <2>3. NoStuckWaiter
    <3> SUFFICES ASSUME User, NEW l \in LockIds, queue[LockQ(l)] # <<>>
                 PROVE  \E m \in LockModes : Holders(l, m) # {}
      BY DEF NoStuckWaiter
    <3>1. l # flushing
      BY UserFacts
    <3>2. PICK p \in Pcbs : holds[l][p] # "none"
      BY <3>1 DEF LockInv, LockOK, Marked
    <3>3. holds[l][p] \in LockModes
      BY <3>2 DEF LockInv, LockTyped
    <3> QED BY <3>3 DEF Holders
  <2> QED BY <2>1, <2>2, <2>3 DEF LockSound
<1> QED BY <1>1, LockInvariant, PTL

(* No step of any operation hands a lock to a reader while a writer waits  *)
(* for it: the wait queue is ordered, so a reader at its head has only     *)
(* readers behind it.                                                      *)
THEOREM ReadersAlwaysYield == LockSpec => ReadersYield
<1>1. LockInv /\ [LockNext]_allVars => [YieldStep]_allVars
  BY LockStep
<1> QED BY <1>1, LockInvariant, PTL DEF LockSpec, ReadersYield, YieldStep
=============================================================================
