---------------------------- MODULE MessageProofs ----------------------------
(***************************************************************************)
(* Proofs about messages, for every number of PCBs, pids and messages:     *)
(* messages arrive once and in order, and nobody waits beside a message or *)
(* returns without one.                                                    *)
(***************************************************************************)
EXTENDS Messages, ProcessProofs

Letters == Nat \X Nat               \* a message: its sender and its number

MailTyped ==
  /\ mailbox \in [PidSet -> Seq(Letters)]
  /\ sent    \in [PidSet -> Seq(Letters)]
  /\ got     \in [PidSet -> Seq(Letters)]
  /\ sends   \in Nat

\* Whoever has a PCB has a pid that can be sent to.
PidsBounded ==
  /\ nextPid >= 1
  /\ \A p \in Pcbs : InUse(p) => pid[p] \in PidSet

\* Who has not been answered still waits.
UnansweredWaits == \A p \in Pcbs : eax[p] = "message" => In(WaitQ, p)

\* The inductive invariant.
MailInv ==
  /\ CallsSound
  /\ MailTyped
  /\ PidsBounded
  /\ MailInOrder
  /\ ReceiverHasNoMail
  /\ UnansweredWaits

LEMMA WaitQFacts ==
  /\ WaitQ \in QueueIds \ CoreQs /\ WaitQ # FreeQ /\ WaitQ \notin ReadyQs
  /\ FreeQ \in QueueIds /\ FreeQ \notin ReadyQs
BY MessageAssumptions
   DEF MessageAssumption, WaitQ, QueueIds, CoreQs, FreeQ, SleepQ, ReadQ, ReadyQs, ReadyQ

(* _q_remove_by_key takes one member out and keeps the others.             *)
LEMMA RemoveAtFacts ==
  ASSUME NEW S, NEW s \in Seq(S), IsInjective(s), NEW i \in 1 .. Len(s),
         NEW t, t = RemoveAt(s, i)
  PROVE  /\ t \in Seq(S) /\ IsInjective(t)
         /\ \A r : Contains(t, r) <=> Contains(s, r) /\ r # s[i]
<1>1. /\ t \in Seq(S) /\ Len(t) = Len(s) - 1
      /\ \A j \in 1 .. (i - 1) : t[j] = s[j]
      /\ \A j \in i .. Len(s) - 1 : t[j] = s[j + 1]
  <2> DEFINE a == SubSeq(s, 1, i - 1)
  <2> DEFINE b == SubSeq(s, i + 1, Len(s))
  <2>1. a \in Seq(S) /\ Len(a) = i - 1 /\ \A j \in 1 .. (i - 1) : a[j] = s[j]
    OBVIOUS
  <2>2. /\ b \in Seq(S) /\ Len(b) = Len(s) - i
        /\ \A j \in 1 .. Len(s) - i : b[j] = s[i + j]
    OBVIOUS
  <2>3. t = a \o b
    BY Zenon DEF RemoveAt
  <2> HIDE DEF a, b
  <2>4. /\ a \o b \in Seq(S) /\ Len(a \o b) = Len(s) - 1
        /\ \A j \in 1 .. (i - 1) : (a \o b)[j] = a[j]
        /\ \A j \in i .. Len(s) - 1 : (a \o b)[j] = b[j - (i - 1)]
    <3>1. a \o b \in Seq(S) /\ Len(a \o b) = Len(a) + Len(b)
      BY <2>1, <2>2, ConcatProperties
    <3>2. \A j \in 1 .. Len(a) + Len(b) :
            (a \o b)[j] = IF j <= Len(a) THEN a[j] ELSE b[j - Len(a)]
      BY <2>1, <2>2, ConcatProperties
    <3>3. Len(a) + Len(b) = Len(s) - 1
      BY <2>1, <2>2
    <3>4. ASSUME NEW j \in 1 .. (i - 1) PROVE (a \o b)[j] = a[j]
      <4>1. j \in 1 .. Len(a) + Len(b) /\ j <= Len(a)
        BY <2>1, <3>3
      <4> QED BY <4>1, <3>2
    <3>5. ASSUME NEW j \in i .. Len(s) - 1 PROVE (a \o b)[j] = b[j - (i - 1)]
      <4>1. j \in 1 .. Len(a) + Len(b) /\ ~(j <= Len(a)) /\ Len(a) = i - 1
        BY <2>1, <3>3
      <4> QED BY <4>1, <3>2
    <3> QED BY <3>1, <3>3, <3>4, <3>5
  <2>5. ASSUME NEW j \in i .. Len(s) - 1 PROVE (a \o b)[j] = s[j + 1]
    <3>1. j - (i - 1) \in 1 .. Len(s) - i /\ i + (j - (i - 1)) = j + 1
      OBVIOUS
    <3> QED BY <3>1, <2>2, <2>4
  <2> QED BY <2>1, <2>3, <2>4, <2>5
<1> DEFINE old(j) == IF j < i THEN j ELSE j + 1
<1>2. ASSUME NEW j \in 1 .. Len(t)
      PROVE  old(j) \in 1 .. Len(s) /\ old(j) # i /\ t[j] = s[old(j)]
  <2>1. CASE j < i
    BY <2>1, <1>1
  <2>2. CASE j >= i
    <3>1. j \in i .. Len(s) - 1
      BY <2>2, <1>1
    <3> QED BY <3>1, <1>1
  <2> QED BY <2>1, <2>2
<1>3. IsInjective(t)
  <2> SUFFICES ASSUME NEW j \in 1 .. Len(t), NEW k \in 1 .. Len(t), t[j] = t[k]
               PROVE  j = k
    BY <1>1 DEF IsInjective
  <2>1. s[old(j)] = s[old(k)] /\ old(j) \in 1 .. Len(s) /\ old(k) \in 1 .. Len(s)
    BY <1>2
  <2>2. old(j) = old(k)
    <3> HIDE DEF old
    <3> QED BY <2>1 DEF IsInjective
  <2> QED BY <2>2, <1>1
<1>4. ASSUME NEW r, Contains(t, r) PROVE Contains(s, r) /\ r # s[i]
  <2>1. PICK j \in 1 .. Len(t) : t[j] = r
    BY <1>4 DEF Contains
  <2>2. old(j) \in 1 .. Len(s) /\ old(j) # i /\ s[old(j)] = r
    BY <2>1, <1>2
  <2> HIDE DEF old
  <2> QED BY <2>2 DEF Contains, IsInjective
<1>5. ASSUME NEW r, Contains(s, r), r # s[i] PROVE Contains(t, r)
  <2>1. PICK j \in 1 .. Len(s) : s[j] = r /\ j # i
    BY <1>5 DEF Contains
  <2>2. CASE j < i
    <3>1. j \in 1 .. (i - 1) /\ j \in 1 .. Len(t)
      BY <2>2, <1>1
    <3> QED BY <3>1, <2>1, <1>1 DEF Contains
  <2>3. CASE j > i
    <3>1. j - 1 \in i .. Len(s) - 1 /\ j - 1 \in 1 .. Len(t) /\ (j - 1) + 1 = j
      BY <2>3, <1>1
    <3> QED BY <3>1, <2>1, <1>1 DEF Contains
  <2> QED BY <2>1, <2>2, <2>3
<1> QED BY <1>1, <1>3, <1>4, <1>5

(* What a message does to the record of a pid when it is put into the      *)
(* mailbox, and when it is taken out.                                      *)
LEMMA MailFacts ==
  ASSUME NEW S, NEW g \in Seq(S), NEW m \in Seq(S)
  PROVE  /\ \A x \in S : Append(g \o m, x) = g \o Append(m, x)
         /\ m # <<>> => g \o m = Append(g, Head(m)) \o Tail(m)
<1>1. ASSUME NEW x \in S PROVE Append(g \o m, x) = g \o Append(m, x)
  <2> DEFINE a == Append(g \o m, x)
  <2> DEFINE b == g \o Append(m, x)
  <2>1. a \in Seq(S) /\ b \in Seq(S) /\ Len(a) = Len(b) /\ Len(a) = Len(g) + Len(m) + 1
    OBVIOUS
  <2>2. \A i \in 1 .. Len(a) : a[i] = b[i]
    OBVIOUS
  <2> QED BY <2>1, <2>2, SeqEqual
<1>2. ASSUME m # <<>> PROVE g \o m = Append(g, Head(m)) \o Tail(m)
  <2> DEFINE a == g \o m
  <2> DEFINE b == Append(g, Head(m)) \o Tail(m)
  <2>0. Head(m) \in S /\ Tail(m) \in Seq(S) /\ Len(Tail(m)) = Len(m) - 1 /\ Len(m) \in Nat \ {0}
    BY <1>2, HeadTailProperties, EmptySeq
  <2>1. a \in Seq(S) /\ b \in Seq(S) /\ Len(a) = Len(b) /\ Len(a) = Len(g) + Len(m)
    BY <2>0
  <2>2. \A i \in 1 .. Len(a) : a[i] = b[i]
    BY <2>0, <1>2
  <2> QED BY <2>1, <2>2, SeqEqual
<1> QED BY <1>1, <1>2

-----------------------------------------------------------------------------
LEMMA MailInitInv == MessageInit => MailInv
<1> SUFFICES ASSUME MessageInit PROVE MailInv
  OBVIOUS
<1>1. CallsSound
  BY InitCallsSound DEF MessageInit
<1>2. MailTyped /\ MailInOrder
  BY DEF MessageInit, MailTyped, MailInOrder
<1>3. \A p \in Pcbs : ~In(WaitQ, p)
  <2>1. WaitQ # ReadyQ(PRIO_HIGH)
    BY WaitQFacts, ConstantFacts DEF ReadyQs
  <2> QED BY <2>1, WaitQFacts DEF MessageInit, Init, In, Contains
<1>4. ReceiverHasNoMail /\ UnansweredWaits
  BY <1>3 DEF ReceiverHasNoMail, UnansweredWaits, MessageInit, CallsInit
<1>5. PidsBounded
  <2> DEFINE taken == IF VIDEO THEN 2 ELSE 1
  <2>1. Init /\ taken \in 1 .. 2 /\ \A p \in Pcbs : InUse(p) => p \notin (taken + 1) .. N_PCBS
    BY InitPlaces, QueueIdFacts DEF InUse, MessageInit
  <2>2. \A p \in Pcbs : InUse(p) => p \in 1 .. taken
    BY <2>1, ConstantFacts DEF Pcbs
  <2>3. nextPid = taken + 1 /\ \A p \in Pcbs : p \in 1 .. taken => pid[p] = p
    BY <2>1 DEF Init
  <2>4. 1 .. taken \subseteq PidSet
    BY <2>1, MessageAssumptions DEF MessageAssumption, PidSet
  <2> QED BY <2>1, <2>2, <2>3, <2>4 DEF PidsBounded
<1> QED BY <1>1, <1>2, <1>4, <1>5 DEF MailInv

(* A PCB keeps its pid for as long as it is not free, and gets one that    *)
(* can be sent to.                                                         *)
LEMMA CorePids ==
  ASSUME TypeOK, Placement, PidsBounded, Next
  PROVE  /\ PidsBounded'
         /\ \A p \in Pcbs : In(WaitQ, p) => pid'[p] = pid[p]
<1>1. nextPid \in Nat /\ pid \in [Pcbs -> Nat]
  BY DEF TypeOK
<1>2. CASE ForkTakes
  <2> DEFINE new == Head(queue[FreeQ])
  <2>1. /\ new \in Pcbs /\ nextPid' = nextPid + 1
        /\ pid' = [pid EXCEPT ![new] = nextPid]
        /\ \A r \in Pcbs : In(FreeQ, r)' <=> In(FreeQ, r) /\ r # new
    BY <1>2 DEF ForkTakes
  <2>2. Fork
    <3>1. nextPid' # nextPid
      BY <2>1, <1>1
    <3> QED BY <3>1 DEF Next, SystemCall, Interrupt, KernelLoop, Exit, Yield, Sleep, Kill,
       SetPriority, SetTime, ReadBuffered, ReadBlocks, ClockTick, CharWakes, CharBuffered,
       WakeSleeper, ClockContinue, ClockPreempt, DispatchReap, DispatchRun, DispatchPanic
  <2>3. nextPid \in PidSet
    BY <2>2, <1>1, MessageAssumptions DEF Fork, MessageAssumption, PidSet, PidsBounded
  <2>4. ~In(WaitQ, new)
    <3>1. In(FreeQ, new)
      BY <2>2, HeadIsIn, WaitQFacts DEF Fork, Placement
    <3> QED BY <3>1, <2>1, WaitQFacts DEF Placement, AtMostOnePlace
  <2> HIDE DEF new
  <2>5. \A p \in Pcbs : pid'[p] = IF p = new THEN nextPid ELSE pid[p]
    BY <2>1, <1>1
  <2>6. PidsBounded'
    <3>1. nextPid' >= 1
      BY <2>1, <1>1 DEF PidsBounded
    <3>2. \A p \in Pcbs : InUse(p)' => pid'[p] \in PidSet
      BY <2>1, <2>3, <2>5 DEF PidsBounded, InUse
    <3> QED BY <3>1, <3>2 DEF PidsBounded, PidSet
  <2> QED BY <2>4, <2>5, <2>6
<1>3. CASE FreeGrows /\ UNCHANGED <<pid, nextPid>>
  BY <1>3 DEF FreeGrows, PidsBounded, InUse
<1> QED BY <1>2, <1>3, Memberships

LEMMA MailCoreInv ==
  ASSUME MailInv, Core, UNCHANGED mailVars
  PROVE  MailInv'
<1>1. /\ CallsSound' /\ Next /\ TypeOK /\ Placement /\ PidsBounded /\ CallsType
      /\ current' \in Pcbs
  BY CoreSound DEF MailInv, CallsSound, Core, TypeOK
<1>2. \A p : In(WaitQ, p)' <=> In(WaitQ, p)
  BY <1>1, WaitQFacts, CoreWaits DEF In
<1>3. PidsBounded' /\ \A p \in Pcbs : In(WaitQ, p) => pid'[p] = pid[p]
  BY <1>1, CorePids
<1>4. MailTyped' /\ MailInOrder' /\ ReceiverHasNoMail'
  BY <1>2, <1>3 DEF MailInv, MailTyped, MailInOrder, ReceiverHasNoMail, mailVars
<1>5. UnansweredWaits'
  <2> SUFFICES ASSUME NEW p \in Pcbs, eax'[p] = "message" PROVE eax[p] = "message"
    BY <1>2 DEF UnansweredWaits, MailInv
  <2>1. CASE mode = "dispatch" /\ mode' = "user"
    BY <2>1, <1>1 DEF Core, CallsType
  <2>2. CASE ~(mode = "dispatch" /\ mode' = "user")
    BY <2>2 DEF Core
  <2> QED BY <2>1, <2>2
<1> QED BY <1>1, <1>3, <1>4, <1>5 DEF MailInv

(* A call that returns at once.                                            *)
LEMMA ReturnFacts ==
  ASSUME MailInv, User, NEW v \in Statuses, Ret(v), CoreKept(mode)
  PROVE  /\ CallsSound' /\ PidsBounded' /\ UnansweredWaits' /\ UNCHANGED <<queue, pid>>
         /\ current \in Pcbs /\ pid[current] \in PidSet
         /\ \A p \in Pcbs : In(WaitQ, p)' <=> In(WaitQ, p)
<1>1. /\ CallsSound /\ TypeOK /\ CallsType /\ current \in Pcbs /\ mode = "user"
      /\ mode \in Busy
  BY DEF MailInv, CallsSound, TypeOK, User, Busy
<1>2. CallsSound' /\ UNCHANGED <<queue, current, pid>>
  BY <1>1, RetTyped, CoreKeptSound
<1>3. \A q, p : In(q, p)' <=> In(q, p)
  BY <1>2 DEF In
<1>4. PidsBounded'
  BY <1>2, <1>3 DEF MailInv, PidsBounded, InUse, CoreKept
<1>5. UnansweredWaits'
  BY <1>1, <1>3 DEF MailInv, UnansweredWaits, Ret, CallsType
<1>6. pid[current] \in PidSet
  BY <1>1, WaitQFacts DEF MailInv, PidsBounded, InUse, CallsSound, Placement, CurrentPlaced
<1> QED BY <1>1, <1>2, <1>3, <1>4, <1>5, <1>6

LEMMA NewMessageType ==
  ASSUME MailInv PROVE NewMessage \in Letters
<1>1. pid[current] \in Nat /\ sends + 1 \in Nat
  BY DEF MailInv, CallsSound, TypeOK, MailTyped
<1> QED BY <1>1 DEF NewMessage, Letters

LEMMA SendToMailboxInv ==
  ASSUME MailInv, NEW to \in PidSet, SendToMailbox(to)
  PROVE  MailInv'
<1>1. /\ User /\ CoreKept(mode) /\ ~Waiting(to) /\ sends' = sends + 1 /\ UNCHANGED got
      /\ sent' = [sent EXCEPT ![to] = Append(@, NewMessage)]
      /\ mailbox' = [mailbox EXCEPT ![to] = Append(@, NewMessage)]
      /\ \E v \in Statuses : Ret(v)
  BY DEF SendToMailbox, Sending, Deposit, Statuses
<1>2. /\ CallsSound' /\ PidsBounded' /\ UnansweredWaits' /\ UNCHANGED <<queue, pid>>
      /\ \A p \in Pcbs : In(WaitQ, p)' <=> In(WaitQ, p)
  BY <1>1, ReturnFacts
<1>3. PICK m \in Letters : m = NewMessage
  BY NewMessageType
<1>4. MailTyped'
  BY <1>1, <1>3 DEF MailTyped, MailInv
<1>5. MailInOrder'
  <2> SUFFICES ASSUME NEW x \in PidSet PROVE sent'[x] = got'[x] \o mailbox'[x]
    BY DEF MailInOrder
  <2>1. sent[x] = got[x] \o mailbox[x] /\ got[x] \in Seq(Letters) /\ mailbox[x] \in Seq(Letters)
    BY DEF MailInv, MailInOrder, MailTyped
  <2>2. CASE x = to
    <3>1. /\ sent'[x] = Append(sent[x], m) /\ mailbox'[x] = Append(mailbox[x], m)
          /\ got'[x] = got[x]
      BY <1>1, <1>3, <2>2 DEF MailInv, MailTyped
    <3>2. PICK g \in Seq(Letters), b \in Seq(Letters) : g = got[x] /\ b = mailbox[x]
      BY <2>1
    <3>3. Append(g \o b, m) = g \o Append(b, m)
      BY MailFacts
    <3> QED BY <2>1, <3>1, <3>2, <3>3
  <2>3. CASE x # to
    BY <1>1, <2>1, <2>3 DEF MailInv, MailTyped
  <2> QED BY <2>2, <2>3
<1>6. ReceiverHasNoMail'
  <2> SUFFICES ASSUME NEW p \in Pcbs, In(WaitQ, p) PROVE mailbox'[pid[p]] = <<>>
    BY <1>2 DEF ReceiverHasNoMail
  <2>1. pid[p] # to
    BY <1>1 DEF Waiting, In, Contains
  <2>2. pid[p] \in PidSet
    BY WaitQFacts DEF MailInv, PidsBounded, InUse, CallsSound, Placement, AtMostOnePlace
  <2> QED BY <1>1, <2>1, <2>2 DEF MailInv, MailTyped, ReceiverHasNoMail
<1> QED BY <1>2, <1>4, <1>5, <1>6 DEF MailInv

LEMMA ReceiveInv ==
  ASSUME MailInv, Receive
  PROVE  MailInv'
<1> DEFINE to == pid[current]
<1>1. /\ User /\ CoreKept(mode) /\ mailbox[to] # <<>> /\ Ret("SUCCESS")
      /\ mailbox' = [mailbox EXCEPT ![to] = Tail(@)]
      /\ got' = [got EXCEPT ![to] = Append(@, Head(mailbox[to]))]
      /\ UNCHANGED <<sends, sent>>
  BY DEF Receive
<1>2. /\ CallsSound' /\ PidsBounded' /\ UnansweredWaits' /\ UNCHANGED <<queue, pid>>
      /\ to \in PidSet
      /\ \A p \in Pcbs : In(WaitQ, p)' <=> In(WaitQ, p)
  BY <1>1, ReturnFacts DEF Statuses
<1> HIDE DEF to
<1>3. /\ mailbox[to] \in Seq(Letters) /\ got[to] \in Seq(Letters)
      /\ Head(mailbox[to]) \in Letters /\ Tail(mailbox[to]) \in Seq(Letters)
  BY <1>1, <1>2, HeadTailProperties DEF MailInv, MailTyped
<1>4. MailTyped'
  BY <1>1, <1>2, <1>3 DEF MailTyped, MailInv
<1>5. MailInOrder'
  <2> SUFFICES ASSUME NEW x \in PidSet PROVE sent'[x] = got'[x] \o mailbox'[x]
    BY DEF MailInOrder
  <2>1. sent[x] = got[x] \o mailbox[x]
    BY DEF MailInv, MailInOrder
  <2>2. CASE x = to
    <3>1. /\ sent'[x] = sent[x] /\ mailbox'[x] = Tail(mailbox[to])
          /\ got'[x] = Append(got[to], Head(mailbox[to]))
      BY <1>1, <2>2 DEF MailInv, MailTyped
    <3>2. PICK g \in Seq(Letters), b \in Seq(Letters) : g = got[to] /\ b = mailbox[to]
      BY <1>3
    <3>3. g \o b = Append(g, Head(b)) \o Tail(b)
      BY <1>1, <3>2, MailFacts
    <3> QED BY <2>1, <2>2, <3>1, <3>2, <3>3
  <2>3. CASE x # to
    BY <1>1, <2>1, <2>3 DEF MailInv, MailTyped
  <2> QED BY <2>2, <2>3
<1>6. ReceiverHasNoMail'
  <2> SUFFICES ASSUME NEW p \in Pcbs, In(WaitQ, p) PROVE mailbox'[pid[p]] = <<>>
    BY <1>2 DEF ReceiverHasNoMail
  <2>1. mailbox[pid[p]] = <<>>
    BY DEF MailInv, ReceiverHasNoMail
  <2>2. pid[p] # to
    BY <1>1, <2>1
  <2>3. pid[p] \in PidSet
    BY WaitQFacts DEF MailInv, PidsBounded, InUse, CallsSound, Placement, AtMostOnePlace
  <2> QED BY <1>1, <2>1, <2>2, <2>3 DEF MailInv, MailTyped
<1> QED BY <1>2, <1>4, <1>5, <1>6 DEF MailInv

LEMMA AskInv ==
  ASSUME MailInv, Ask
  PROVE  MailInv'
<1>1. User /\ CoreKept(mode) /\ UNCHANGED mailVars /\ \E v \in Statuses : Ret(v)
  BY DEF Ask, Statuses
<1>2. /\ CallsSound' /\ PidsBounded' /\ UnansweredWaits' /\ UNCHANGED <<queue, pid>>
      /\ \A p \in Pcbs : In(WaitQ, p)' <=> In(WaitQ, p)
  BY <1>1, ReturnFacts
<1>3. MailTyped' /\ MailInOrder' /\ ReceiverHasNoMail'
  BY <1>1, <1>2 DEF mailVars, MailInv, MailTyped, MailInOrder, ReceiverHasNoMail
<1> QED BY <1>2, <1>3 DEF MailInv

(* _message_receive waits.                                                 *)
LEMMA ReceiveWaitsInv ==
  ASSUME MailInv, ReceiveWaits
  PROVE  MailInv'
<1>1. PICK n \in 0 .. Len(queue[WaitQ]) : BlockAt(WaitQ, n)
  BY DEF ReceiveWaits
<1>2. User /\ mailbox[pid[current]] = <<>> /\ UNCHANGED mailVars
  BY DEF ReceiveWaits, MailboxEmpty
<1>3. PICK q \in QueueIds \ CoreQs : q = WaitQ
  BY WaitQFacts
<1>4. /\ CallsSound' /\ UNCHANGED pid
      /\ \A r \in QueueIds \ {WaitQ} : queue'[r] = queue[r]
      /\ \A p \in Pcbs : In(WaitQ, p)' <=> In(WaitQ, p) \/ p = current
      /\ In(WaitQ, current)'
  <2>1. n \in 0 .. Len(queue[q]) /\ BlockAt(q, n)
    BY <1>1, <1>3
  <2>2. CallsSound /\ User
    BY <1>2 DEF MailInv
  <2>3. /\ CallsSound' /\ UNCHANGED pid
        /\ \A r \in QueueIds \ {q} : queue'[r] = queue[r]
        /\ \A p \in Pcbs : In(q, p)' <=> In(q, p) \/ p = current
        /\ In(q, current)'
    BY <2>1, <2>2, BlockAtSound
  <2> QED BY <1>3, <2>3
<1>5. PidsBounded'
  <2>1. \A p : In(FreeQ, p)' <=> In(FreeQ, p)
    BY <1>4, WaitQFacts DEF In
  <2>2. UNCHANGED nextPid
    BY <1>1 DEF BlockAt
  <2> QED BY <1>4, <2>1, <2>2 DEF MailInv, PidsBounded, InUse
<1>6. MailTyped' /\ MailInOrder'
  BY <1>2 DEF mailVars, MailInv, MailTyped, MailInOrder
<1>7. ReceiverHasNoMail'
  BY <1>2, <1>4 DEF mailVars, MailInv, ReceiverHasNoMail
<1>8. UnansweredWaits'
  <2>1. eax' = [eax EXCEPT ![current] = WaitQ[1]]
    BY <1>1 DEF BlockAt
  <2>2. eax \in [Pcbs -> {"own", "answered", "stray"} \cup CallNumbers]
    BY DEF MailInv, CallsSound, CallsType
  <2> QED BY <1>4, <2>1, <2>2 DEF MailInv, UnansweredWaits
<1> QED BY <1>4, <1>5, <1>6, <1>7, <1>8 DEF MailInv

(* _q_remove_by_key and _sched: the i-th waiter becomes ready.             *)
LEMMA WakeFacts ==
  ASSUME MailInv, User, UNCHANGED <<mode, current>>,
         NEW i \in 1 .. Len(queue[WaitQ]), NEW p, p = queue[WaitQ][i], Wake(i, p)
  PROVE  /\ p \in Pcbs /\ In(WaitQ, p) /\ p # current
         /\ queue' \in [QueueIds -> Seq(Pcbs)] /\ Placement'
         /\ \A x \in Pcbs : In(WaitQ, x)' <=> In(WaitQ, x) /\ x # p
         /\ \A x \in Pcbs : In(FreeQ, x)' <=> In(FreeQ, x)
<1> DEFINE s == queue[WaitQ]
<1> DEFINE t == RemoveAt(s, i)
<1>0. /\ TypeOK /\ Placement /\ AtMostOnePlace /\ queue \in [QueueIds -> Seq(Pcbs)]
      /\ s \in Seq(Pcbs) /\ IsInjective(s)
  BY WaitQFacts DEF MailInv, CallsSound, Placement, AtMostOnePlace, TypeOK
<1>1. p \in Pcbs /\ In(WaitQ, p)
  BY <1>0, ElementOfSeq DEF In, Contains
<1>2. p # current
  BY <1>1, WaitQFacts DEF MailInv, CallsSound, Placement, CurrentPlaced, User
<1>3. PICK to \in ReadyQs : to = ReadyQOf(p) /\ to \in QueueIds /\ to # WaitQ /\ to # FreeQ
  <2>1. priority[p] \in Prios
    BY <1>0, <1>1 DEF TypeOK
  <2> QED BY <2>1, QueueIdFacts, WaitQFacts DEF ReadyQOf, ReadyQs
<1>4. /\ queue' = [queue EXCEPT ![WaitQ] = t, ![to] = Append(@, p)]
      /\ state' = [state EXCEPT ![p] = "READY"]
  BY <1>3 DEF Wake
<1> HIDE DEF s
<1>5. /\ t \in Seq(Pcbs) /\ IsInjective(t)
      /\ \A r : Contains(t, r) <=> Contains(s, r) /\ r # s[i]
  <2>1. i \in 1 .. Len(s)
    BY DEF s
  <2> QED BY <2>1, <1>0, RemoveAtFacts
<1>6. p = s[i]
  BY DEF s
<1> HIDE DEF t
<1>7. ~Contains(queue[to], p) /\ queue[to] \in Seq(Pcbs) /\ IsInjective(queue[to])
  BY <1>0, <1>1, <1>3, WaitQFacts DEF AtMostOnePlace, In
<1>8. PICK v : /\ v = Append(queue[to], p) /\ v \in Seq(Pcbs) /\ IsInjective(v)
               /\ \A r : Contains(v, r) <=> Contains(queue[to], r) \/ r = p
  <2> DEFINE u == queue[to]
  <2>1. u \in Seq(Pcbs) /\ IsInjective(u) /\ ~Contains(u, p)
    BY <1>7
  <2> HIDE DEF u
  <2>2. /\ Append(u, p) \in Seq(Pcbs) /\ IsInjective(Append(u, p))
        /\ \A r : Contains(Append(u, p), r) <=> Contains(u, r) \/ r = p
    BY <1>1, <2>1, AppendFacts
  <2> QED BY <2>2 DEF u
<1>9. \A q \in QueueIds :
        queue'[q] = IF q = WaitQ THEN t ELSE IF q = to THEN v ELSE queue[q]
  BY <1>0, <1>3, <1>4, <1>8
<1>10. queue' \in [QueueIds -> Seq(Pcbs)]
  BY <1>0, <1>3, <1>4, <1>5, <1>8
<1>11. \A q \in QueueIds, x \in Pcbs :
         In(q, x)' <=> (In(q, x) /\ x # p) \/ (q = to /\ x = p)
  <2> SUFFICES ASSUME NEW q \in QueueIds, NEW x \in Pcbs
               PROVE  In(q, x)' <=> (In(q, x) /\ x # p) \/ (q = to /\ x = p)
    OBVIOUS
  <2>1. CASE q = WaitQ
    BY <2>1, <1>3, <1>5, <1>6, <1>9 DEF In, s
  <2>2. CASE q = to
    BY <2>2, <1>3, <1>7, <1>8, <1>9 DEF In
  <2>3. CASE q # WaitQ /\ q # to
    <3>1. In(q, x)' <=> In(q, x)
      BY <2>3, <1>9 DEF In
    <3> QED BY <3>1, <2>3, <1>0, <1>1, WaitQFacts DEF AtMostOnePlace
  <2> QED BY <2>1, <2>2, <2>3
<1>12. AtMostOnePlace'
  <2>1. \A q \in QueueIds : IsInjective(queue'[q])
    BY <1>0, <1>5, <1>8, <1>9 DEF AtMostOnePlace
  <2>2. ASSUME NEW q1 \in QueueIds, NEW q2 \in QueueIds, NEW x \in Pcbs, In(q1, x)', In(q2, x)'
        PROVE  q1 = q2
    BY <1>0, <1>11, <2>2 DEF AtMostOnePlace
  <2> QED BY <2>1, <2>2 DEF AtMostOnePlace
<1>13. Placement'
  <2>1. PICK q \in QueueIds \ CoreQs : q = WaitQ
    BY WaitQFacts
  <2>2. mode \in Busy /\ mode' \in Busy
    BY DEF User, Busy
  <2> QED BY <2>1, <2>2, <1>0, <1>1, <1>4, <1>11, <1>12, ReleasePlacement
<1>14. \A x \in Pcbs : In(WaitQ, x)' <=> In(WaitQ, x) /\ x # p
  BY <1>3, <1>11, WaitQFacts
<1>15. \A x \in Pcbs : In(FreeQ, x)' <=> In(FreeQ, x)
  BY <1>0, <1>1, <1>3, <1>11, WaitQFacts DEF AtMostOnePlace
<1> QED BY <1>1, <1>2, <1>10, <1>13, <1>14, <1>15

LEMMA SendToWaiterInv ==
  ASSUME MailInv, NEW to \in PidSet, SendToWaiter(to)
  PROVE  MailInv'
<1>0. PICK i \in 1 .. Len(queue[WaitQ]) :
        /\ pid[queue[WaitQ][i]] = to /\ Wake(i, queue[WaitQ][i])
        /\ got' = [got EXCEPT ![to] = Append(@, NewMessage)]
        /\ eax' = [eax EXCEPT ![current] = "own", ![queue[WaitQ][i]] = "answered"]
  BY DEF SendToWaiter, Awaits, Answer
<1>1. PICK p :
        /\ p = queue[WaitQ][i] /\ pid[p] = to /\ Wake(i, p)
        /\ got' = [got EXCEPT ![to] = Append(@, NewMessage)]
        /\ eax' = [eax EXCEPT ![current] = "own", ![p] = "answered"]
  BY <1>0
<1>2. /\ User /\ sends' = sends + 1
      /\ sent' = [sent EXCEPT ![to] = Append(@, NewMessage)]
      /\ result' = "SUCCESS"
      /\ UNCHANGED <<owed, priority, quantum, pid, pageDir, wakeKey, current,
                     nextPid, time, mode, memVars, incount, left, mailbox>>
  BY DEF SendToWaiter, Sending
<1>3. /\ p \in Pcbs /\ In(WaitQ, p) /\ p # current
      /\ queue' \in [QueueIds -> Seq(Pcbs)] /\ Placement'
      /\ \A x \in Pcbs : In(WaitQ, x)' <=> In(WaitQ, x) /\ x # p
      /\ \A x \in Pcbs : In(FreeQ, x)' <=> In(FreeQ, x)
  BY <1>1, <1>2, WakeFacts
<1>4. TypeOK /\ CallsType /\ current \in Pcbs
  BY DEF MailInv, CallsSound, TypeOK
<1>5. TypeOK'
  <2>1. state' \in [Pcbs -> States]
    BY <1>1, <1>3, <1>4 DEF Wake, TypeOK, States
  <2> QED BY <2>1, <1>2, <1>3, <1>4 DEF TypeOK, memVars
<1>6. CallsType'
  BY <1>1, <1>2, <1>3, <1>4 DEF CallsType, Statuses
<1>7. PidsBounded'
  BY <1>2, <1>3 DEF MailInv, PidsBounded, InUse
<1>8. PICK m \in Letters : m = NewMessage
  BY NewMessageType
<1>9. MailTyped'
  BY <1>1, <1>2, <1>8 DEF MailTyped, MailInv
<1>10. MailInOrder'
  <2> SUFFICES ASSUME NEW x \in PidSet PROVE sent'[x] = got'[x] \o mailbox'[x]
    BY DEF MailInOrder
  <2>1. sent[x] = got[x] \o mailbox[x] /\ got[x] \in Seq(Letters)
    BY DEF MailInv, MailInOrder, MailTyped
  <2>2. CASE x = to
    <3>1. mailbox[x] = <<>> /\ mailbox' = mailbox
      BY <1>1, <1>2, <1>3, <2>2 DEF MailInv, ReceiverHasNoMail
    <3>2. sent'[x] = Append(sent[x], m) /\ got'[x] = Append(got[x], m)
      BY <1>1, <1>2, <1>8, <2>2 DEF MailInv, MailTyped
    <3>3. got[x] \o <<>> = got[x] /\ Append(got[x], m) \o <<>> = Append(got[x], m)
      <4>1. Append(got[x], m) \in Seq(Letters)
        BY <2>1
      <4> QED BY <2>1, <4>1, ConcatEmptySeq
    <3> QED BY <2>1, <3>1, <3>2, <3>3
  <2>3. CASE x # to
    BY <1>1, <1>2, <2>1, <2>3 DEF MailInv, MailTyped
  <2> QED BY <2>2, <2>3
<1>11. ReceiverHasNoMail'
  BY <1>2, <1>3 DEF MailInv, ReceiverHasNoMail
<1>12. UnansweredWaits'
  BY <1>1, <1>3, <1>4 DEF MailInv, UnansweredWaits, CallsType
<1> QED BY <1>3, <1>5, <1>6, <1>7, <1>9, <1>10, <1>11, <1>12 DEF MailInv, CallsSound

-----------------------------------------------------------------------------
LEMMA MailStep ==
  ASSUME MailInv, [MessageNext]_messageVars
  PROVE  MailInv'
<1>1. CASE Core /\ UNCHANGED mailVars
  BY <1>1, MailCoreInv
<1>2. CASE MessageCall
  <2>1. Addressees \subseteq PidSet
    BY MessageAssumptions DEF MessageAssumption
  <2> QED BY <1>2, <2>1, SendToWaiterInv, SendToMailboxInv, ReceiveInv, ReceiveWaitsInv, AskInv
          DEF MessageCall
<1>3. CASE UNCHANGED messageVars
  <2>1. UNCHANGED <<vars, callVars, mailVars>>
    BY <1>3 DEF messageVars
  <2>2. TypeOK' /\ CallsType'
    BY <2>1 DEF MailInv, CallsSound, TypeOK, CallsType, vars, callVars, pcbVars, memVars
  <2>3. Placement'
    BY <2>1, KeepPlacement DEF MailInv, CallsSound, vars, pcbVars
  <2>4. MailTyped' /\ MailInOrder'
    BY <2>1 DEF MailInv, MailTyped, MailInOrder, mailVars
  <2>5. PidsBounded' /\ ReceiverHasNoMail' /\ UnansweredWaits'
    BY <2>1 DEF MailInv, PidsBounded, InUse, ReceiverHasNoMail, UnansweredWaits, In,
                vars, pcbVars, callVars, mailVars
  <2> QED BY <2>2, <2>3, <2>4, <2>5 DEF MailInv, CallsSound
<1> QED BY <1>1, <1>2, <1>3 DEF MessageNext

LEMMA MailInvariant == MessageSpec => []MailInv
BY MailInitInv, MailStep, PTL DEF MessageSpec

(* What has been sent to a pid is what it has received, followed by what   *)
(* is still in its mailbox: nothing is lost, doubled or overtaken, although *)
(* _message_send goes past the mailbox of a process that waits.            *)
THEOREM MailAlwaysInOrder == MessageSpec => []MailInOrder
<1>1. MailInv => MailInOrder
  BY DEF MailInv
<1> QED BY <1>1, MailInvariant, PTL

(* A process that waits in _message_receive has no message, and when it    *)
(* runs again the sender has answered its call.                            *)
THEOREM ReceiverAlwaysServed == MessageSpec => []ReceiverServed
<1>1. ASSUME MailInv, User PROVE eax[current] # "message"
  <2>1. current \in Pcbs /\ ~In(WaitQ, current)
    BY <1>1, WaitQFacts DEF MailInv, CallsSound, TypeOK, Placement, CurrentPlaced, User
  <2> QED BY <1>1, <2>1 DEF MailInv, UnansweredWaits
<1>2. MailInv => ReceiverServed
  BY <1>1 DEF MailInv, ReceiverServed, ReceiveReturnsStatus
<1> QED BY <1>2, MailInvariant, PTL
=============================================================================
