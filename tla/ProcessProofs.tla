--------------------------- MODULE ProcessProofs ---------------------------
(***************************************************************************)
(* Proofs about the process core: type correctness; that no PCB is ever    *)
(* lost, duplicated or free while it is used; that ready processes wait by *)
(* priority and _dispatch picks the best; that pids are unique; and that   *)
(* nobody waits for input beside a character.                              *)
(***************************************************************************)
EXTENDS Calls, SequenceLemmas

-----------------------------------------------------------------------------
(* The process core.                                                       *)

QueueTyped == queue \in [QueueIds -> Seq(Pcbs)]

(* The queue identifiers used by name are queues, and different ones.      *)
LEMMA QueueIdFacts ==
  /\ FreeQ \in QueueIds /\ SleepQ \in QueueIds /\ ReadQ \in QueueIds
  /\ \A k \in Prios : ReadyQ(k) \in QueueIds
  /\ \A k \in Prios : FreeQ # ReadyQ(k) /\ SleepQ # ReadyQ(k) /\ ReadQ # ReadyQ(k)
  /\ FreeQ # SleepQ /\ FreeQ # ReadQ /\ SleepQ # ReadQ
BY DEF QueueIds, ReadyQs, FreeQ, SleepQ, ReadQ, ReadyQ

(* The types of what the constants define.                                 *)
LEMMA ConstantFacts ==
  /\ N_PCBS \in Nat /\ N_PCBS >= 2 /\ 1 \in Pcbs /\ 2 \in Pcbs
  /\ STD_QUANTUM \in Nat /\ TIME_MOD \in Nat \ {0} /\ BUF_SIZE \in Nat
  /\ VIDEO \in BOOLEAN /\ KernelDir \in Dirs /\ InitDir \in Dirs
  /\ SleepArgs \subseteq Nat /\ PrioArgs \subseteq Nat
  /\ TimeArgs \subseteq 0 .. (TIME_MOD - 1)
  /\ PRIO_HIGH \in Prios /\ \A k \in Nat : k < N_PRIOS => k \in Prios
BY Assumptions DEF KernelAssumption, Pcbs, Prios, PRIO_HIGH, N_PRIOS

-----------------------------------------------------------------------------
(* Type correctness.                                                       *)

LEMMA InitTypeOK == Init => TypeOK
<1> SUFFICES ASSUME Init PROVE TypeOK
  OBVIOUS
<1> DEFINE taken == IF VIDEO THEN 2 ELSE 1
<1>1. queue \in [QueueIds -> Seq(Pcbs)]
  <2> DEFINE free == FreePcbs(taken)
  <2>1. taken \in 1 .. 2 /\ N_PCBS - taken \in Nat
    BY ConstantFacts
  <2>2. free \in [1 .. (N_PCBS - taken) -> Pcbs]
    BY <2>1, ConstantFacts DEF Pcbs, FreePcbs
  <2>3. free \in Seq(Pcbs)
    <3> HIDE DEF free, taken
    <3> QED BY <2>1, <2>2, SeqDef
  <2>4. /\ (IF VIDEO THEN <<2>> ELSE <<>>) \in Seq(Pcbs)
        /\ <<>> \in Seq(Pcbs)
    BY ConstantFacts
  <2> QED BY <2>3, <2>4 DEF Init
<1> QED BY <1>1, ConstantFacts DEF Init, TypeOK, States, Modes, Pcbs, PRIO_HIGH,
          Prios, N_PRIOS

(* What the queue routines do to the type of the queues.                   *)
LEMMA QueueTypes ==
  ASSUME QueueTyped
  PROVE  /\ \A p \in Pcbs, to \in QueueIds :
              Enqueue(p, to) \in [QueueIds -> Seq(Pcbs)]
         /\ \A p \in Pcbs, from, to \in QueueIds : queue[from] # <<>> /\ from # to =>
              Move(from, p, to) \in [QueueIds -> Seq(Pcbs)]
         /\ \A from \in QueueIds : queue[from] # <<>> =>
              /\ Head(queue[from]) \in Pcbs
              /\ [queue EXCEPT ![from] = Tail(@)] \in [QueueIds -> Seq(Pcbs)]
<1>1. ASSUME NEW p \in Pcbs, NEW to \in QueueIds
      PROVE  Enqueue(p, to) \in [QueueIds -> Seq(Pcbs)]
  <2>1. Append(queue[to], p) \in Seq(Pcbs)
    BY DEF QueueTyped
  <2> QED BY <2>1 DEF QueueTyped, Enqueue
<1>2. ASSUME NEW from \in QueueIds, queue[from] # <<>>
      PROVE  /\ Head(queue[from]) \in Pcbs
             /\ Tail(queue[from]) \in Seq(Pcbs)
             /\ [queue EXCEPT ![from] = Tail(@)] \in [QueueIds -> Seq(Pcbs)]
  BY <1>2, HeadTailProperties DEF QueueTyped
<1>3. ASSUME NEW p \in Pcbs, NEW from \in QueueIds, NEW to \in QueueIds,
             queue[from] # <<>>, from # to
      PROVE  Move(from, p, to) \in [QueueIds -> Seq(Pcbs)]
  <2>1. Append(queue[to], p) \in Seq(Pcbs) /\ Tail(queue[from]) \in Seq(Pcbs)
    BY <1>2, <1>3 DEF QueueTyped
  <2> QED BY <2>1, <1>3 DEF QueueTyped, Move
<1> QED BY <1>1, <1>2, <1>3

(* A process is queued by its priority, which is one of the four.          *)
LEMMA ReadyQOfType ==
  ASSUME TypeOK, NEW p \in Pcbs
  PROVE  ReadyQOf(p) \in QueueIds
BY QueueIdFacts DEF TypeOK, ReadyQOf

LEMMA SystemCallTypeOK ==
  ASSUME TypeOK, SystemCall
  PROVE  TypeOK'
<1> USE DEF TypeOK, States, Modes
<1>0. /\ QueueTyped /\ current \in Pcbs /\ ReadyQOf(current) \in QueueIds
      /\ ReadyQ(priority[current]) \in QueueIds
  BY QueueIdFacts, ReadyQOfType DEF QueueTyped
<1>1. CASE Fork
  <2> DEFINE new == Head(queue[FreeQ])
  <2>1. new \in Pcbs /\ queue[FreeQ] # <<>>
    BY <1>0, <1>1, QueueTypes, QueueIdFacts DEF Fork
  <2>2. CASE state[new] = "FREE"
    <3>1. /\ queue' = Move(FreeQ, new, ReadyQ(priority[current]))
          /\ ForkChild(new)
          /\ state' = [state EXCEPT ![new] = "READY"]
          /\ cr3' = pageDir[current]
          /\ UNCHANGED <<mode, wakeKey, current, time, incount, left>>
      BY <2>2, <1>1, Zenon DEF Fork, Allocatable
    <3> HIDE DEF new
    <3>2. queue' \in [QueueIds -> Seq(Pcbs)]
      BY <2>1, <3>1, <1>0, QueueTypes, QueueIdFacts
    <3>3. PICK d \in Dirs : /\ pageDir' = [pageDir EXCEPT ![new] = d]
                            /\ liveDirs' = liveDirs \cup {d}
      BY <3>1 DEF ForkChild
    <3>4. state' \in [Pcbs -> States] /\ pageDir' \in [Pcbs -> Dirs]
      BY <3>1, <3>3
    <3>5. liveDirs' \subseteq Dirs /\ cr3' \in Dirs
      BY <3>1, <3>3, <1>0
    <3>6. priority' \in [Pcbs -> Prios] /\ quantum' \in [Pcbs -> Nat]
      BY <3>1, <1>0 DEF ForkChild
    <3>7. pid' \in [Pcbs -> Nat] /\ nextPid' \in Nat
      <4>1. nextPid + 1 \in Nat /\ nextPid \in Nat
        OBVIOUS
      <4>2. pid' = [pid EXCEPT ![new] = nextPid] /\ nextPid' = nextPid + 1
        BY <3>1 DEF ForkChild
      <4> QED BY <4>1, <4>2
    <3> QED BY <3>1, <3>2, <3>4, <3>5, <3>6, <3>7
  <2>3. CASE state[new] # "FREE"
    <3>1. /\ queue' = [queue EXCEPT ![FreeQ] = Tail(@)]
          /\ mode' = "panic"
          /\ UNCHANGED <<pcbVars, nextPid, memVars, wakeKey, current, time,
                         incount, left>>
      BY <2>3, <1>1, Zenon DEF Fork, Allocatable
    <3>2. queue' \in [QueueIds -> Seq(Pcbs)]
      BY <2>1, <3>1, <1>0, QueueTypes, QueueIdFacts
    <3> QED BY <3>1, <3>2 DEF pcbVars, memVars
  <2> QED BY <2>2, <2>3
<1>2. CASE Exit
  <2>1. queue' \in [QueueIds -> Seq(Pcbs)]
    BY <1>0, <1>2, QueueTypes, QueueIdFacts DEF Exit
  <2> QED BY <2>1, <1>2, ConstantFacts DEF Exit, Cleanup, Freed
<1>3. CASE Yield
  <2>1. queue' \in [QueueIds -> Seq(Pcbs)]
    BY <1>0, <1>3, QueueTypes DEF Yield
  <2> QED BY <2>1, <1>3 DEF Yield, memVars
<1>4. ASSUME NEW ms \in SleepArgs, Sleep(ms) PROVE TypeOK'
  <2> DEFINE key == (time + ms) % TIME_MOD
  <2> DEFINE s == queue[SleepQ]
  <2>1. key \in 0 .. (TIME_MOD - 1) /\ ms \in Nat
    <3>1. ms \in Nat /\ TIME_MOD \in Nat \ {0} /\ time \in Nat
      BY ConstantFacts
    <3>2. (time + ms) % TIME_MOD \in 0 .. (TIME_MOD - 1)
      BY <3>1
    <3> QED BY <3>1, <3>2
  <2>2. s \in Seq(Pcbs)
    BY QueueIdFacts
  <2>3. PICK n \in 0 .. Len(s) :
          queue' = [queue EXCEPT ![SleepQ] = InsertAt(s, n + 1, current)]
    BY <1>4 DEF Sleep
  <2>4. InsertAt(s, n + 1, current) \in Seq(Pcbs)
    <3> HIDE DEF s
    <3> QED BY <2>2, <2>3, InsertAtFacts
  <2>5. queue' \in [QueueIds -> Seq(Pcbs)]
    BY <2>3, <2>4
  <2>6. wakeKey' \in [Pcbs -> 0 .. (TIME_MOD - 1)]
    <3>1. wakeKey' = [wakeKey EXCEPT ![current] = key]
      BY <1>4 DEF Sleep
    <3> HIDE DEF key
    <3> QED BY <2>1, <3>1
  <2>7. left' \in [Pcbs -> Nat]
    BY <2>1, <1>4 DEF Sleep
  <2> QED BY <2>5, <2>6, <2>7, <1>4 DEF Sleep, pcbVars, memVars
<1>5. ASSUME NEW v, Kill(v) PROVE TypeOK'
  BY <1>5 DEF Kill, memVars
<1>6. ASSUME NEW prio \in PrioArgs, SetPriority(prio) PROVE TypeOK'
  BY <1>6, ConstantFacts DEF SetPriority, memVars
<1>7. ASSUME NEW t \in TimeArgs, SetTime(t) PROVE TypeOK'
  BY <1>7, ConstantFacts DEF SetTime, pcbVars, memVars
<1>8. CASE ReadBuffered
  <2>1. incount' \in 0 .. BUF_SIZE
    BY <1>8, ConstantFacts DEF ReadBuffered
  <2> QED BY <2>1, <1>8 DEF ReadBuffered, pcbVars, memVars
<1>9. CASE ReadBlocks
  <2>1. queue' \in [QueueIds -> Seq(Pcbs)]
    BY <1>0, <1>9, QueueTypes, QueueIdFacts DEF ReadBlocks
  <2> QED BY <2>1, <1>9 DEF ReadBlocks, memVars
<1> QED BY <1>1, <1>2, <1>3, <1>4, <1>5, <1>6, <1>7, <1>8, <1>9 DEF SystemCall

LEMMA InterruptTypeOK ==
  ASSUME TypeOK, Interrupt
  PROVE  TypeOK'
<1> USE DEF TypeOK, States, Modes
<1>1. CASE ClockTick
  <2>1. time' \in 0 .. (TIME_MOD - 1)
    BY <1>1, ConstantFacts DEF ClockTick
  <2>2. left' \in [Pcbs -> Nat]
    BY <1>1 DEF ClockTick
  <2> QED BY <2>1, <2>2, <1>1 DEF ClockTick, pcbVars, memVars
<1>2. CASE CharWakes
  <2> DEFINE p == Head(queue[ReadQ])
  <2>1. p \in Pcbs /\ queue[ReadQ] # <<>> /\ QueueTyped
    BY <1>2, QueueTypes, QueueIdFacts DEF CharWakes, QueueTyped
  <2>2. queue' = Move(ReadQ, p, ReadyQOf(p)) /\ state' = [state EXCEPT ![p] = "READY"]
    BY <1>2 DEF CharWakes
  <2> HIDE DEF p
  <2>3. queue' \in [QueueIds -> Seq(Pcbs)]
    <3>1. ReadyQOf(p) # ReadQ
      BY <2>1, QueueIdFacts DEF ReadyQOf
    <3> QED BY <3>1, <2>1, <2>2, QueueTypes, QueueIdFacts, ReadyQOfType
  <2> QED BY <2>1, <2>2, <2>3, <1>2 DEF CharWakes, memVars
<1>3. CASE CharBuffered
  <2>1. incount' \in 0 .. BUF_SIZE
    BY <1>3, ConstantFacts DEF CharBuffered
  <2> QED BY <2>1, <1>3 DEF CharBuffered, pcbVars, memVars
<1> QED BY <1>1, <1>2, <1>3 DEF Interrupt

LEMMA KernelLoopTypeOK ==
  ASSUME TypeOK, KernelLoop
  PROVE  TypeOK'
<1> USE DEF TypeOK, States, Modes
<1>0. QueueTyped /\ current \in Pcbs /\ ReadyQOf(current) \in QueueIds
  BY ReadyQOfType DEF QueueTyped
<1>1. CASE WakeSleeper
  <2> DEFINE p == Head(queue[SleepQ])
  <2>1. p \in Pcbs /\ queue[SleepQ] # <<>>
    BY <1>0, <1>1, QueueTypes, QueueIdFacts DEF WakeSleeper
  <2>2. /\ queue' = Move(SleepQ, p, ReadyQOf(p))
        /\ state' = [state EXCEPT ![p] = "READY"]
        /\ left' = [left EXCEPT ![p] = 0]
        /\ wakeKey' = [wakeKey EXCEPT ![p] = 0]
    BY <1>1 DEF WakeSleeper
  <2> HIDE DEF p
  <2>3. queue' \in [QueueIds -> Seq(Pcbs)]
    <3>1. ReadyQOf(p) # SleepQ
      BY <2>1, QueueIdFacts DEF ReadyQOf
    <3> QED BY <3>1, <2>1, <2>2, <1>0, QueueTypes, QueueIdFacts, ReadyQOfType
  <2>4. wakeKey' \in [Pcbs -> 0 .. (TIME_MOD - 1)]
    <3>1. 0 \in 0 .. (TIME_MOD - 1)
      BY ConstantFacts
    <3> QED BY <3>1, <2>1, <2>2
  <2>5. state' \in [Pcbs -> States] /\ left' \in [Pcbs -> Nat]
    BY <2>1, <2>2
  <2> QED BY <2>3, <2>4, <2>5, <1>1 DEF WakeSleeper, memVars
<1>2. CASE ClockContinue
  BY <1>2 DEF ClockContinue, memVars
<1>3. CASE ClockPreempt
  <2>1. queue' \in [QueueIds -> Seq(Pcbs)]
    BY <1>0, <1>3, QueueTypes DEF ClockPreempt
  <2> QED BY <2>1, <1>3 DEF ClockPreempt, memVars
<1>4. CASE DispatchReap
  <2>1. PICK k \in Prios :
          /\ queue[ReadyQ(k)] # <<>>
          /\ queue' = Move(ReadyQ(k), Head(queue[ReadyQ(k)]), FreeQ)
          /\ Cleanup(Head(queue[ReadyQ(k)]))
          /\ current' = Head(queue[ReadyQ(k)])
    BY <1>4 DEF DispatchReap, TopQueue
  <2> DEFINE p == Head(queue[ReadyQ(k)])
  <2>2. p \in Pcbs
    BY <2>1, <1>0, QueueTypes, QueueIdFacts
  <2> HIDE DEF p
  <2>3. queue' \in [QueueIds -> Seq(Pcbs)]
    BY <2>1, <2>2, <1>0, QueueTypes, QueueIdFacts DEF p
  <2>4. state' = [state EXCEPT ![p] = "FREE"] /\ cr3' = KernelDir
        /\ liveDirs' \subseteq Dirs /\ current' = p
    BY <2>1 DEF Cleanup, Freed, p
  <2> QED BY <2>2, <2>3, <2>4, <1>4, ConstantFacts DEF DispatchReap
<1>5. CASE DispatchRun
  <2>1. PICK k \in Prios :
          /\ queue[ReadyQ(k)] # <<>>
          /\ queue' = [queue EXCEPT ![ReadyQ(k)] = Tail(@)]
          /\ state' = [state EXCEPT ![Head(queue[ReadyQ(k)])] = "RUNNING"]
          /\ quantum' = [quantum EXCEPT ![Head(queue[ReadyQ(k)])] = STD_QUANTUM]
          /\ current' = Head(queue[ReadyQ(k)])
          /\ cr3' = pageDir[Head(queue[ReadyQ(k)])]
    BY <1>5 DEF DispatchRun, TopQueue
  <2> DEFINE p == Head(queue[ReadyQ(k)])
  <2>2. p \in Pcbs
    BY <2>1, <1>0, QueueTypes, QueueIdFacts
  <2>3. queue' \in [QueueIds -> Seq(Pcbs)]
    BY <2>1, <1>0, QueueTypes, QueueIdFacts
  <2>4. /\ state' = [state EXCEPT ![p] = "RUNNING"] /\ current' = p
        /\ quantum' = [quantum EXCEPT ![p] = STD_QUANTUM] /\ cr3' = pageDir[p]
    BY <2>1
  <2> HIDE DEF p
  <2> QED BY <2>2, <2>3, <2>4, <1>5, ConstantFacts DEF DispatchRun
<1>6. CASE DispatchPanic
  BY <1>6 DEF DispatchPanic, pcbVars, memVars
<1> QED BY <1>1, <1>2, <1>3, <1>4, <1>5, <1>6 DEF KernelLoop

(* Every variable keeps its type: in particular a process's priority is    *)
(* always one of the four ready queues, the number of unread characters    *)
(* never exceeds the buffer, and the current process is a PCB.             *)
THEOREM TypeCorrect == Spec => []TypeOK
<1>1. ASSUME TypeOK, [Next]_vars PROVE TypeOK'
  <2>1. CASE Next
    BY <1>1, <2>1, SystemCallTypeOK, InterruptTypeOK, KernelLoopTypeOK DEF Next
  <2>2. CASE UNCHANGED vars
    BY <1>1, <2>2 DEF TypeOK, vars, pcbVars, memVars
  <2> QED BY <1>1, <2>1, <2>2
<1> QED BY <1>1, InitTypeOK, PTL DEF Spec

-----------------------------------------------------------------------------
(* Where the PCBs are: what each change of the queues does to membership.  *)

(* A PCB that is in no queue is added to one, at its tail or inside.       *)
LEMMA AddPlaces ==
  ASSUME QueueTyped, AtMostOnePlace,
         NEW p \in Pcbs, NEW to \in QueueIds, \A q \in QueueIds : ~In(q, p),
         \/ queue' = Enqueue(p, to)
         \/ \E n \in 0 .. Len(queue[to]) :
              queue' = [queue EXCEPT ![to] = InsertAt(queue[to], n + 1, p)]
  PROVE  /\ AtMostOnePlace'
         /\ \A q \in QueueIds, r \in Pcbs :
              In(q, r)' <=> In(q, r) \/ (q = to /\ r = p)
<1> DEFINE s == queue[to]
<1>1. s \in Seq(Pcbs) /\ IsInjective(s) /\ ~Contains(s, p)
  BY DEF QueueTyped, AtMostOnePlace, In
<1>2. PICK t : /\ queue' = [queue EXCEPT ![to] = t]
               /\ \A r : Contains(t, r) <=> Contains(s, r) \/ r = p
               /\ IsInjective(t)
  <2>1. CASE queue' = Enqueue(p, to)
    <3> DEFINE t == Append(s, p)
    <3>1. queue' = [queue EXCEPT ![to] = t]
      BY <2>1 DEF Enqueue
    <3> HIDE DEF s
    <3>2. (\A r : Contains(t, r) <=> Contains(s, r) \/ r = p) /\ IsInjective(t)
      BY <1>1, AppendFacts
    <3> QED BY <3>1, <3>2
  <2>2. ASSUME NEW n \in 0 .. Len(s),
               queue' = [queue EXCEPT ![to] = InsertAt(s, n + 1, p)]
        PROVE  \E t : /\ queue' = [queue EXCEPT ![to] = t]
                      /\ \A r : Contains(t, r) <=> Contains(s, r) \/ r = p
                      /\ IsInjective(t)
    <3> DEFINE t == InsertAt(s, n + 1, p)
    <3> HIDE DEF s
    <3>1. (\A r : Contains(t, r) <=> Contains(s, r) \/ r = p) /\ IsInjective(t)
      BY <1>1, InsertAtFacts
    <3> QED BY <3>1, <2>2
  <2> QED BY <2>1, <2>2
<1>3. \A q \in QueueIds : queue'[q] = IF q = to THEN t ELSE queue[q]
  BY <1>2 DEF QueueTyped
<1>4. \A q \in QueueIds, r \in Pcbs : In(q, r)' <=> In(q, r) \/ (q = to /\ r = p)
  BY <1>2, <1>3 DEF In
<1>5. \A q \in QueueIds : IsInjective(queue'[q])
  BY <1>2, <1>3 DEF AtMostOnePlace
<1>6. ASSUME NEW q1 \in QueueIds, NEW q2 \in QueueIds, NEW r \in Pcbs,
             In(q1, r)', In(q2, r)'
      PROVE  q1 = q2
  BY <1>4, <1>6 DEF AtMostOnePlace
<1> QED BY <1>4, <1>5, <1>6 DEF AtMostOnePlace

(* The head of a queue is taken off.                                       *)
LEMMA TakePlaces ==
  ASSUME QueueTyped, AtMostOnePlace,
         NEW from \in QueueIds, queue[from] # <<>>,
         NEW p, p = Head(queue[from]),
         queue' = [queue EXCEPT ![from] = Tail(@)]
  PROVE  /\ p \in Pcbs /\ In(from, p)
         /\ AtMostOnePlace'
         /\ \A q \in QueueIds, r \in Pcbs : In(q, r)' <=> In(q, r) /\ r # p
<1> DEFINE s == queue[from]
<1> DEFINE t == Tail(s)
<1>1. s \in Seq(Pcbs) /\ IsInjective(s) /\ s # <<>>
  BY DEF QueueTyped, AtMostOnePlace
<1>2. \A q \in QueueIds : queue'[q] = IF q = from THEN t ELSE queue[q]
  BY DEF QueueTyped
<1>3. /\ Head(s) \in Pcbs /\ Contains(s, Head(s)) /\ IsInjective(t)
      /\ \A r : Contains(t, r) <=> Contains(s, r) /\ r # Head(s)
  <2> HIDE DEF s
  <2> QED BY <1>1, TailFacts
<1> HIDE DEF t
<1>4. p \in Pcbs /\ In(from, p)
  BY <1>3 DEF In
<1>5. ASSUME NEW q \in QueueIds, NEW r \in Pcbs
      PROVE  In(q, r)' <=> In(q, r) /\ r # p
  <2>1. CASE q = from
    BY <2>1, <1>2, <1>3 DEF In
  <2>2. CASE q # from
    <3>1. In(q, r)' <=> In(q, r)
      BY <2>2, <1>2 DEF In
    <3> QED BY <3>1, <2>2, <1>4 DEF AtMostOnePlace
  <2> QED BY <2>1, <2>2
<1>6. \A q \in QueueIds : IsInjective(queue'[q])
  BY <1>2, <1>3 DEF AtMostOnePlace
<1>7. ASSUME NEW q1 \in QueueIds, NEW q2 \in QueueIds, NEW r \in Pcbs,
             In(q1, r)', In(q2, r)'
      PROVE  q1 = q2
  BY <1>5, <1>7 DEF AtMostOnePlace
<1> QED BY <1>4, <1>5, <1>6, <1>7 DEF AtMostOnePlace

(* The head of a queue is moved to the tail of another one.                *)
LEMMA MovePlaces ==
  ASSUME QueueTyped, AtMostOnePlace,
         NEW from \in QueueIds, NEW to \in QueueIds, from # to,
         queue[from] # <<>>,
         NEW p, p = Head(queue[from]),
         queue' = Move(from, p, to)
  PROVE  /\ p \in Pcbs /\ In(from, p)
         /\ AtMostOnePlace'
         /\ \A q \in QueueIds, r \in Pcbs :
              In(q, r)' <=> (In(q, r) /\ r # p) \/ (q = to /\ r = p)
<1> DEFINE s == queue[from]
<1> DEFINE t == Tail(s)
<1> DEFINE u == queue[to]
<1> DEFINE v == Append(u, p)
<1>1. /\ s \in Seq(Pcbs) /\ IsInjective(s) /\ s # <<>>
      /\ u \in Seq(Pcbs) /\ IsInjective(u)
  BY DEF QueueTyped, AtMostOnePlace
<1>2. /\ p \in Pcbs /\ Contains(s, p) /\ IsInjective(t)
      /\ \A r : Contains(t, r) <=> Contains(s, r) /\ r # p
  <2>1. p = Head(s)
    OBVIOUS
  <2> HIDE DEF s
  <2> QED BY <1>1, <2>1, TailFacts
<1>3. In(from, p) /\ ~Contains(u, p)
  BY <1>2 DEF In, AtMostOnePlace
<1>4. (\A r : Contains(v, r) <=> Contains(u, r) \/ r = p) /\ IsInjective(v)
  <2> HIDE DEF u
  <2> QED BY <1>1, <1>2, <1>3, AppendFacts
<1>5. \A q \in QueueIds :
        queue'[q] = IF q = from THEN t ELSE IF q = to THEN v ELSE queue[q]
  BY DEF QueueTyped, Move
<1> HIDE DEF t, v
<1>6. ASSUME NEW q \in QueueIds, NEW r \in Pcbs
      PROVE  In(q, r)' <=> (In(q, r) /\ r # p) \/ (q = to /\ r = p)
  <2>1. CASE q = from
    BY <2>1, <1>2, <1>5 DEF In
  <2>2. CASE q = to
    BY <2>2, <1>3, <1>4, <1>5 DEF In
  <2>3. CASE q # from /\ q # to
    <3>1. In(q, r)' <=> In(q, r)
      BY <2>3, <1>5 DEF In
    <3> QED BY <3>1, <2>3, <1>2, <1>3 DEF AtMostOnePlace
  <2> QED BY <2>1, <2>2, <2>3
<1>7. \A q \in QueueIds : IsInjective(queue'[q])
  BY <1>2, <1>4, <1>5 DEF AtMostOnePlace
<1>8. ASSUME NEW q1 \in QueueIds, NEW q2 \in QueueIds, NEW r \in Pcbs,
             In(q1, r)', In(q2, r)'
      PROVE  q1 = q2
  BY <1>6, <1>8 DEF AtMostOnePlace
<1> QED BY <1>2, <1>3, <1>6, <1>7, <1>8 DEF AtMostOnePlace

-----------------------------------------------------------------------------
(* The invariant of the process core: TypeOK aside, its four parts are     *)
(* inductive together.  A PCB can be moved without being duplicated only   *)
(* because the current one is in no queue (CurrentPlaced); the dispatcher  *)
(* can forget the old current process only because it is queued by then.   *)
Placement == AtMostOnePlace /\ CurrentPlaced /\ NoneLost /\ FreeMeansFree

(* Where the PCBs are at the start.                                        *)
LEMMA InitPlaces ==
  ASSUME Init
  PROVE  LET taken == IF VIDEO THEN 2 ELSE 1 IN
         /\ current = 1 /\ taken \in 1 .. 2
         /\ \A q \in QueueIds : IsInjective(queue[q])
         /\ \A q \in QueueIds, p \in Pcbs :
              In(q, p) <=> \/ q = FreeQ /\ p \in (taken + 1) .. N_PCBS
                           \/ VIDEO /\ q = ReadyQ(PRIO_HIGH) /\ p = 2
<1> DEFINE taken == IF VIDEO THEN 2 ELSE 1
<1> DEFINE free == FreePcbs(taken)
<1>1. taken \in 1 .. 2 /\ N_PCBS - taken \in Nat /\ current = 1
  BY ConstantFacts DEF Init
<1>2. /\ queue[FreeQ] = free
      /\ VIDEO => queue[ReadyQ(PRIO_HIGH)] = <<2>>
      /\ \A q \in QueueIds :
           q # FreeQ /\ ~(VIDEO /\ q = ReadyQ(PRIO_HIGH)) => queue[q] = <<>>
  BY QueueIdFacts, ConstantFacts DEF Init
<1>3. \A r : Contains(free, r) <=> r \in (taken + 1) .. N_PCBS
  <2>1. Len(free) = N_PCBS - taken
    BY <1>1 DEF FreePcbs
  <2>2. ASSUME NEW r \in (taken + 1) .. N_PCBS PROVE Contains(free, r)
    <3>1. r - taken \in 1 .. Len(free) /\ free[r - taken] = r
      BY <2>1, <1>1, ConstantFacts DEF FreePcbs
    <3> QED BY <3>1 DEF Contains
  <2>3. ASSUME NEW r, Contains(free, r) PROVE r \in (taken + 1) .. N_PCBS
    <3>1. PICK i \in 1 .. Len(free) : free[i] = r
      BY <2>3 DEF Contains
    <3> QED BY <3>1, <2>1, <1>1, ConstantFacts DEF FreePcbs
  <2> QED BY <2>2, <2>3
<1>4. IsInjective(free)
  BY <1>1 DEF IsInjective, FreePcbs
<1>5. (\A r : Contains(<<2>>, r) <=> r = 2) /\ IsInjective(<<2>>)
  BY DEF Contains, IsInjective
<1>6. (\A r : ~Contains(<<>>, r)) /\ IsInjective(<<>>)
  BY DEF Contains, IsInjective
<1> HIDE DEF free
<1>7. \A q \in QueueIds, p \in Pcbs :
        In(q, p) <=> \/ q = FreeQ /\ p \in (taken + 1) .. N_PCBS
                     \/ VIDEO /\ q = ReadyQ(PRIO_HIGH) /\ p = 2
  BY <1>2, <1>3, <1>5, <1>6, QueueIdFacts, ConstantFacts DEF In
<1>8. \A q \in QueueIds : IsInjective(queue[q])
  BY <1>2, <1>4, <1>5, <1>6, QueueIdFacts, ConstantFacts
<1> QED BY <1>1, <1>7, <1>8

LEMMA InitPlacement == Init => Placement
<1> SUFFICES ASSUME Init PROVE Placement
  OBVIOUS
<1> DEFINE taken == IF VIDEO THEN 2 ELSE 1
<1>1. /\ current = 1 /\ taken \in 1 .. 2
      /\ \A q \in QueueIds : IsInjective(queue[q])
  BY InitPlaces
<1>2. \A q \in QueueIds, p \in Pcbs :
        In(q, p) <=> \/ q = FreeQ /\ p \in (taken + 1) .. N_PCBS
                     \/ VIDEO /\ q = ReadyQ(PRIO_HIGH) /\ p = 2
  BY InitPlaces
<1>3. AtMostOnePlace
  BY <1>1, <1>2 DEF AtMostOnePlace
<1>4. CurrentPlaced
  BY <1>1, <1>2, ConstantFacts DEF CurrentPlaced, Init
<1>5. NoneLost
  BY <1>1, <1>2, QueueIdFacts, ConstantFacts DEF NoneLost, Pcbs
<1>6. FreeMeansFree
  <2>1. \A p \in Pcbs : In(FreeQ, p) => state[p] = "FREE"
    BY <1>2, QueueIdFacts, ConstantFacts DEF Init
  <2>2. ASSUME NEW p \in Pcbs, NEW q \in {ReadQ} \cup ReadyQs, In(q, p)
        PROVE  state[p] # "FREE"
    <3>1. VIDEO /\ p = 2
      BY <2>2, <1>2, QueueIdFacts DEF ReadyQs
    <3> QED BY <3>1, ConstantFacts DEF Init
  <2> QED BY <2>1, <2>2 DEF FreeMeansFree
<1> QED BY <1>3, <1>4, <1>5, <1>6 DEF Placement

(* A step that moves no PCB and frees none.                                *)
LEMMA KeepPlacement ==
  ASSUME Placement, UNCHANGED <<queue, current>>,
         \/ mode' = mode
         \/ {mode, mode'} \subseteq {"user", "wake", "release"}
         \/ mode' = "panic",
         \A p \in Pcbs : state'[p] = "FREE" <=> state[p] = "FREE"
  PROVE  Placement'
<1>1. \A q, p : In(q, p)' <=> In(q, p)
  BY DEF In
<1>2. AtMostOnePlace'
  BY <1>1 DEF AtMostOnePlace, Placement
<1>3. CurrentPlaced' /\ NoneLost' /\ FreeMeansFree'
  BY <1>1 DEF CurrentPlaced, NoneLost, FreeMeansFree, Placement
<1> QED BY <1>2, <1>3 DEF Placement

(* A handler queues the current process and calls _dispatch.               *)
LEMMA QueueCurrentPlacement ==
  ASSUME TypeOK, Placement, mode \in {"user", "wake", "release"}, mode' = "dispatch",
         UNCHANGED current, NEW to \in QueueIds,
         \/ queue' = Enqueue(current, to)
         \/ \E n \in 0 .. Len(queue[to]) :
              queue' = [queue EXCEPT ![to] = InsertAt(queue[to], n + 1, current)],
         \A p \in Pcbs \ {current} : state'[p] = state[p],
         to = FreeQ => state'[current] = "FREE",
         to \in {ReadQ} \cup ReadyQs => state'[current] # "FREE"
  PROVE  Placement'
<1>1. PICK c \in Pcbs : c = current
  BY DEF TypeOK
<1>2. \A q \in QueueIds : ~In(q, c)
  BY <1>1 DEF Placement, CurrentPlaced
<1>3. /\ AtMostOnePlace'
      /\ \A q \in QueueIds, r \in Pcbs : In(q, r)' <=> In(q, r) \/ (q = to /\ r = c)
  BY <1>1, <1>2, AddPlaces DEF Placement, TypeOK, QueueTyped
<1>4. CurrentPlaced' /\ NoneLost'
  BY <1>1, <1>3 DEF CurrentPlaced, NoneLost, Placement
<1>5. FreeMeansFree'
  <2>1. ReadyQs \subseteq QueueIds /\ ReadQ \in QueueIds /\ FreeQ \in QueueIds
    BY DEF QueueIds
  <2> QED BY <2>1, <1>1, <1>2, <1>3 DEF FreeMeansFree, Placement
<1> QED BY <1>3, <1>4, <1>5 DEF Placement

(* The head of another queue becomes READY while the current process goes  *)
(* on.                                                                     *)
LEMMA MoveToReadyPlacement ==
  ASSUME TypeOK, Placement, mode \in {"user", "wake", "release"}, UNCHANGED <<mode, current>>,
         NEW from \in {FreeQ, SleepQ, ReadQ}, queue[from] # <<>>,
         NEW p, p = Head(queue[from]), NEW k \in Prios,
         queue' = Move(from, p, ReadyQ(k)),
         state' = [state EXCEPT ![p] = "READY"]
  PROVE  Placement'
<1>1. /\ from \in QueueIds /\ ReadyQ(k) \in QueueIds /\ from # ReadyQ(k)
      /\ FreeQ \in QueueIds /\ ReadQ \in QueueIds /\ FreeQ # ReadyQ(k)
  BY QueueIdFacts
<1>2. /\ p \in Pcbs /\ In(from, p) /\ AtMostOnePlace'
      /\ \A q \in QueueIds, r \in Pcbs :
           In(q, r)' <=> (In(q, r) /\ r # p) \/ (q = ReadyQ(k) /\ r = p)
  <2>1. QueueTyped /\ AtMostOnePlace
    BY DEF Placement, TypeOK, QueueTyped
  <2>2. PICK to \in QueueIds : to = ReadyQ(k)
    BY <1>1
  <2>3. from # to /\ queue' = Move(from, p, to)
    BY <1>1, <2>2
  <2>4. p \in Pcbs /\ In(from, p) /\ AtMostOnePlace'
    BY <1>1, <2>1, <2>3, MovePlaces
  <2>5. \A q \in QueueIds, r \in Pcbs :
           In(q, r)' <=> (In(q, r) /\ r # p) \/ (q = to /\ r = p)
    BY <1>1, <2>1, <2>3, MovePlaces
  <2> QED BY <2>2, <2>4, <2>5
<1>3. current \in Pcbs /\ current # p
  BY <1>1, <1>2 DEF Placement, CurrentPlaced, TypeOK
<1>4. CurrentPlaced' /\ NoneLost'
  BY <1>1, <1>2, <1>3 DEF CurrentPlaced, NoneLost, Placement
<1>5. FreeMeansFree'
  <2>1. ReadyQs \subseteq QueueIds
    BY DEF QueueIds
  <2>2. \A r \in Pcbs : state'[r] = IF r = p THEN "READY" ELSE state[r]
    BY DEF TypeOK
  <2> QED BY <2>1, <2>2, <1>1, <1>2 DEF FreeMeansFree, Placement
<1> QED BY <1>2, <1>4, <1>5 DEF Placement

LEMMA SystemCallPlacement ==
  ASSUME TypeOK, Placement, SystemCall
  PROVE  Placement'
<1>0. /\ current \in Pcbs /\ priority[current] \in Prios
      /\ ReadyQOf(current) \in QueueIds /\ ReadyQOf(current) \in ReadyQs
      /\ ReadyQOf(current) # FreeQ
  BY QueueIdFacts DEF TypeOK, ReadyQOf, ReadyQs
<1>1. CASE Fork
  <2> DEFINE new == Head(queue[FreeQ])
  <2>1. queue[FreeQ] # <<>> /\ mode = "user" /\ UNCHANGED current
    BY <1>1 DEF Fork, User
  <2>2. state[new] = "FREE"
    <3>1. new \in Pcbs /\ In(FreeQ, new)
      <4>1. queue[FreeQ] \in Seq(Pcbs) /\ IsInjective(queue[FreeQ])
        BY QueueIdFacts DEF TypeOK, Placement, AtMostOnePlace
      <4> QED BY <2>1, <4>1, TailFacts DEF In
    <3> QED BY <3>1 DEF Placement, FreeMeansFree
  <2>3. /\ queue' = Move(FreeQ, new, ReadyQ(priority[current]))
        /\ state' = [state EXCEPT ![new] = "READY"]
        /\ UNCHANGED mode
    BY <2>2, <1>1, Zenon DEF Fork, Allocatable
  <2> QED BY <2>1, <2>3, <1>0, MoveToReadyPlacement
<1>2. CASE Exit
  <2>1. /\ mode = "user" /\ mode' = "dispatch" /\ UNCHANGED current
        /\ queue' = Enqueue(current, FreeQ)
        /\ state' = [state EXCEPT ![current] = "FREE"]
    BY <1>2 DEF Exit, User, Cleanup, Freed
  <2>2. FreeQ \in QueueIds /\ FreeQ \notin {ReadQ} \cup ReadyQs
    BY QueueIdFacts DEF ReadyQs
  <2>3. /\ state'[current] = "FREE"
        /\ \A p \in Pcbs \ {current} : state'[p] = state[p]
    BY <2>1, <1>0 DEF TypeOK
  <2> QED BY <2>1, <2>2, <2>3, QueueCurrentPlacement
<1>3. CASE Yield
  <2>1. /\ mode = "user" /\ mode' = "dispatch" /\ UNCHANGED current
        /\ queue' = Enqueue(current, ReadyQOf(current))
        /\ state' = [state EXCEPT ![current] = "READY"]
    BY <1>3 DEF Yield, User
  <2>2. /\ state'[current] # "FREE"
        /\ \A p \in Pcbs \ {current} : state'[p] = state[p]
    BY <2>1, <1>0 DEF TypeOK
  <2> QED BY <2>1, <2>2, <1>0, QueueCurrentPlacement
<1>4. ASSUME NEW ms \in SleepArgs, Sleep(ms) PROVE Placement'
  <2>1. /\ mode = "user" /\ mode' = "dispatch" /\ UNCHANGED current
        /\ \E n \in 0 .. Len(queue[SleepQ]) :
             queue' = [queue EXCEPT ![SleepQ] = InsertAt(queue[SleepQ], n + 1, current)]
        /\ UNCHANGED state
    BY <1>4 DEF Sleep, User, pcbVars
  <2>2. SleepQ \in QueueIds /\ SleepQ # FreeQ /\ SleepQ \notin {ReadQ} \cup ReadyQs
    BY QueueIdFacts DEF ReadyQs
  <2> QED BY <2>1, <2>2, QueueCurrentPlacement
<1>5. ASSUME NEW pidArg, Kill(pidArg) PROVE Placement'
  <2>1. PICK v \in Pcbs : state[v] # "FREE" /\ state' = [state EXCEPT ![v] = "KILLED"]
    BY <1>5 DEF Kill
  <2>2. \A p \in Pcbs : state'[p] = "FREE" <=> state[p] = "FREE"
    BY <2>1 DEF TypeOK
  <2> QED BY <2>2, <1>5, KeepPlacement DEF Kill
<1>6. ASSUME NEW prio \in PrioArgs, SetPriority(prio) PROVE Placement'
  BY <1>6, KeepPlacement DEF SetPriority
<1>7. ASSUME NEW t \in TimeArgs, SetTime(t) PROVE Placement'
  BY <1>7, KeepPlacement DEF SetTime, pcbVars
<1>8. CASE ReadBuffered
  BY <1>8, KeepPlacement DEF ReadBuffered, pcbVars
<1>9. CASE ReadBlocks
  <2>1. /\ mode = "user" /\ mode' = "dispatch" /\ UNCHANGED current
        /\ queue' = Enqueue(current, ReadQ)
        /\ state' = [state EXCEPT ![current] = "BLOCKED"]
    BY <1>9 DEF ReadBlocks, User
  <2>2. /\ state'[current] # "FREE"
        /\ \A p \in Pcbs \ {current} : state'[p] = state[p]
    BY <2>1, <1>0 DEF TypeOK
  <2> QED BY <2>1, <2>2, QueueIdFacts, QueueCurrentPlacement
<1> QED BY <1>1, <1>2, <1>3, <1>4, <1>5, <1>6, <1>7, <1>8, <1>9 DEF SystemCall

LEMMA InterruptPlacement ==
  ASSUME TypeOK, Placement, Interrupt
  PROVE  Placement'
<1>1. CASE ClockTick
  BY <1>1, KeepPlacement DEF ClockTick, User, pcbVars
<1>2. CASE CharWakes
  <2>1. PICK p : /\ p = Head(queue[ReadQ]) /\ queue[ReadQ] # <<>>
                 /\ queue' = Move(ReadQ, p, ReadyQOf(p))
                 /\ state' = [state EXCEPT ![p] = "READY"]
    BY <1>2 DEF CharWakes
  <2>2. priority[p] \in Prios
    <3>1. p \in Pcbs
      BY <2>1, QueueTypes, QueueIdFacts DEF TypeOK, QueueTyped
    <3> QED BY <3>1 DEF TypeOK
  <2>3. mode = "user" /\ UNCHANGED <<mode, current>>
    BY <1>2 DEF CharWakes, User
  <2> QED BY <2>1, <2>2, <2>3, MoveToReadyPlacement DEF ReadyQOf
<1>3. CASE CharBuffered
  BY <1>3, KeepPlacement DEF CharBuffered, pcbVars
<1> QED BY <1>1, <1>2, <1>3 DEF Interrupt

LEMMA KernelLoopPlacement ==
  ASSUME TypeOK, Placement, KernelLoop
  PROVE  Placement'
<1>0. /\ current \in Pcbs /\ priority[current] \in Prios
      /\ QueueTyped /\ AtMostOnePlace
      /\ FreeQ \in QueueIds /\ ReadQ \in QueueIds /\ ReadyQs \subseteq QueueIds
      /\ FreeQ \notin ReadyQs /\ FreeQ # ReadQ
  BY QueueIdFacts DEF TypeOK, QueueTyped, Placement, ReadyQs
<1>1. CASE WakeSleeper
  <2>1. PICK p : /\ p = Head(queue[SleepQ]) /\ queue[SleepQ] # <<>>
                 /\ queue' = Move(SleepQ, p, ReadyQOf(p))
                 /\ state' = [state EXCEPT ![p] = "READY"]
    BY <1>1 DEF WakeSleeper
  <2>2. priority[p] \in Prios
    <3>1. p \in Pcbs
      BY <2>1, <1>0, QueueTypes, QueueIdFacts
    <3> QED BY <3>1 DEF TypeOK
  <2>3. mode = "wake" /\ UNCHANGED <<mode, current>>
    BY <1>1 DEF WakeSleeper
  <2> QED BY <2>1, <2>2, <2>3, MoveToReadyPlacement DEF ReadyQOf
<1>2. CASE ClockContinue
  BY <1>2, KeepPlacement DEF ClockContinue
<1>3. CASE ClockPreempt
  <2>1. /\ mode = "wake" /\ mode' = "dispatch" /\ UNCHANGED current
        /\ queue' = Enqueue(current, ReadyQOf(current))
        /\ state' = [state EXCEPT ![current] = "READY"]
    BY <1>3 DEF ClockPreempt
  <2>2. /\ state'[current] # "FREE"
        /\ \A p \in Pcbs \ {current} : state'[p] = state[p]
    BY <2>1, <1>0 DEF TypeOK
  <2>3. ReadyQOf(current) \in QueueIds /\ ReadyQOf(current) # FreeQ
    BY <1>0 DEF ReadyQOf, ReadyQs
  <2> QED BY <2>1, <2>2, <2>3, QueueCurrentPlacement
<1>4. CASE DispatchReap
  <2>1. PICK p : \E k \in Prios :
          /\ p = Head(queue[ReadyQ(k)]) /\ queue[ReadyQ(k)] # <<>>
          /\ queue' = Move(ReadyQ(k), p, FreeQ)
          /\ state' = [state EXCEPT ![p] = "FREE"]
          /\ current' = p
          /\ mode = "dispatch" /\ mode' = "dispatch"
    BY <1>4 DEF DispatchReap, TopQueue, Cleanup, Freed
  <2>2. PICK from \in ReadyQs : /\ queue[from] # <<>> /\ p = Head(queue[from])
                                /\ queue' = Move(from, p, FreeQ)
    BY <2>1 DEF ReadyQs
  <2>3. /\ p \in Pcbs /\ In(from, p) /\ AtMostOnePlace'
        /\ \A q \in QueueIds, r \in Pcbs :
             In(q, r)' <=> (In(q, r) /\ r # p) \/ (q = FreeQ /\ r = p)
    BY <2>1, <2>2, <1>0, MovePlaces
  <2>4. CurrentPlaced'
    BY <2>1, <2>3, <1>0 DEF CurrentPlaced
  <2>5. NoneLost'
    BY <2>1, <2>3, <1>0 DEF NoneLost, Placement, CurrentPlaced
  <2>6. FreeMeansFree'
    <3>1. \A r \in Pcbs : state'[r] = IF r = p THEN "FREE" ELSE state[r]
      BY <2>1 DEF TypeOK
    <3> QED BY <3>1, <2>3, <1>0 DEF FreeMeansFree, Placement
  <2> QED BY <2>3, <2>4, <2>5, <2>6 DEF Placement
<1>5. CASE DispatchRun
  <2>1. PICK p : \E k \in Prios :
          /\ p = Head(queue[ReadyQ(k)]) /\ queue[ReadyQ(k)] # <<>>
          /\ queue' = [queue EXCEPT ![ReadyQ(k)] = Tail(@)]
          /\ state' = [state EXCEPT ![p] = "RUNNING"]
          /\ current' = p
          /\ mode = "dispatch" /\ mode' = "user"
    BY <1>5 DEF DispatchRun, TopQueue
  <2>2. PICK from \in ReadyQs : /\ queue[from] # <<>> /\ p = Head(queue[from])
                                /\ queue' = [queue EXCEPT ![from] = Tail(@)]
    BY <2>1 DEF ReadyQs
  <2>3. /\ p \in Pcbs /\ In(from, p) /\ AtMostOnePlace'
        /\ \A q \in QueueIds, r \in Pcbs : In(q, r)' <=> In(q, r) /\ r # p
    BY <2>1, <2>2, <1>0, TakePlaces
  <2>4. CurrentPlaced'
    BY <2>1, <2>3 DEF CurrentPlaced
  <2>5. NoneLost'
    BY <2>1, <2>3, <1>0 DEF NoneLost, Placement, CurrentPlaced
  <2>6. FreeMeansFree'
    <3>1. \A r \in Pcbs : state'[r] = IF r = p THEN "RUNNING" ELSE state[r]
      BY <2>1 DEF TypeOK
    <3> QED BY <3>1, <2>3, <1>0 DEF FreeMeansFree, Placement
  <2> QED BY <2>3, <2>4, <2>5, <2>6 DEF Placement
<1>6. CASE DispatchPanic
  BY <1>6, KeepPlacement DEF DispatchPanic, pcbVars
<1> QED BY <1>1, <1>2, <1>3, <1>4, <1>5, <1>6 DEF KernelLoop

(* In every reachable state of the kernel's process core, whatever is      *)
(* killed, forked, delayed or interrupted: no PCB is in two places or      *)
(* twice in one (_q_insert, _q_remove), the current process is in a queue  *)
(* exactly while _dispatch runs, no PCB is lost, and the free queue holds  *)
(* FREE PCBs only, so _pcb_alloc never panics.                             *)
THEOREM PlacementInvariant == Spec => []Placement
<1>1. ASSUME TypeOK, Placement, [Next]_vars PROVE Placement'
  <2>1. CASE Next
    BY <1>1, <2>1, SystemCallPlacement, InterruptPlacement, KernelLoopPlacement
       DEF Next
  <2>2. CASE UNCHANGED vars
    BY <1>1, <2>2, KeepPlacement DEF vars, pcbVars
  <2> QED BY <1>1, <2>1, <2>2
<1> QED BY <1>1, InitPlacement, TypeCorrect, PTL DEF Spec

(* The four invariants of placement, one by one.                           *)
THEOREM NeverInTwoPlaces == Spec => []AtMostOnePlace
<1>1. Placement => AtMostOnePlace
  BY DEF Placement
<1> QED BY <1>1, PlacementInvariant, PTL

(* The current process is in no queue while it runs and in one while       *)
(* _dispatch looks for the next.                                           *)
THEOREM CurrentAlwaysPlaced == Spec => []CurrentPlaced
<1>1. Placement => CurrentPlaced
  BY DEF Placement
<1> QED BY <1>1, PlacementInvariant, PTL

(* No PCB is ever lost: NoneLost holds for every table size.               *)
THEOREM NoPcbLost == Spec => []NoneLost
<1>1. Placement => NoneLost
  BY DEF Placement
<1> QED BY <1>1, PlacementInvariant, PTL

(* The free queue never hands out a PCB that is in use.                    *)
THEOREM FreePcbsAreFree == Spec => []FreeMeansFree
<1>1. Placement => FreeMeansFree
  BY DEF Placement
<1> QED BY <1>1, PlacementInvariant, PTL

-----------------------------------------------------------------------------
(* A ready process waits where its priority says.                          *)

(* What each change of the queues does to the ready queues.                *)
LEMMA AddReady ==
  ASSUME TypeOK, Placement, ReadyByPriority, UNCHANGED priority,
         mode \in {"user", "wake", "release"}, NEW to \in QueueIds,
         \/ queue' = Enqueue(current, to)
         \/ \E n \in 0 .. Len(queue[to]) :
              queue' = [queue EXCEPT ![to] = InsertAt(queue[to], n + 1, current)],
         \A k \in Prios : to = ReadyQ(k) => priority[current] = k
  PROVE  ReadyByPriority'
<1>1. PICK c \in Pcbs : c = current
  BY DEF TypeOK
<1>2. \A q \in QueueIds : ~In(q, c)
  BY <1>1 DEF Placement, CurrentPlaced
<1>3. \A q \in QueueIds, r \in Pcbs : In(q, r)' <=> In(q, r) \/ (q = to /\ r = c)
  BY <1>1, <1>2, AddPlaces DEF Placement, TypeOK, QueueTyped
<1>4. \A k \in Prios : ReadyQ(k) \in QueueIds
  BY QueueIdFacts
<1> QED BY <1>1, <1>3, <1>4 DEF ReadyByPriority

LEMMA MoveReady ==
  ASSUME TypeOK, Placement, ReadyByPriority,
         NEW from \in QueueIds, NEW to \in QueueIds, from # to,
         queue[from] # <<>>, NEW p, p = Head(queue[from]),
         queue' = Move(from, p, to),
         \A r \in Pcbs \ {p} : priority'[r] = priority[r],
         \A k \in Prios : to = ReadyQ(k) => priority'[p] = k
  PROVE  ReadyByPriority'
<1>0. QueueTyped /\ AtMostOnePlace
  BY DEF Placement, TypeOK, QueueTyped
<1>1. \A q \in QueueIds, r \in Pcbs :
        In(q, r)' <=> (In(q, r) /\ r # p) \/ (q = to /\ r = p)
  BY <1>0, MovePlaces
<1>2. \A k \in Prios : ReadyQ(k) \in QueueIds
  BY QueueIdFacts
<1> QED BY <1>1, <1>2 DEF ReadyByPriority

LEMMA TakeReady ==
  ASSUME TypeOK, Placement, ReadyByPriority, UNCHANGED priority,
         NEW from \in QueueIds, queue[from] # <<>>,
         queue' = [queue EXCEPT ![from] = Tail(@)]
  PROVE  ReadyByPriority'
<1>1. PICK p : p = Head(queue[from])
  OBVIOUS
<1>0. QueueTyped /\ AtMostOnePlace
  BY DEF Placement, TypeOK, QueueTyped
<1>2. \A q \in QueueIds, r \in Pcbs : In(q, r)' <=> In(q, r) /\ r # p
  BY <1>0, <1>1, TakePlaces
<1>3. \A k \in Prios : ReadyQ(k) \in QueueIds
  BY QueueIdFacts
<1> QED BY <1>2, <1>3 DEF ReadyByPriority

(* No queue changes, nor the priority of anyone who stands in one.         *)
LEMMA KeepReady ==
  ASSUME ReadyByPriority, UNCHANGED queue,
         \A k \in Prios, p \in Pcbs : In(ReadyQ(k), p) => priority'[p] = priority[p]
  PROVE  ReadyByPriority'
<1>1. \A q, p : In(q, p)' <=> In(q, p)
  BY DEF In
<1> QED BY <1>1 DEF ReadyByPriority

LEMMA ReadyQInjective ==
  ASSUME NEW j, NEW k, ReadyQ(j) = ReadyQ(k)
  PROVE  j = k
BY DEF ReadyQ

LEMMA SystemCallReady ==
  ASSUME TypeOK, Placement, ReadyByPriority, SystemCall
  PROVE  ReadyByPriority'
<1>0. /\ current \in Pcbs /\ priority[current] \in Prios
      /\ priority \in [Pcbs -> Prios] /\ ReadyQOf(current) \in QueueIds
  BY QueueIdFacts DEF TypeOK, ReadyQOf
<1>1. CASE Fork
  <2> DEFINE new == Head(queue[FreeQ])
  <2>1. queue[FreeQ] # <<>>
    BY <1>1 DEF Fork
  <2>2. CASE Allocatable(new)
    <3>1. /\ queue' = Move(FreeQ, new, ReadyQ(priority[current]))
          /\ ForkChild(new)
      BY <2>2, <1>1, Zenon DEF Fork
    <3>2. new \in Pcbs
      BY <2>1, QueueTypes, QueueIdFacts DEF TypeOK, QueueTyped
    <3> HIDE DEF new
    <3>3. priority' = [priority EXCEPT ![new] = priority[current]]
      BY <3>1 DEF ForkChild
    <3>4. /\ \A r \in Pcbs \ {new} : priority'[r] = priority[r]
          /\ priority'[new] = priority[current]
      BY <3>2, <3>3, <1>0
    <3>5. \A k \in Prios : ReadyQ(priority[current]) = ReadyQ(k) => priority'[new] = k
      BY <3>4, ReadyQInjective
    <3>6. PICK to \in QueueIds : to = ReadyQ(priority[current])
      BY <1>0, QueueIdFacts
    <3>7. FreeQ \in QueueIds /\ FreeQ # to
      BY <3>6, <1>0, QueueIdFacts
    <3> QED BY <2>1, <3>1, <3>4, <3>5, <3>6, <3>7, MoveReady DEF new
  <2>3. CASE ~Allocatable(new)
    <3>1. queue' = [queue EXCEPT ![FreeQ] = Tail(@)] /\ UNCHANGED priority
      BY <2>3, <1>1, Zenon DEF Fork, pcbVars
    <3> QED BY <2>1, <3>1, QueueIdFacts, TakeReady
  <2> QED BY <2>2, <2>3
<1>2. CASE Exit
  <2>1. FreeQ \in QueueIds /\ \A k \in Prios : FreeQ # ReadyQ(k)
    BY QueueIdFacts
  <2> QED BY <1>2, <2>1, AddReady DEF Exit, User
<1>3. CASE Yield
  BY <1>0, <1>3, AddReady, ReadyQInjective DEF Yield, User, ReadyQOf
<1>4. ASSUME NEW ms \in SleepArgs, Sleep(ms) PROVE ReadyByPriority'
  <2>1. /\ mode = "user" /\ UNCHANGED priority
        /\ \E n \in 0 .. Len(queue[SleepQ]) :
             queue' = [queue EXCEPT ![SleepQ] = InsertAt(queue[SleepQ], n + 1, current)]
    BY <1>4 DEF Sleep, User, pcbVars
  <2>2. SleepQ \in QueueIds /\ \A k \in Prios : SleepQ # ReadyQ(k)
    BY QueueIdFacts
  <2> QED BY <2>1, <2>2, AddReady
<1>5. ASSUME NEW v, Kill(v) PROVE ReadyByPriority'
  BY <1>5, KeepReady DEF Kill
<1>6. ASSUME NEW prio \in PrioArgs, SetPriority(prio) PROVE ReadyByPriority'
  <2>1. ASSUME NEW k \in Prios, NEW p \in Pcbs, In(ReadyQ(k), p)
        PROVE  priority'[p] = priority[p]
    <3>1. p # current
      BY <1>6, <2>1, QueueIdFacts DEF SetPriority, User, Placement, CurrentPlaced
    <3> QED BY <3>1, <1>0, <1>6 DEF SetPriority
  <2> QED BY <2>1, <1>6, KeepReady DEF SetPriority
<1>7. ASSUME NEW t \in TimeArgs, SetTime(t) PROVE ReadyByPriority'
  BY <1>7, KeepReady DEF SetTime, pcbVars
<1>8. CASE ReadBuffered
  BY <1>8, KeepReady DEF ReadBuffered, pcbVars
<1>9. CASE ReadBlocks
  <2>1. ReadQ \in QueueIds /\ \A k \in Prios : ReadQ # ReadyQ(k)
    BY QueueIdFacts
  <2> QED BY <1>9, <2>1, AddReady DEF ReadBlocks, User
<1> QED BY <1>1, <1>2, <1>3, <1>4, <1>5, <1>6, <1>7, <1>8, <1>9 DEF SystemCall

(* The first of a waiting queue is scheduled.                              *)
LEMMA SchedReady ==
  ASSUME TypeOK, Placement, ReadyByPriority, UNCHANGED priority,
         NEW from \in {SleepQ, ReadQ}, queue[from] # <<>>,
         queue' = Move(from, Head(queue[from]), ReadyQOf(Head(queue[from])))
  PROVE  ReadyByPriority'
<1> DEFINE p == Head(queue[from])
<1>1. from \in QueueIds /\ p \in Pcbs
  BY QueueIdFacts, QueueTypes DEF TypeOK, QueueTyped
<1>2. PICK to \in QueueIds : to = ReadyQOf(p)
  BY <1>1, ReadyQOfType
<1>3. from # to
  BY <1>1, <1>2, QueueIdFacts DEF TypeOK, ReadyQOf
<1>4. \A k \in Prios : to = ReadyQ(k) => priority'[p] = k
  BY <1>2, ReadyQInjective DEF ReadyQOf
<1> QED BY <1>1, <1>2, <1>3, <1>4, MoveReady

LEMMA OtherStepReady ==
  ASSUME TypeOK, Placement, ReadyByPriority, Interrupt \/ KernelLoop
  PROVE  ReadyByPriority'
<1>0. /\ current \in Pcbs /\ ReadyQOf(current) \in QueueIds
      /\ FreeQ \in QueueIds /\ \A k \in Prios : ReadyQ(k) \in QueueIds /\ FreeQ # ReadyQ(k)
  BY QueueIdFacts, ReadyQOfType DEF TypeOK
<1>1. CASE ClockTick
  BY <1>1, KeepReady DEF ClockTick, pcbVars
<1>2. CASE CharWakes
  BY <1>2, SchedReady DEF CharWakes
<1>3. CASE CharBuffered
  BY <1>3, KeepReady DEF CharBuffered, pcbVars
<1>4. CASE WakeSleeper
  BY <1>4, SchedReady DEF WakeSleeper
<1>5. CASE ClockContinue
  BY <1>5, KeepReady DEF ClockContinue
<1>6. CASE ClockPreempt
  BY <1>0, <1>6, AddReady, ReadyQInjective DEF ClockPreempt, ReadyQOf
<1>7. CASE DispatchReap
  <2>1. PICK k \in Prios :
          /\ queue[ReadyQ(k)] # <<>>
          /\ queue' = Move(ReadyQ(k), Head(queue[ReadyQ(k)]), FreeQ)
          /\ UNCHANGED priority
    BY <1>7 DEF DispatchReap, TopQueue
  <2> QED BY <2>1, <1>0, MoveReady
<1>8. CASE DispatchRun
  <2>1. PICK k \in Prios : /\ queue[ReadyQ(k)] # <<>>
                           /\ queue' = [queue EXCEPT ![ReadyQ(k)] = Tail(@)]
                           /\ UNCHANGED priority
    BY <1>8 DEF DispatchRun, TopQueue
  <2> QED BY <2>1, <1>0, TakeReady
<1>9. CASE DispatchPanic
  BY <1>9, KeepReady DEF DispatchPanic, pcbVars
<1> QED BY <1>1, <1>2, <1>3, <1>4, <1>5, <1>6, <1>7, <1>8, <1>9
       DEF Interrupt, KernelLoop

(* Every ready process waits in the queue of its own priority, for every   *)
(* table and whatever priorities the processes choose.                     *)
THEOREM ReadyAlwaysByPriority == Spec => []ReadyByPriority
<1>1. Init => ReadyByPriority
  <2> SUFFICES ASSUME Init, NEW k \in Prios, NEW p \in Pcbs, In(ReadyQ(k), p)
               PROVE  priority[p] = k
    BY DEF ReadyByPriority
  <2>1. queue[ReadyQ(k)] = IF k = PRIO_HIGH /\ VIDEO THEN <<2>> ELSE <<>>
    BY QueueIdFacts DEF Init, ReadyQ
  <2>2. k = PRIO_HIGH
    BY <2>1 DEF In, Contains
  <2> QED BY <2>2 DEF Init
<1>2. ASSUME TypeOK, Placement, ReadyByPriority, [Next]_vars PROVE ReadyByPriority'
  <2>1. CASE Next
    BY <1>2, <2>1, SystemCallReady, OtherStepReady DEF Next
  <2>2. CASE UNCHANGED vars
    BY <1>2, <2>2, KeepReady DEF vars, pcbVars
  <2> QED BY <1>2, <2>1, <2>2
<1> QED BY <1>1, <1>2, TypeCorrect, PlacementInvariant, PTL DEF Spec

(* The PCB table and the queues always agree: ProcessSound, for every      *)
(* number of PCBs, every clock and every use of the system calls.          *)
THEOREM ProcessAlwaysSound == Spec => []ProcessSound
<1>1. TypeOK /\ Placement /\ ReadyByPriority => ProcessSound
  BY DEF ProcessSound, Placement
<1> QED BY <1>1, TypeCorrect, PlacementInvariant, ReadyAlwaysByPriority, PTL

-----------------------------------------------------------------------------
(* Whom the dispatcher picks.                                              *)

LEMMA HeadIsIn ==
  ASSUME TypeOK, AtMostOnePlace, NEW q \in QueueIds, queue[q] # <<>>
  PROVE  Head(queue[q]) \in Pcbs /\ In(q, Head(queue[q]))
<1>1. queue[q] \in Seq(Pcbs) /\ IsInjective(queue[q])
  BY DEF TypeOK, AtMostOnePlace
<1> QED BY <1>1, TailFacts DEF In

LEMMA NextIsHighest ==
  ASSUME TypeOK, Placement, ReadyByPriority, Next, mode = "dispatch", mode' = "user",
         NEW k \in Prios, NEW p \in Pcbs, In(ReadyQ(k), p)'
  PROVE  k >= priority'[current']
<1>1. DispatchRun
  BY DEF Next, SystemCall, Interrupt, KernelLoop, Fork, Exit, Yield, Sleep, Kill,
         SetPriority, SetTime, ReadBuffered, ReadBlocks, ClockTick, CharWakes,
         CharBuffered, WakeSleeper, ClockContinue, ClockPreempt, DispatchReap,
         DispatchPanic, User
<1>2. PICK j \in Prios : /\ queue[ReadyQ(j)] # <<>>
                         /\ \A i \in Prios : i < j => queue[ReadyQ(i)] = <<>>
                         /\ queue' = [queue EXCEPT ![ReadyQ(j)] = Tail(@)]
                         /\ current' = Head(queue[ReadyQ(j)])
                         /\ UNCHANGED priority
  BY <1>1 DEF DispatchRun, TopQueue
<1>3. current' \in Pcbs /\ priority[current'] = j
  BY <1>2, HeadIsIn, QueueIdFacts DEF Placement, ReadyByPriority
<1>4. ASSUME k < j PROVE FALSE
  <2>0. k # j
    BY <1>4 DEF Prios, N_PRIOS
  <2>1. ReadyQ(k) # ReadyQ(j) /\ ReadyQ(k) \in QueueIds
    BY <2>0, ReadyQInjective, QueueIdFacts
  <2>2. queue'[ReadyQ(k)] = <<>>
    BY <2>1, <1>2, <1>4 DEF TypeOK
  <2> QED BY <2>2 DEF In, Contains
<1> QED BY <1>2, <1>3, <1>4 DEF Prios, N_PRIOS

LEMMA KilledStaysKilled ==
  ASSUME TypeOK, Placement, Next, NEW p \in Pcbs, state[p] = "KILLED",
         NEW k \in Prios, In(ReadyQ(k), p)
  PROVE  state'[p] \in {"KILLED", "FREE"}
<1>0. /\ state \in [Pcbs -> States] /\ current \in Pcbs /\ ReadyQ(k) \in QueueIds
      /\ mode \in {"user", "wake"} => p # current
  BY QueueIdFacts DEF TypeOK, Placement, CurrentPlaced
<1>1. \A q \in {FreeQ, SleepQ, ReadQ} : queue[q] # <<>> =>
        Head(queue[q]) \in Pcbs /\ Head(queue[q]) # p
  BY HeadIsIn, QueueIdFacts DEF Placement, AtMostOnePlace
<1>2. CASE Fork
  <2> DEFINE new == Head(queue[FreeQ])
  <2>1. state' = state \/ state' = [state EXCEPT ![new] = "READY"]
    BY <1>2, Zenon DEF Fork, pcbVars
  <2>2. new \in Pcbs /\ new # p
    BY <1>1, <1>2 DEF Fork
  <2> HIDE DEF new
  <2> QED BY <2>1, <2>2, <1>0
<1>3. CASE Exit
  BY <1>0, <1>3 DEF Exit, Cleanup, Freed
<1>4. CASE Yield
  BY <1>0, <1>4 DEF Yield, User
<1>5. CASE ReadBlocks
  BY <1>0, <1>5 DEF ReadBlocks, User
<1>6. ASSUME NEW v, Kill(v) PROVE state'[p] \in {"KILLED", "FREE"}
  BY <1>0, <1>6 DEF Kill
<1>7. CASE CharWakes
  BY <1>0, <1>1, <1>7 DEF CharWakes
<1>8. CASE WakeSleeper
  BY <1>0, <1>1, <1>8 DEF WakeSleeper
<1>9. CASE ClockPreempt
  BY <1>0, <1>9 DEF ClockPreempt
<1>10. CASE DispatchReap
  BY <1>0, <1>10 DEF DispatchReap, Cleanup, Freed
<1>11. CASE DispatchRun
  <2>1. PICK h : state[h] # "KILLED" /\ state' = [state EXCEPT ![h] = "RUNNING"]
    BY <1>11 DEF DispatchRun, Killed
  <2> QED BY <2>1, <1>0
<1>12. CASE UNCHANGED state
  BY <1>12
<1> QED BY <1>2, <1>3, <1>4, <1>5, <1>6, <1>7, <1>8, <1>9, <1>10, <1>11, <1>12
       DEF Next, SystemCall, Interrupt, KernelLoop, Sleep, SetPriority, SetTime,
           ReadBuffered, ClockTick, CharBuffered, ClockContinue, DispatchPanic,
           pcbVars

(* _dispatch always picks a process of the highest priority that has one,  *)
(* and whoever is killed while ready never runs again.                     *)
THEOREM DispatchAlwaysSound == Spec => DispatchSound
<1>1. TypeOK /\ Placement /\ ReadyByPriority /\ [Next]_vars =>
        [mode = "dispatch" /\ mode' = "user" =>
           \A k \in Prios, p \in Pcbs :
             In(ReadyQ(k), p)' => k >= priority'[current']]_vars
  BY NextIsHighest
<1>2. TypeOK /\ Placement /\ [Next]_vars =>
        [\A p \in Pcbs :
           state[p] = "KILLED" /\ (\E k \in Prios : In(ReadyQ(k), p)) =>
             state'[p] \in {"KILLED", "FREE"}]_vars
  BY KilledStaysKilled
<1> QED BY <1>1, <1>2, TypeCorrect, PlacementInvariant, ReadyAlwaysByPriority, PTL
       DEF Spec, DispatchSound, HighestPriorityRuns, KilledWhenReadyIsFinal

-----------------------------------------------------------------------------
(* Pids and readers.                                                       *)

(* The processes in the free queue only become more, those that read only  *)
(* fewer.                                                                  *)
FreeGrows   == \A p \in Pcbs : In(FreeQ, p) => In(FreeQ, p)'
ReadShrinks == \A p \in Pcbs : In(ReadQ, p)' => In(ReadQ, p)

LEMMA AddMembers ==
  ASSUME TypeOK, Placement, mode \in {"user", "wake"}, NEW to \in QueueIds,
         \/ queue' = Enqueue(current, to)
         \/ \E n \in 0 .. Len(queue[to]) :
              queue' = [queue EXCEPT ![to] = InsertAt(queue[to], n + 1, current)]
  PROVE  FreeGrows /\ (to # ReadQ => ReadShrinks)
<1>1. PICK c \in Pcbs : c = current
  BY DEF TypeOK
<1>2. \A q \in QueueIds : ~In(q, c)
  BY <1>1 DEF Placement, CurrentPlaced
<1>3. QueueTyped /\ AtMostOnePlace
  BY DEF TypeOK, Placement, QueueTyped
<1>4. \A q \in QueueIds, r \in Pcbs : In(q, r)' <=> In(q, r) \/ (q = to /\ r = c)
  BY <1>1, <1>2, <1>3, AddPlaces
<1> QED BY <1>4, QueueIdFacts DEF FreeGrows, ReadShrinks

LEMMA MoveMembers ==
  ASSUME TypeOK, Placement, NEW from \in QueueIds, NEW to \in QueueIds, from # to,
         queue[from] # <<>>, queue' = Move(from, Head(queue[from]), to)
  PROVE  /\ from # FreeQ => FreeGrows
         /\ to # ReadQ => ReadShrinks
         /\ from = FreeQ => \A r \in Pcbs :
              In(FreeQ, r)' <=> In(FreeQ, r) /\ r # Head(queue[FreeQ])
<1>1. PICK p : p = Head(queue[from])
  OBVIOUS
<1>2. QueueTyped /\ AtMostOnePlace
  BY DEF TypeOK, Placement, QueueTyped
<1>3. /\ p \in Pcbs /\ In(from, p)
      /\ \A q \in QueueIds, r \in Pcbs :
           In(q, r)' <=> (In(q, r) /\ r # p) \/ (q = to /\ r = p)
  BY <1>1, <1>2, MovePlaces
<1>4. ReadShrinks \/ to = ReadQ
  BY <1>3, QueueIdFacts DEF ReadShrinks
<1>5. ASSUME from # FreeQ PROVE FreeGrows
  <2>1. ~In(FreeQ, p)
    BY <1>2, <1>3, <1>5, QueueIdFacts DEF AtMostOnePlace
  <2> QED BY <2>1, <1>3, QueueIdFacts DEF FreeGrows
<1>6. ASSUME from = FreeQ
      PROVE  \A r \in Pcbs : In(FreeQ, r)' <=> In(FreeQ, r) /\ r # p
  BY <1>3, <1>6, QueueIdFacts
<1> QED BY <1>1, <1>4, <1>5, <1>6

(* fork() takes a PCB from the free queue and gives it the next pid.       *)
ForkTakes ==
  LET new == Head(queue[FreeQ]) IN
  /\ new \in Pcbs
  /\ \A r \in Pcbs : In(FreeQ, r)' <=> In(FreeQ, r) /\ r # new
  /\ pid' = [pid EXCEPT ![new] = nextPid] /\ nextPid' = nextPid + 1
  /\ ReadShrinks /\ UNCHANGED incount

LEMMA ForkMembers ==
  ASSUME TypeOK, Placement, Fork
  PROVE  ForkTakes
<1> DEFINE new == Head(queue[FreeQ])
<1>1. queue[FreeQ] # <<>> /\ UNCHANGED incount
  BY DEF Fork
<1>2. new \in Pcbs /\ In(FreeQ, new)
  BY <1>1, HeadIsIn, QueueIdFacts DEF Placement
<1>3. Allocatable(new)
  BY <1>2 DEF Placement, FreeMeansFree, Allocatable
<1>4. queue' = Move(FreeQ, new, ReadyQ(priority[current])) /\ ForkChild(new)
  BY <1>3, Zenon DEF Fork
<1>5. PICK to \in QueueIds : to = ReadyQ(priority[current]) /\ to # FreeQ /\ to # ReadQ
  BY QueueIdFacts DEF TypeOK
<1>6. /\ ReadShrinks
      /\ \A r \in Pcbs : In(FreeQ, r)' <=> In(FreeQ, r) /\ r # new
  BY <1>1, <1>4, <1>5, QueueIdFacts, MoveMembers
<1> QED BY <1>1, <1>2, <1>4, <1>6 DEF ForkChild, ForkTakes

(* A PCB leaves the free queue only by fork(), and enters the queue of     *)
(* readers only by read().                                                 *)
LEMMA Memberships ==
  ASSUME TypeOK, Placement, Next
  PROVE  \/ ForkTakes
         \/ /\ FreeGrows /\ UNCHANGED <<pid, nextPid>>
            /\ ReadBlocks \/ ReadShrinks
<1>0. /\ current \in Pcbs /\ ReadyQOf(current) \in QueueIds
      /\ \A p \in Pcbs : ReadyQOf(p) \in QueueIds /\ ReadyQOf(p) \notin {FreeQ, SleepQ, ReadQ}
  BY QueueIdFacts DEF TypeOK, ReadyQOf
<1>1. CASE UNCHANGED queue /\ UNCHANGED <<pid, nextPid>>
  BY <1>1 DEF FreeGrows, ReadShrinks, In
<1>2. CASE Fork
  BY <1>2, ForkMembers
<1>3. CASE Exit
  BY <1>3, AddMembers, QueueIdFacts DEF Exit, User
<1>4. CASE Yield
  BY <1>0, <1>4, AddMembers DEF Yield, User
<1>5. ASSUME NEW ms \in SleepArgs, Sleep(ms)
      PROVE  FreeGrows /\ ReadShrinks /\ UNCHANGED <<pid, nextPid>>
  <2>1. /\ mode = "user" /\ UNCHANGED <<pid, nextPid>>
        /\ \E n \in 0 .. Len(queue[SleepQ]) :
             queue' = [queue EXCEPT ![SleepQ] = InsertAt(queue[SleepQ], n + 1, current)]
    BY <1>5 DEF Sleep, User, pcbVars
  <2> QED BY <2>1, AddMembers, QueueIdFacts
<1>6. CASE ReadBlocks
  BY <1>6, AddMembers, QueueIdFacts DEF ReadBlocks, User
<1>7. ASSUME NEW from \in {SleepQ, ReadQ}, queue[from] # <<>>,
             queue' = Move(from, Head(queue[from]), ReadyQOf(Head(queue[from])))
      PROVE  FreeGrows /\ ReadShrinks
  <2>1. from \in QueueIds /\ from # FreeQ
    BY QueueIdFacts
  <2>2. Head(queue[from]) \in Pcbs
    BY <2>1, <1>7, HeadIsIn DEF Placement
  <2> QED BY <2>1, <2>2, <1>0, <1>7, MoveMembers
<1>8. CASE CharWakes
  BY <1>7, <1>8 DEF CharWakes
<1>9. CASE WakeSleeper
  BY <1>7, <1>9 DEF WakeSleeper
<1>10. CASE ClockPreempt
  BY <1>0, <1>10, AddMembers DEF ClockPreempt
<1>11. CASE DispatchReap
  <2>1. PICK k \in Prios : /\ queue[ReadyQ(k)] # <<>>
                           /\ queue' = Move(ReadyQ(k), Head(queue[ReadyQ(k)]), FreeQ)
                           /\ UNCHANGED <<pid, nextPid>>
    BY <1>11 DEF DispatchReap, TopQueue
  <2> QED BY <2>1, QueueIdFacts, MoveMembers
<1>12. CASE DispatchRun
  <2>1. PICK k \in Prios : /\ queue' = [queue EXCEPT ![ReadyQ(k)] = Tail(@)]
                           /\ UNCHANGED <<pid, nextPid>>
    BY <1>12 DEF DispatchRun
  <2>2. queue'[FreeQ] = queue[FreeQ] /\ queue'[ReadQ] = queue[ReadQ]
    BY <2>1, QueueIdFacts DEF TypeOK
  <2> QED BY <2>1, <2>2 DEF FreeGrows, ReadShrinks, In
<1>13. \/ Fork \/ Exit \/ Yield \/ (\E ms \in SleepArgs : Sleep(ms)) \/ ReadBlocks
       \/ CharWakes \/ WakeSleeper \/ ClockPreempt \/ DispatchReap \/ DispatchRun
       \/ UNCHANGED queue /\ UNCHANGED <<pid, nextPid>>
  BY DEF Next, SystemCall, Interrupt, KernelLoop, Kill, SetPriority, SetTime,
         ReadBuffered, ClockTick, CharBuffered, ClockContinue, DispatchPanic, pcbVars
<1> QED BY <1>1, <1>2, <1>3, <1>4, <1>5, <1>6, <1>8, <1>9, <1>10, <1>11, <1>12, <1>13

(* No two processes that are alive ever have the same pid, and the next    *)
(* pid is new, for every table size (below the wrap of the 16-bit counter, *)
(* which the model's pid, a natural number, does not have).                *)
THEOREM PidsAlwaysUnique == Spec => []PidsUnique
<1>1. Init => PidsUnique
  <2> SUFFICES ASSUME Init PROVE PidsUnique
    OBVIOUS
  <2> DEFINE taken == IF VIDEO THEN 2 ELSE 1
  <2>1. taken \in 1 .. 2 /\ \A p \in Pcbs : InUse(p) => p \notin (taken + 1) .. N_PCBS
    BY InitPlaces, QueueIdFacts DEF InUse
  <2>2. \A p \in Pcbs : InUse(p) => p \in 1 .. taken
    BY <2>1, ConstantFacts DEF Pcbs
  <2>3. nextPid = taken + 1 /\ \A p \in Pcbs : p \in 1 .. taken => pid[p] = p
    BY DEF Init
  <2> QED BY <2>1, <2>2, <2>3 DEF PidsUnique
<1>2. ASSUME TypeOK, Placement, PidsUnique, [Next]_vars PROVE PidsUnique'
  <2>1. CASE ForkTakes
    <3> DEFINE new == Head(queue[FreeQ])
    <3>1. /\ new \in Pcbs /\ pid \in [Pcbs -> Nat] /\ nextPid \in Nat
          /\ pid' = [pid EXCEPT ![new] = nextPid] /\ nextPid' = nextPid + 1
          /\ \A r \in Pcbs : In(FreeQ, r)' <=> In(FreeQ, r) /\ r # new
      BY <1>2, <2>1 DEF ForkTakes, TypeOK
    <3> HIDE DEF new
    <3>2. \A r \in Pcbs : InUse(r)' => r = new \/ InUse(r)
      BY <3>1 DEF InUse
    <3>3. /\ pid'[new] = nextPid
          /\ \A r \in Pcbs : r # new => pid'[r] = pid[r]
      BY <3>1
    <3>4. /\ \A r \in Pcbs : InUse(r) => pid[r] \in Nat /\ pid[r] < nextPid
          /\ \A p, q \in Pcbs : InUse(p) /\ InUse(q) /\ pid[p] = pid[q] => p = q
      BY <1>2, <3>1 DEF PidsUnique
    <3>5. \A r \in Pcbs : InUse(r)' => pid'[r] < nextPid'
      BY <3>1, <3>2, <3>3, <3>4
    <3>6. ASSUME NEW p \in Pcbs, NEW q \in Pcbs, InUse(p)', InUse(q)', pid'[p] = pid'[q]
          PROVE  p = q
      BY <3>1, <3>2, <3>3, <3>4, <3>6
    <3> QED BY <3>5, <3>6 DEF PidsUnique
  <2>2. CASE FreeGrows /\ UNCHANGED <<pid, nextPid>>
    BY <1>2, <2>2 DEF PidsUnique, FreeGrows, InUse
  <2>3. CASE UNCHANGED vars
    BY <1>2, <2>3 DEF PidsUnique, InUse, In, vars, pcbVars
  <2> QED BY <1>2, <2>1, <2>2, <2>3, Memberships
<1> QED BY <1>1, <1>2, TypeCorrect, PlacementInvariant, PTL DEF Spec

(* A process that waits for input never waits beside a character, for      *)
(* every size of the buffer.                                               *)
THEOREM ReaderNeverHasInput == Spec => []ReaderHasNoInput
<1>1. Init => ReaderHasNoInput
  BY DEF Init, ReaderHasNoInput
<1>2. ASSUME TypeOK, Placement, ReaderHasNoInput, [Next]_vars PROVE ReaderHasNoInput'
  <2>1. CASE ReadBlocks
    BY <2>1 DEF ReadBlocks, InputEmpty, ReaderHasNoInput
  <2>2. CASE CharBuffered
    BY <2>2 DEF CharBuffered, ReaderHasNoInput, In, Contains
  <2>3. CASE ReadBuffered
    BY <1>2, <2>3 DEF ReadBuffered, ReaderHasNoInput, In
  <2>4. CASE UNCHANGED incount /\ ReadShrinks
    BY <1>2, <2>4 DEF ReadShrinks, ReaderHasNoInput
  <2>5. CASE UNCHANGED vars
    BY <1>2, <2>5 DEF ReaderHasNoInput, In, vars
  <2>6. Next => ReadBuffered \/ CharBuffered \/ UNCHANGED incount
    BY DEF Next, SystemCall, Interrupt, KernelLoop, Fork, Exit, Yield, Sleep, Kill,
           SetPriority, SetTime, ReadBlocks, ClockTick, CharWakes, WakeSleeper,
           ClockContinue, ClockPreempt, DispatchReap, DispatchRun, DispatchPanic
  <2> QED BY <1>2, <2>1, <2>2, <2>3, <2>4, <2>5, <2>6, Memberships DEF ForkTakes
<1> QED BY <1>1, <1>2, TypeCorrect, PlacementInvariant, PTL DEF Spec

-----------------------------------------------------------------------------
(* Page directories, as long as nobody is killed.                          *)

NobodyKilled == \A p \in Pcbs : state[p] # "KILLED"

\* What is inductive about DirectoriesOwned.
DirectoriesInv ==
  /\ NobodyKilled
  /\ DirectoriesOwned
  /\ mode = "wake" => cr3 = pageDir[current]

LEMMA NoKillNobodyKilled ==
  ASSUME KillArgs = {}, TypeOK, NobodyKilled, Next
  PROVE  NobodyKilled'
<1>1. \/ UNCHANGED state
      \/ \E p, s : s # "KILLED" /\ state' = [state EXCEPT ![p] = s]
  BY DEF Next, SystemCall, Interrupt, KernelLoop, Fork, Exit, Yield, Sleep,
         SetPriority, SetTime, ReadBuffered, ReadBlocks, ClockTick, CharWakes,
         CharBuffered, WakeSleeper, ClockContinue, ClockPreempt, DispatchReap,
         DispatchRun, DispatchPanic, Cleanup, Freed, pcbVars
<1>2. state \in [Pcbs -> States]
  BY DEF TypeOK
<1> QED BY <1>1, <1>2 DEF NobodyKilled

(* Only fork() and _cleanup touch the free queue.                          *)
LEMMA FreeQKept ==
  ASSUME TypeOK, Placement, Next, ~Fork, ~Exit, ~DispatchReap
  PROVE  queue'[FreeQ] = queue[FreeQ]
<1>0. /\ queue \in [QueueIds -> Seq(Pcbs)] /\ FreeQ \in QueueIds
      /\ FreeQ # SleepQ /\ FreeQ # ReadQ /\ SleepQ \in QueueIds /\ ReadQ \in QueueIds
      /\ \A k \in Prios : FreeQ # ReadyQ(k)
      /\ \A p \in Pcbs : FreeQ # ReadyQOf(p)
      /\ current \in Pcbs
  BY QueueIdFacts DEF TypeOK, ReadyQOf
<1>1. CASE UNCHANGED queue
  BY <1>1
<1>2. CASE Yield
  BY <1>2, <1>0 DEF Yield, Enqueue
<1>3. ASSUME NEW ms \in SleepArgs, Sleep(ms) PROVE queue'[FreeQ] = queue[FreeQ]
  <2>1. \E s : queue' = [queue EXCEPT ![SleepQ] = s]
    BY <1>3 DEF Sleep
  <2> QED BY <2>1, <1>0
<1>4. CASE ReadBlocks
  BY <1>4, <1>0 DEF ReadBlocks, Enqueue
<1>5. ASSUME NEW from \in {SleepQ, ReadQ}, queue[from] # <<>>,
             queue' = Move(from, Head(queue[from]), ReadyQOf(Head(queue[from])))
      PROVE  queue'[FreeQ] = queue[FreeQ]
  <2>1. Head(queue[from]) \in Pcbs
    BY <1>0, <1>5, HeadIsIn DEF Placement
  <2> QED BY <2>1, <1>0, <1>5 DEF Move
<1>6. CASE CharWakes \/ WakeSleeper
  BY <1>5, <1>6 DEF CharWakes, WakeSleeper
<1>7. CASE ClockPreempt
  BY <1>7, <1>0 DEF ClockPreempt, Enqueue
<1>8. CASE DispatchRun
  <2>1. PICK k \in Prios : queue' = [queue EXCEPT ![ReadyQ(k)] = Tail(@)]
    BY <1>8 DEF DispatchRun
  <2> QED BY <2>1, <1>0
<1>9. \/ Yield \/ (\E ms \in SleepArgs : Sleep(ms)) \/ ReadBlocks \/ CharWakes
      \/ WakeSleeper \/ ClockPreempt \/ DispatchRun \/ UNCHANGED queue
  BY DEF Next, SystemCall, Interrupt, KernelLoop, Kill, SetPriority, SetTime,
         ReadBuffered, ClockTick, CharBuffered, ClockContinue, DispatchPanic, pcbVars
<1> QED BY <1>1, <1>2, <1>3, <1>4, <1>6, <1>7, <1>8, <1>9

(* The parts of DirectoriesOwned, for the processes in use.                *)
OwnDirs(used, ids, dirs) ==
  \A p, q \in used : dirs[p] = dirs[q] =>
    p = q \/ (VIDEO /\ {ids[p], ids[q]} = {PID_INIT, PID_INIT + 1})

LEMMA DirectoriesParts ==
  DirectoriesOwned <=>
    /\ OwnDirs({p \in Pcbs : InUse(p)}, pid, pageDir)
    /\ User => cr3 = pageDir[current]
    /\ liveDirs = {KernelDir} \cup {pageDir[p] : p \in {x \in Pcbs : InUse(x)}}
    /\ \A p \in {x \in Pcbs : InUse(x)} : pageDir[p] # KernelDir
BY DEF DirectoriesOwned, OwnDirs

LEMMA DirectoriesInit ==
  ASSUME KernelDir # InitDir, Init
  PROVE  DirectoriesInv
<1> DEFINE taken == IF VIDEO THEN 2 ELSE 1
<1> DEFINE used == {p \in Pcbs : InUse(p)}
<1>1. taken \in 1 .. 2 /\ \A p \in Pcbs : InUse(p) => p \notin (taken + 1) .. N_PCBS
  BY InitPlaces, QueueIdFacts DEF InUse
<1>2. \A p \in used : p \in 1 .. taken
  BY <1>1, ConstantFacts DEF Pcbs
<1>3. \A p \in Pcbs : p \in 1 .. taken => pid[p] = p /\ pageDir[p] = InitDir
  BY DEF Init
<1>4. 1 \in used /\ current = 1 /\ cr3 = InitDir /\ liveDirs = {KernelDir, InitDir} /\ User
  <2>1. current = 1 /\ cr3 = InitDir /\ liveDirs = {KernelDir, InitDir} /\ User
    BY DEF Init, User
  <2>2. 1 \in Pcbs /\ \A q \in QueueIds : ~In(q, 1)
    BY <2>1, InitPlacement, ConstantFacts DEF Placement, CurrentPlaced, User, Pcbs
  <2> QED BY <2>1, <2>2, QueueIdFacts DEF InUse
<1>5. OwnDirs(used, pid, pageDir)
  <2> SUFFICES ASSUME NEW p \in used, NEW q \in used, p # q
               PROVE  VIDEO /\ {pid[p], pid[q]} = {PID_INIT, PID_INIT + 1}
    BY DEF OwnDirs
  <2>1. p \in 1 .. taken /\ q \in 1 .. taken /\ pid[p] = p /\ pid[q] = q
    BY <1>2, <1>3
  <2>2. VIDEO /\ ((p = 1 /\ q = 2) \/ (p = 2 /\ q = 1))
    BY <2>1
  <2> QED BY <2>1, <2>2 DEF PID_INIT
<1>6. \A p \in used : pageDir[p] = InitDir
  BY <1>2, <1>3
<1> HIDE DEF used
<1>7. liveDirs = {KernelDir} \cup {pageDir[p] : p \in used}
  <2>1. {pageDir[p] : p \in used} = {InitDir}
    BY <1>4, <1>6
  <2> QED BY <2>1, <1>4
<1>8. DirectoriesOwned
  BY <1>4, <1>5, <1>6, <1>7, DirectoriesParts DEF used
<1>9. NobodyKilled
  BY DEF Init, NobodyKilled
<1> QED BY <1>4, <1>8, <1>9 DEF DirectoriesInv, User

LEMMA ForkDirectories ==
  ASSUME TypeOK, Placement, DirectoriesOwned, Fork
  PROVE  DirectoriesOwned'
<1> DEFINE used == {p \in Pcbs : InUse(p)}
<1>1. PICK new \in Pcbs : /\ new = Head(queue[FreeQ]) /\ In(FreeQ, new)
                          /\ \A r \in Pcbs : In(FreeQ, r)' <=> In(FreeQ, r) /\ r # new
                          /\ pid' = [pid EXCEPT ![new] = nextPid]
  BY ForkMembers, HeadIsIn, QueueIdFacts DEF ForkTakes, Fork, Placement
<1>2. Allocatable(new)
  BY <1>1 DEF Placement, FreeMeansFree, Allocatable
<1>3. ForkChild(new) /\ cr3' = pageDir[current] /\ UNCHANGED <<mode, current>>
  BY <1>1, <1>2, Zenon DEF Fork
<1>4. PICK d \in Dirs \ liveDirs : /\ pageDir' = [pageDir EXCEPT ![new] = d]
                                   /\ liveDirs' = liveDirs \cup {d}
  BY <1>3 DEF ForkChild
<1>5. /\ current \in Pcbs /\ current # new /\ new \notin used
      /\ pageDir \in [Pcbs -> Dirs] /\ pid \in [Pcbs -> Nat]
  BY <1>1, <1>3, QueueIdFacts DEF TypeOK, Placement, CurrentPlaced, Fork, User, InUse
<1>6. {p \in Pcbs : InUse(p)'} = used \cup {new}
  BY <1>1 DEF InUse
<1>7. /\ pageDir'[new] = d
      /\ \A p \in used : pageDir'[p] = pageDir[p] /\ pid'[p] = pid[p] /\ p \in Pcbs
  BY <1>1, <1>4, <1>5
<1>8. /\ OwnDirs(used, pid, pageDir)
      /\ liveDirs = {KernelDir} \cup {pageDir[p] : p \in used}
      /\ \A p \in used : pageDir[p] # KernelDir
  BY DirectoriesParts
<1> HIDE DEF used
<1>9. \A p \in used : pageDir[p] # d
  BY <1>4, <1>8
<1>10. OwnDirs(used \cup {new}, pid', pageDir')
  <2> SUFFICES ASSUME NEW p \in used \cup {new}, NEW q \in used \cup {new},
                      pageDir'[p] = pageDir'[q], p # q
               PROVE  VIDEO /\ {pid'[p], pid'[q]} = {PID_INIT, PID_INIT + 1}
    BY DEF OwnDirs
  <2>1. p \in used /\ q \in used
    BY <1>7, <1>9
  <2> QED BY <2>1, <1>7, <1>8 DEF OwnDirs
<1>11. liveDirs' = {KernelDir} \cup {pageDir'[p] : p \in used \cup {new}}
  <2>1. {pageDir'[p] : p \in used \cup {new}} = {pageDir[p] : p \in used} \cup {d}
    BY <1>7
  <2> QED BY <2>1, <1>4, <1>8
<1>12. \A p \in used \cup {new} : pageDir'[p] # KernelDir
  BY <1>4, <1>7, <1>8
<1>13. cr3' = pageDir'[current']
  BY <1>3, <1>4, <1>5
<1> QED BY <1>6, <1>10, <1>11, <1>12, <1>13 DEF DirectoriesOwned, OwnDirs

LEMMA ExitDirectories ==
  ASSUME TypeOK, Placement, DirectoriesOwned, Exit
  PROVE  DirectoriesOwned' /\ mode' = "dispatch"
<1> DEFINE used == {p \in Pcbs : InUse(p)}
<1>1. /\ User /\ ~IsInit /\ ~IsDesktop /\ mode' = "dispatch"
      /\ queue' = Enqueue(current, FreeQ)
      /\ liveDirs' = liveDirs \ {cr3}
      /\ UNCHANGED <<pid, pageDir, current>>
  BY DEF Exit, Cleanup
<1>2. /\ current \in Pcbs /\ \A q \in QueueIds : ~In(q, current)
      /\ QueueTyped /\ AtMostOnePlace
  BY <1>1 DEF TypeOK, Placement, CurrentPlaced, User, QueueTyped
<1>3. current \in used
  BY <1>2, QueueIdFacts DEF InUse
<1>4. \A q \in QueueIds, r \in Pcbs : In(q, r)' <=> In(q, r) \/ (q = FreeQ /\ r = current)
  BY <1>1, <1>2, AddPlaces, QueueIdFacts
<1>5. {p \in Pcbs : InUse(p)'} = used \ {current}
  BY <1>4, QueueIdFacts DEF InUse
<1>6. /\ OwnDirs(used, pid, pageDir) /\ cr3 = pageDir[current]
      /\ liveDirs = {KernelDir} \cup {pageDir[p] : p \in used}
      /\ \A p \in used : pageDir[p] # KernelDir
  BY <1>1, DirectoriesParts
<1>7. ASSUME NEW p \in used \ {current} PROVE pageDir[p] # cr3
  <2>1. {pid[p], pid[current]} = {PID_INIT, PID_INIT + 1} =>
          pid[current] = PID_INIT \/ pid[current] = PID_INIT + 1
    OBVIOUS
  <2> QED BY <2>1, <1>1, <1>3, <1>6, <1>7 DEF OwnDirs, IsInit, IsDesktop
<1> HIDE DEF used
<1>8. OwnDirs(used \ {current}, pid, pageDir)
  BY <1>6 DEF OwnDirs
<1>9. liveDirs' = {KernelDir} \cup {pageDir[p] : p \in used \ {current}}
  <2>1. {pageDir[p] : p \in used} = {pageDir[p] : p \in used \ {current}} \cup {cr3}
    BY <1>3, <1>6
  <2>2. cr3 # KernelDir /\ cr3 \notin {pageDir[p] : p \in used \ {current}}
    BY <1>3, <1>6, <1>7
  <2> QED BY <2>1, <2>2, <1>1, <1>6
<1>10. PICK u : u = used \ {current}
  OBVIOUS
<1>11. /\ {p \in Pcbs : InUse(p)'} = u /\ OwnDirs(u, pid', pageDir')
       /\ liveDirs' = {KernelDir} \cup {pageDir'[p] : p \in u}
       /\ \A p \in u : pageDir'[p] # KernelDir
  BY <1>1, <1>5, <1>6, <1>8, <1>9, <1>10
<1>12. ~User'
  BY <1>1 DEF User
<1> QED BY <1>1, <1>11, <1>12 DEF DirectoriesOwned, OwnDirs

(* The directory that is loaded while a process runs is its own.           *)
LEMMA OtherDirectories ==
  ASSUME TypeOK, Placement, DirectoriesInv, Next, ~Fork, ~Exit
  PROVE  /\ queue'[FreeQ] = queue[FreeQ] /\ UNCHANGED <<pid, pageDir, liveDirs>>
         /\ mode' \in {"user", "wake"} => cr3' = pageDir[current']
<1>1. ~DispatchReap
  <2> SUFFICES ASSUME DispatchReap PROVE FALSE
    OBVIOUS
  <2>1. PICK k \in Prios : queue[ReadyQ(k)] # <<>> /\ Killed(Head(queue[ReadyQ(k)]))
    BY DEF DispatchReap, TopQueue
  <2>2. Head(queue[ReadyQ(k)]) \in Pcbs
    BY <2>1, HeadIsIn, QueueIdFacts DEF Placement
  <2> QED BY <2>1, <2>2 DEF Killed, DirectoriesInv, NobodyKilled
<1>2. mode \in {"user", "wake"} => cr3 = pageDir[current]
  BY DEF DirectoriesInv, DirectoriesOwned, User
<1>3. queue'[FreeQ] = queue[FreeQ]
  BY <1>1, FreeQKept
<1>4. CASE DispatchRun
  BY <1>3, <1>4 DEF DispatchRun
<1>5. CASE ~DispatchRun
  <2>1. /\ UNCHANGED <<pid, pageDir, liveDirs, cr3, current>>
        /\ mode' \in {"user", "wake"} => mode \in {"user", "wake"}
    BY <1>1, <1>5
    DEF Next, SystemCall, Interrupt, KernelLoop, Yield, Sleep, Kill, SetPriority,
        SetTime, ReadBuffered, ReadBlocks, ClockTick, CharWakes, CharBuffered,
        WakeSleeper, ClockContinue, ClockPreempt, DispatchPanic, User, pcbVars, memVars
  <2> QED BY <2>1, <1>2, <1>3
<1> QED BY <1>4, <1>5

(* As long as nobody is killed, every process owns a page directory of its *)
(* own (but the desktop thread, which shares that of the initial process), *)
(* runs in it, and takes it away when it exits; kill() breaks this, as     *)
(* CleanupFreesOwn shows.                                                  *)
THEOREM DirectoriesAlwaysOwned ==
  ASSUME KillArgs = {}, KernelDir # InitDir
  PROVE  Spec => []DirectoriesOwned
<1>1. Init => DirectoriesInv
  BY DirectoriesInit
<1>2. ASSUME TypeOK, Placement, DirectoriesInv, [Next]_vars PROVE DirectoriesInv'
  <2>1. CASE UNCHANGED vars
    BY <1>2, <2>1
    DEF DirectoriesInv, NobodyKilled, DirectoriesOwned, InUse, In, User, vars, pcbVars, memVars
  <2>2. CASE Next
    <3>1. NobodyKilled'
      BY <1>2, <2>2, NoKillNobodyKilled DEF DirectoriesInv
    <3>2. DirectoriesOwned
      BY <1>2 DEF DirectoriesInv
    <3>3. CASE Fork
      <4>1. DirectoriesOwned' /\ mode' # "wake"
        <5>1. DirectoriesOwned'
          BY <1>2, <3>2, <3>3, ForkDirectories
        <5>2. mode' # "wake"
          BY <3>3 DEF Fork, User
        <5> QED BY <5>1, <5>2
      <4> QED BY <3>1, <4>1 DEF DirectoriesInv
    <3>4. CASE Exit
      BY <1>2, <3>1, <3>2, <3>4, ExitDirectories DEF DirectoriesInv
    <3>5. CASE ~Fork /\ ~Exit
      <4>1. /\ queue'[FreeQ] = queue[FreeQ] /\ UNCHANGED <<pid, pageDir, liveDirs>>
            /\ mode' \in {"user", "wake"} => cr3' = pageDir[current']
        BY <1>2, <2>2, <3>5, OtherDirectories
      <4>2. \A p : InUse(p)' <=> InUse(p)
        BY <4>1 DEF InUse, In
      <4>3. DirectoriesOwned'
        BY <3>2, <4>1, <4>2 DEF DirectoriesOwned, User
      <4> QED BY <3>1, <4>1, <4>3 DEF DirectoriesInv
    <3> QED BY <3>3, <3>4, <3>5
  <2> QED BY <1>2, <2>1, <2>2
<1>3. DirectoriesInv => DirectoriesOwned
  BY DEF DirectoriesInv
<1> QED BY <1>1, <1>2, <1>3, TypeCorrect, PlacementInvariant, PTL DEF Spec
-----------------------------------------------------------------------------
(* Sleepers, as long as nobody sets the clock.                             *)

\* The sleepers stand in the order of their keys, and the key of each is the
\* time at which it is to wake, in the arithmetic of the clock.
SleepOrder(s, keys) ==
  \A i, j \in 1 .. Len(s) : i < j => keys[s[i]] <= keys[s[j]]

SleepKeys(s, keys, ticks, now) ==
  \A i \in 1 .. Len(s) : keys[s[i]] = (now + ticks[s[i]]) % TIME_MOD

StillToSleep(s, ticks) == \A i \in 1 .. Len(s) : ticks[s[i]] > 0

SleepSound ==
  LET s == queue[SleepQ] IN
  /\ SleepOrder(s, wakeKey)
  /\ SleepKeys(s, wakeKey, left, time)
  /\ mode \in {"user", "dispatch"} => StillToSleep(s, left)

\* Once around makes no difference.
LEMMA AroundOnce ==
  ASSUME NEW M \in Nat, M > 0, NEW x \in Nat PROVE (x + M) % M = x % M
<1> DEFINE q == x \div M
           r == x - M * q
<1>1. q \in Nat /\ r \in 0 .. M - 1 /\ x % M = r
  OBVIOUS
<1>2. x + M = M * (q + 1) + r /\ q + 1 \in Nat /\ x + M \in Nat
  BY <1>1
<1> HIDE DEF q, r
<1>3. \A k \in Nat, d \in 0 .. M - 1, y \in Nat : y = M * k + d => y % M = d
  OBVIOUS
<1> QED BY <1>1, <1>2, <1>3

\* The clock's arithmetic.
LEMMA ClockArithmetic ==
  ASSUME NEW t \in 0 .. (TIME_MOD - 1), NEW l \in Nat
  PROVE  /\ (t + l) % TIME_MOD \in 0 .. (TIME_MOD - 1)
         /\ l > 0 => (t + l) % TIME_MOD = (((t + 1) % TIME_MOD) + (l - 1)) % TIME_MOD
         /\ l = 0 => (t + l) % TIME_MOD = t
         /\ (l < TIME_MOD /\ (t + l) % TIME_MOD = t) => l = 0
<1> DEFINE M == TIME_MOD
<1>0. M \in Nat /\ M > 0 /\ t \in Nat /\ t < M
  BY ConstantFacts
<1> HIDE DEF M
<1>1. (t + l) % M \in 0 .. (M - 1)
  BY <1>0
<1>2. l = 0 => (t + l) % M = t
  BY <1>0
<1>3. ASSUME l > 0 PROVE (t + l) % M = (((t + 1) % M) + (l - 1)) % M
  <2>1. CASE t + 1 < M
    <3>1. (t + 1) % M = t + 1
      BY <1>0, <2>1
    <3>2. (t + 1) + (l - 1) = t + l
      BY <1>0
    <3> QED BY <3>1, <3>2
  <2>2. CASE t + 1 = M
    <3>1. (t + 1) % M = 0
      BY <1>0, <2>2
    <3>2. t + l = M + (l - 1)
      BY <1>0, <2>2
    <3>3. (M + (l - 1)) % M = (l - 1) % M
      <4>1. l - 1 \in Nat /\ (l - 1) + M = M + (l - 1)
        BY <1>0, <1>3
      <4> QED BY <4>1, <1>0, AroundOnce
    <3>4. 0 + (l - 1) = l - 1
      BY <1>3
    <3> QED BY <3>1, <3>2, <3>3, <3>4
  <2> QED BY <1>0, <2>1, <2>2
<1>4. ASSUME l < M, (t + l) % M = t PROVE l = 0
  <2>1. CASE t + l < M
    BY <1>0, <1>4, <2>1
  <2>2. CASE t + l >= M
    <3>1. (t + l) % M = t + l - M
      BY <1>0, <1>4, <2>2
    <3> QED BY <1>0, <1>4, <3>1
  <2> QED BY <1>0, <2>1, <2>2
<1> QED BY <1>1, <1>2, <1>3, <1>4 DEF M

\* A sleeper goes behind those whose time is not later.
LEMMA SleepInserted ==
  ASSUME NEW s \in Seq(Pcbs), NEW t \in Seq(Pcbs), NEW n \in 0 .. Len(s), NEW c \in Pcbs,
         IsInserted(t, s, n, c), \A i \in 1 .. Len(s) : s[i] # c,
         NEW keys \in [Pcbs -> Nat], NEW k \in Nat,
         SleepOrder(s, keys),
         \A i \in 1 .. n : keys[s[i]] <= k,
         n < Len(s) => keys[s[n + 1]] > k
  PROVE  SleepOrder(t, [keys EXCEPT ![c] = k])
<1> DEFINE keys2 == [keys EXCEPT ![c] = k]
           Old(i) == IF i <= n THEN i ELSE i - 1
<1>0. Len(s) \in Nat /\ n \in Nat /\ n <= Len(s) /\ Len(t) = Len(s) + 1 /\ t[n + 1] = c
  BY DEF IsInserted
<1>1. ASSUME NEW i \in 1 .. Len(t), i # n + 1
      PROVE  /\ Old(i) \in 1 .. Len(s) /\ t[i] = s[Old(i)]
             /\ keys2[t[i]] = keys[s[Old(i)]] /\ keys[s[Old(i)]] \in Nat
  <2>1. Old(i) \in 1 .. Len(s) /\ t[i] = s[Old(i)]
    <3>1. CASE i <= n
      <4>1. i \in 1 .. n /\ i \in 1 .. Len(s)
        BY <1>0, <3>1
      <4> QED BY <3>1, <4>1 DEF IsInserted
    <3>2. CASE ~(i <= n)
      <4>1. i \in n + 2 .. Len(s) + 1 /\ i - 1 \in 1 .. Len(s)
        BY <1>0, <1>1, <3>2
      <4> QED BY <3>2, <4>1 DEF IsInserted
    <3> QED BY <3>1, <3>2
  <2>2. \A j \in 1 .. Len(s) : s[j] \in Pcbs /\ s[j] # c
    OBVIOUS
  <2> HIDE DEF Old
  <2>3. s[Old(i)] \in Pcbs /\ s[Old(i)] # c
    BY <2>1, <2>2
  <2>4. keys2[s[Old(i)]] = keys[s[Old(i)]] /\ keys[s[Old(i)]] \in Nat
    BY <2>3
  <2> QED BY <2>1, <2>4
<1>2. keys2[c] = k
  OBVIOUS
<1>3. ASSUME NEW i \in 1 .. Len(s), i > n PROVE keys[s[i]] > k
  <2> DEFINE L == Len(s)
  <2>a. L \in Nat /\ n \in Nat /\ i \in 1 .. L
    BY <1>0
  <2> HIDE DEF L
  <2>b. n < L /\ n + 1 \in 1 .. L
    BY <2>a, <1>3
  <2>0. n < Len(s) /\ n + 1 \in 1 .. Len(s)
    BY <2>b DEF L
  <2>1. n + 1 \in 1 .. Len(s) /\ keys[s[n + 1]] > k
    BY <1>0, <1>3, <2>0
  <2>2. keys[s[i]] \in Nat /\ keys[s[n + 1]] \in Nat
    BY <2>1
  <2>3. i = n + 1 \/ keys[s[n + 1]] <= keys[s[i]]
    BY <1>0, <1>3, <2>1 DEF SleepOrder
  <2> QED BY <2>1, <2>2, <2>3
<1> HIDE DEF keys2
<1>4. ASSUME NEW i \in 1 .. Len(t), NEW j \in 1 .. Len(t), i < j
      PROVE  keys2[t[i]] <= keys2[t[j]]
  <2>1. CASE i = n + 1
    <3>1. Old(j) \in 1 .. Len(s) /\ Old(j) > n /\ j # n + 1
      <4>1. i \in Nat /\ j \in Nat /\ j > n + 1
        BY <1>0, <1>4, <2>1
      <4>2. Old(j) \in 1 .. Len(s) /\ Old(j) = j - 1
        BY <4>1, <1>0, <1>1
      <4> QED BY <4>1, <4>2, <1>0
    <3>2. keys[s[Old(j)]] > k /\ keys[s[Old(j)]] \in Nat /\ keys2[t[j]] = keys[s[Old(j)]]
      BY <3>1, <1>1, <1>3, <1>4, <2>1
    <3>3. keys2[t[i]] = k
      BY <1>0, <1>2, <2>1
    <3>4. keys2[t[j]] \in Nat /\ keys2[t[j]] > k
      BY <3>2
    <3> QED BY <3>3, <3>4
  <2>2. CASE j = n + 1
    <3>1. i \in 1 .. n /\ i # n + 1 /\ Old(i) = i
      BY <1>0, <1>4, <2>2
    <3> QED BY <3>1, <1>0, <1>1, <1>2, <2>2
  <2>3. CASE i # n + 1 /\ j # n + 1
    <3>1. Old(i) < Old(j) /\ Old(i) \in 1 .. Len(s) /\ Old(j) \in 1 .. Len(s)
      <4>1. i \in Nat /\ j \in Nat
        BY <1>0
      <4>2. Old(i) < Old(j)
        BY <4>1, <1>0, <1>4, <2>3
      <4> QED BY <4>2, <1>1, <2>3
    <3>2. keys[s[Old(i)]] <= keys[s[Old(j)]]
      BY <3>1 DEF SleepOrder
    <3> QED BY <3>2, <1>1, <2>3
  <2> QED BY <2>1, <2>2, <2>3
<1> QED BY <1>4 DEF SleepOrder, keys2

LEMMA SleepQTyped ==
  ASSUME TypeOK, Placement
  PROVE  LET s == queue[SleepQ] IN
         /\ s \in Seq(Pcbs) /\ Len(s) \in Nat
         /\ \A i \in 1 .. Len(s) : s[i] \in Pcbs
         /\ \A i, j \in 1 .. Len(s) : s[i] = s[j] => i = j
         /\ \A p \in Pcbs : In(SleepQ, p) <=> \E i \in 1 .. Len(s) : s[i] = p
         /\ wakeKey \in [Pcbs -> Nat] /\ left \in [Pcbs -> Nat]
         /\ time \in 0 .. (TIME_MOD - 1) /\ time \in Nat
<1> DEFINE s == queue[SleepQ]
<1>1. s \in Seq(Pcbs)
  BY QueueIdFacts DEF TypeOK
<1>2. \A i, j \in 1 .. Len(s) : s[i] = s[j] => i = j
  <2>1. IsInjective(s)
    BY QueueIdFacts DEF Placement, AtMostOnePlace
  <2> QED BY <2>1, <1>1 DEF IsInjective
<1>3. wakeKey \in [Pcbs -> Nat] /\ left \in [Pcbs -> Nat]
  <2>1. wakeKey \in [Pcbs -> 0 .. (TIME_MOD - 1)] /\ left \in [Pcbs -> Nat]
    BY DEF TypeOK
  <2>2. \A k \in 0 .. (TIME_MOD - 1) : k \in Nat
    BY ConstantFacts
  <2> QED BY <2>1, <2>2
<1>4. time \in 0 .. (TIME_MOD - 1) /\ time \in Nat
  BY ConstantFacts DEF TypeOK
<1> QED BY <1>1, <1>2, <1>3, <1>4 DEF In, Contains

\* A call of msleep() puts its caller where its time comes.
LEMMA SleepSleeps ==
  ASSUME TypeOK, Placement, SleepSound, NEW ms \in SleepArgs, Sleep(ms)
  PROVE  SleepSound'
<1> DEFINE s == queue[SleepQ]
           key == (time + ms) % TIME_MOD
<1>1. /\ mode = "user" /\ mode' = "dispatch" /\ ms > 0
      /\ wakeKey' = [wakeKey EXCEPT ![current] = key]
      /\ left' = [left EXCEPT ![current] = ms]
      /\ time' = time
  BY DEF Sleep, User
<1>2. PICK n \in 0 .. Len(s) :
        /\ InsertionPoint(s, n, key)
        /\ queue' = [queue EXCEPT ![SleepQ] = InsertAt(s, n + 1, current)]
  BY DEF Sleep
<1>3. /\ s \in Seq(Pcbs) /\ Len(s) \in Nat /\ current \in Pcbs
      /\ \A i \in 1 .. Len(s) : s[i] \in Pcbs
      /\ wakeKey \in [Pcbs -> Nat] /\ left \in [Pcbs -> Nat] /\ ms \in Nat
      /\ time \in 0 .. (TIME_MOD - 1)
  <2>1. current \in Pcbs /\ ms \in Nat
    BY ConstantFacts DEF TypeOK
  <2> QED BY <2>1, SleepQTyped
<1>4. key \in Nat
  BY <1>3, ClockArithmetic
<1>5. \A i \in 1 .. Len(s) : s[i] # current
  <2>1. ~In(SleepQ, current)
    BY <1>1, QueueIdFacts DEF Placement, CurrentPlaced
  <2> QED BY <2>1, <1>3, SleepQTyped
<1>6. PICK t \in Seq(Pcbs) : t = queue'[SleepQ] /\ IsInserted(t, s, n, current)
  <2>1. queue'[SleepQ] = InsertAt(s, n + 1, current)
    BY <1>2, QueueIdFacts DEF TypeOK
  <2> QED BY <2>1, <1>3, InsertAtInserts
<1>7. SleepOrder(t, wakeKey')
  <2>1. \A i \in 1 .. n : wakeKey[s[i]] <= key
    BY <1>2 DEF InsertionPoint
  <2>2. n < Len(s) => wakeKey[s[n + 1]] > key
    BY <1>2 DEF InsertionPoint
  <2>3. SleepOrder(s, wakeKey)
    BY DEF SleepSound
  <2> HIDE DEF s, key
  <2> QED BY <2>1, <2>2, <2>3, <1>1, <1>3, <1>4, <1>5, <1>6, SleepInserted
<1>8. ASSUME NEW i \in 1 .. Len(t)
      PROVE  t[i] = current \/ \E j \in 1 .. Len(s) : t[i] = s[j]
  <2>1. IsInserted(t, s, n, current) /\ Len(s) \in Nat
    BY <1>3, <1>6
  <2> HIDE DEF s
  <2> QED BY <2>1, InsertedMembers
<1>9. SleepKeys(t, wakeKey', left', time')
  <2> SUFFICES ASSUME NEW i \in 1 .. Len(t)
               PROVE  wakeKey'[t[i]] = (time + left'[t[i]]) % TIME_MOD
    BY <1>1 DEF SleepKeys
  <2>1. CASE t[i] = current
    BY <2>1, <1>1, <1>3
  <2>2. CASE t[i] # current
    <3>1. PICK j \in 1 .. Len(s) : t[i] = s[j]
      BY <1>8, <2>2
    <3>2. wakeKey'[s[j]] = wakeKey[s[j]] /\ left'[s[j]] = left[s[j]]
      BY <3>1, <2>2, <1>1, <1>3
    <3> QED BY <3>1, <3>2 DEF SleepSound, SleepKeys
  <2> QED BY <2>1, <2>2
<1>10. StillToSleep(t, left')
  <2> SUFFICES ASSUME NEW i \in 1 .. Len(t) PROVE left'[t[i]] > 0
    BY DEF StillToSleep
  <2>1. CASE t[i] = current
    BY <2>1, <1>1, <1>3
  <2>2. CASE t[i] # current
    <3>1. PICK j \in 1 .. Len(s) : t[i] = s[j]
      BY <1>8, <2>2
    <3>2. left'[s[j]] = left[s[j]]
      BY <3>1, <2>2, <1>1, <1>3
    <3> QED BY <3>1, <3>2, <1>1 DEF SleepSound, StillToSleep
  <2> QED BY <2>1, <2>2
<1> QED BY <1>6, <1>7, <1>9, <1>10 DEF SleepSound

\* A tick takes one from what everybody has to sleep and adds it to the time.
LEMMA TickSleeps ==
  ASSUME TypeOK, Placement, SleepSound, ClockTick
  PROVE  SleepSound'
<1> DEFINE s == queue[SleepQ]
<1>1. /\ mode = "user" /\ mode' = "wake" /\ UNCHANGED <<queue, wakeKey>>
      /\ time' = (time + 1) % TIME_MOD
      /\ left' = [p \in Pcbs |-> IF left[p] > 0 THEN left[p] - 1 ELSE 0]
  BY DEF ClockTick, User
<1>2. ASSUME NEW i \in 1 .. Len(s)
      PROVE  wakeKey[s[i]] = (time' + left'[s[i]]) % TIME_MOD
  <2>1. /\ wakeKey[s[i]] = (time + left[s[i]]) % TIME_MOD
        /\ left[s[i]] > 0
    BY <1>1 DEF SleepSound, SleepKeys, StillToSleep
  <2>2. s[i] \in Pcbs /\ left[s[i]] \in Nat /\ time \in 0 .. (TIME_MOD - 1)
    BY SleepQTyped DEF TypeOK
  <2>3. left'[s[i]] = left[s[i]] - 1
    BY <1>1, <2>1, <2>2
  <2> QED BY <1>1, <2>1, <2>2, <2>3, ClockArithmetic
<1> QED BY <1>1, <1>2 DEF SleepSound, SleepKeys

\* The head of the queue wakes; the others stay as they are.
LEMMA WakeSleeps ==
  ASSUME TypeOK, Placement, SleepSound, WakeSleeper
  PROVE  SleepSound'
<1> DEFINE s == queue[SleepQ]
           p == Head(s)
<1>1. /\ mode = "wake" /\ UNCHANGED <<mode, time>> /\ s # <<>>
      /\ queue' = Move(SleepQ, p, ReadyQOf(p))
      /\ left' = [left EXCEPT ![p] = 0] /\ wakeKey' = [wakeKey EXCEPT ![p] = 0]
  BY DEF WakeSleeper
<1>2. /\ s \in Seq(Pcbs) /\ Len(s) \in Nat /\ \A i, j \in 1 .. Len(s) : s[i] = s[j] => i = j
      /\ \A i \in 1 .. Len(s) : s[i] \in Pcbs
      /\ wakeKey \in [Pcbs -> Nat] /\ left \in [Pcbs -> Nat]
  BY SleepQTyped
<1>3. PICK t \in Seq(Pcbs) :
        /\ t = queue'[SleepQ] /\ Len(t) = Len(s) - 1
        /\ \A i \in 1 .. Len(t) : i + 1 \in 1 .. Len(s) /\ t[i] = s[i + 1]
  <2>1. queue'[SleepQ] = Tail(s)
    <3>1. p \in Pcbs
      BY <1>1, <1>2
    <3>2. ReadyQOf(p) \in QueueIds /\ ReadyQOf(p) # SleepQ
      BY <3>1, QueueIdFacts DEF TypeOK, ReadyQOf
    <3> QED BY <3>2, <1>1, QueueIdFacts DEF Move, TypeOK
  <2>2. /\ Tail(s) \in Seq(Pcbs) /\ Len(Tail(s)) = Len(s) - 1
        /\ \A i \in 1 .. Len(s) - 1 : Tail(s)[i] = s[i + 1]
    BY <1>1, <1>2, HeadTailProperties
  <2>3. \A i \in 1 .. Len(s) - 1 : i + 1 \in 1 .. Len(s)
    BY <1>2
  <2> QED BY <2>1, <2>2, <2>3
<1>4. ASSUME NEW i \in 1 .. Len(t)
      PROVE  wakeKey'[t[i]] = wakeKey[s[i + 1]] /\ left'[t[i]] = left[s[i + 1]]
  <2>1. p = s[1] /\ 1 \in 1 .. Len(s) /\ i + 1 # 1
    <3>1. p = s[1]
      BY <1>1, <1>2
    <3>2. Len(s) # 0
      BY <1>1, <1>2
    <3>3. i + 1 # 1
      BY <1>3
    <3> QED BY <3>1, <3>2, <3>3, <1>2
  <2>2. s[i + 1] # p /\ s[i + 1] \in Pcbs
    BY <2>1, <1>2, <1>3
  <2> QED BY <2>2, <1>1, <1>2, <1>3
<1>5. SleepOrder(t, wakeKey')
  <2> SUFFICES ASSUME NEW i \in 1 .. Len(t), NEW j \in 1 .. Len(t), i < j
               PROVE  wakeKey'[t[i]] <= wakeKey'[t[j]]
    BY DEF SleepOrder
  <2>1. i + 1 < j + 1 /\ i + 1 \in 1 .. Len(s) /\ j + 1 \in 1 .. Len(s)
    BY <1>3
  <2>2. wakeKey[s[i + 1]] <= wakeKey[s[j + 1]]
    BY <2>1 DEF SleepSound, SleepOrder
  <2> QED BY <2>2, <1>4
<1>6. SleepKeys(t, wakeKey', left', time')
  <2> SUFFICES ASSUME NEW i \in 1 .. Len(t)
               PROVE  wakeKey'[t[i]] = (time' + left'[t[i]]) % TIME_MOD
    BY DEF SleepKeys
  <2>1. wakeKey[s[i + 1]] = (time + left[s[i + 1]]) % TIME_MOD
    BY <1>3 DEF SleepSound, SleepKeys
  <2> QED BY <2>1, <1>1, <1>4
<1> QED BY <1>1, <1>3, <1>5, <1>6 DEF SleepSound

\* When the loop is over nobody is left whose time has come.
LEMMA LoopEnds ==
  ASSUME TypeOK, Placement, SleepSound, NobodyDue
  PROVE  StillToSleep(queue[SleepQ], left)
<1> DEFINE s == queue[SleepQ]
<1> SUFFICES ASSUME NEW i \in 1 .. Len(s), left[s[i]] = 0 PROVE FALSE
  <2>1. \A i \in 1 .. Len(s) : left[s[i]] \in Nat
    BY SleepQTyped DEF TypeOK
  <2> QED BY <2>1 DEF StillToSleep
<1>1. /\ s \in Seq(Pcbs) /\ Len(s) \in Nat /\ s # <<>> /\ 1 \in 1 .. Len(s)
      /\ wakeKey[s[1]] \in Nat /\ wakeKey[s[i]] \in Nat /\ time \in 0 .. (TIME_MOD - 1)
      /\ time \in Nat
  <2>1. s \in Seq(Pcbs) /\ Len(s) \in Nat /\ s[i] \in Pcbs /\ i \in 1 .. Len(s)
    BY SleepQTyped
  <2>2. s # <<>> /\ 1 \in 1 .. Len(s)
    BY <2>1
  <2>3. s[1] \in Pcbs
    BY <2>2, SleepQTyped
  <2> QED BY <2>1, <2>2, <2>3, SleepQTyped
<1>2. wakeKey[s[1]] > time
  <2>1. Head(s) = s[1]
    BY <1>1
  <2>2. ~(wakeKey[s[1]] <= time)
    BY <1>1, <2>1 DEF NobodyDue, Due
  <2> QED BY <2>2, <1>1
<1>3. wakeKey[s[i]] >= wakeKey[s[1]]
  <2>1. CASE i = 1
    BY <1>1, <2>1
  <2>2. CASE i # 1
    <3>1. 1 < i
      BY <2>2
    <3>2. wakeKey[s[1]] <= wakeKey[s[i]]
      BY <3>1, <1>1 DEF SleepSound, SleepOrder
    <3> QED BY <3>2, <1>1
  <2> QED BY <2>1, <2>2
<1>4. wakeKey[s[i]] = time
  <2>1. wakeKey[s[i]] = (time + 0) % TIME_MOD
    BY DEF SleepSound, SleepKeys
  <2>2. 0 \in Nat
    OBVIOUS
  <2> QED BY <2>1, <2>2, <1>1, ClockArithmetic
<1> QED BY <1>1, <1>2, <1>3, <1>4

\* No other step touches the sleepers, and the loop is left only when nobody
\* is due.
LEMMA OtherSleeps ==
  ASSUME TypeOK, Placement, TimeArgs = {}, Next,
         ~ClockTick, ~WakeSleeper, ~(\E ms \in SleepArgs : Sleep(ms))
  PROVE  /\ queue'[SleepQ] = queue[SleepQ] /\ UNCHANGED <<wakeKey, left, time>>
         /\ mode' \in {"user", "dispatch"} => mode \in {"user", "dispatch"} \/ NobodyDue
<1>0. /\ queue \in [QueueIds -> Seq(Pcbs)] /\ current \in Pcbs
      /\ \A p \in Pcbs : ReadyQOf(p) # SleepQ
  BY QueueIdFacts DEF TypeOK, ReadyQOf
<1>1. UNCHANGED <<wakeKey, left, time>>
  BY DEF Next, SystemCall, Interrupt, KernelLoop, Fork, Exit, Yield, Kill, SetPriority,
         SetTime, ReadBuffered, ReadBlocks, CharWakes, CharBuffered, ClockContinue,
         ClockPreempt, DispatchReap, DispatchRun, DispatchPanic
<1>2. mode' \in {"user", "dispatch"} => mode \in {"user", "dispatch"} \/ NobodyDue
  BY DEF Next, SystemCall, Interrupt, KernelLoop, Fork, Exit, Yield, Kill, SetPriority,
         SetTime, ReadBuffered, ReadBlocks, CharWakes, CharBuffered, ClockContinue,
         ClockPreempt, DispatchReap, DispatchRun, DispatchPanic, User
<1>3. ASSUME NEW from \in {FreeQ, ReadQ} \cup ReadyQs, NEW to \in {FreeQ, ReadQ} \cup ReadyQs,
             NEW p, queue' = Move(from, p, to)
      PROVE  queue'[SleepQ] = queue[SleepQ]
  BY <1>0, <1>3, QueueIdFacts DEF Move, ReadyQs
<1>4. CASE Fork
  <2>1. priority[current] \in Prios
    BY DEF TypeOK
  <2> QED BY <2>1, <1>0, <1>4, QueueIdFacts DEF Fork, Move
<1>5. CASE Exit \/ Yield \/ ReadBlocks \/ ClockPreempt
  <2>1. PICK to : to # SleepQ /\ queue' = Enqueue(current, to)
    <3>1. FreeQ # SleepQ /\ ReadQ # SleepQ /\ ReadyQOf(current) # SleepQ
      BY <1>0, QueueIdFacts
    <3>2. \/ queue' = Enqueue(current, FreeQ) \/ queue' = Enqueue(current, ReadQ)
          \/ queue' = Enqueue(current, ReadyQOf(current))
      BY <1>5 DEF Exit, Yield, ReadBlocks, ClockPreempt
    <3> QED BY <3>1, <3>2
  <2>2. queue' = [queue EXCEPT ![to] = Append(queue[to], current)]
    BY <2>1 DEF Enqueue
  <2>3. SleepQ \in QueueIds /\ to # SleepQ
    BY <2>1, QueueIdFacts
  <2>4. queue'[SleepQ] = queue[SleepQ]
    BY <2>2, <2>3, <1>0
  <2> QED BY <2>4, <1>1, <1>2
<1>6. CASE CharWakes
  <2>1. Head(queue[ReadQ]) \in Pcbs
    BY <1>6, HeadIsIn, QueueIdFacts DEF CharWakes, Placement
  <2> QED BY <2>1, <1>0, <1>6, QueueIdFacts DEF CharWakes, Move
<1>7. CASE DispatchReap
  BY <1>0, <1>7, QueueIdFacts DEF DispatchReap, Move
<1>8. CASE DispatchRun
  BY <1>0, <1>8, QueueIdFacts DEF DispatchRun
<1>9. \/ Fork \/ Exit \/ Yield \/ ReadBlocks \/ ClockPreempt \/ CharWakes
      \/ DispatchReap \/ DispatchRun \/ UNCHANGED queue
  BY DEF Next, SystemCall, Interrupt, KernelLoop, Kill, SetPriority, SetTime,
         ReadBuffered, CharBuffered, ClockContinue, DispatchPanic
<1> QED BY <1>1, <1>2, <1>4, <1>5, <1>6, <1>7, <1>8, <1>9

LEMMA NextSleeps ==
  ASSUME TimeArgs = {}, TypeOK, Placement, SleepSound, [Next]_vars
  PROVE  SleepSound'
<1>1. ASSUME NEW ms \in SleepArgs, Sleep(ms) PROVE SleepSound'
  BY <1>1, SleepSleeps
<1>2. CASE ClockTick
  BY <1>2, TickSleeps
<1>3. CASE WakeSleeper
  BY <1>3, WakeSleeps
<1>4. CASE Next /\ ~ClockTick /\ ~WakeSleeper /\ ~(\E ms \in SleepArgs : Sleep(ms))
  <2>1. /\ queue'[SleepQ] = queue[SleepQ] /\ UNCHANGED <<wakeKey, left, time>>
        /\ mode' \in {"user", "dispatch"} => mode \in {"user", "dispatch"} \/ NobodyDue
    BY <1>4, OtherSleeps
  <2>2. mode' \in {"user", "dispatch"} => StillToSleep(queue[SleepQ], left)
    BY <2>1, LoopEnds DEF SleepSound
  <2> QED BY <2>1, <2>2 DEF SleepSound
<1>5. CASE UNCHANGED vars
  BY <1>5 DEF SleepSound, vars
<1> QED BY <1>1, <1>2, <1>3, <1>4, <1>5

LEMMA InitSleeps == Init => SleepSound
<1> SUFFICES ASSUME Init PROVE SleepSound
  OBVIOUS
<1>1. queue[SleepQ] = <<>>
  BY QueueIdFacts DEF Init, PRIO_HIGH, Prios, N_PRIOS
<1> QED BY <1>1 DEF SleepSound, SleepOrder, SleepKeys, StillToSleep

(* When no handler runs, nobody is still asleep whose time has come: as    *)
(* long as nobody sets the clock, for every width of the clock, every time *)
(* to sleep and every number of sleepers, across the wrap of the clock.    *)
THEOREM NeverTooLate ==
  ASSUME TimeArgs = {}
  PROVE  Spec => []NeverLate
<1>1. SleepSound /\ TypeOK /\ Placement => NeverLate
  <2> SUFFICES ASSUME SleepSound, TypeOK, Placement, User, NEW p \in Pcbs, In(SleepQ, p)
               PROVE  left[p] > 0
    BY DEF NeverLate
  <2>1. PICK i \in 1 .. Len(queue[SleepQ]) : queue[SleepQ][i] = p
    BY SleepQTyped
  <2> QED BY <2>1 DEF SleepSound, StillToSleep, User
<1>2. TypeOK /\ Placement /\ SleepSound /\ [Next]_vars => SleepSound'
  BY NextSleeps
<1> QED BY <1>1, <1>2, InitSleeps, TypeCorrect, PlacementInvariant, PTL DEF Spec

\* Nobody sleeps for more than the clock can count.
ShortSleeps == \A p \in Pcbs : left[p] < TIME_MOD

LEMMA NextShort ==
  ASSUME \A ms \in SleepArgs : ms < TIME_MOD,
         TypeOK, ShortSleeps, [Next]_vars
  PROVE  ShortSleeps'
<1>0. left \in [Pcbs -> Nat] /\ TIME_MOD \in Nat \ {0}
  BY ConstantFacts DEF TypeOK
<1>1. CASE UNCHANGED left
  BY <1>1 DEF ShortSleeps
<1>2. ASSUME NEW ms \in SleepArgs, Sleep(ms) PROVE ShortSleeps'
  BY <1>0, <1>2 DEF Sleep, ShortSleeps
<1>3. CASE ClockTick
  BY <1>0, <1>3 DEF ClockTick, ShortSleeps
<1>4. CASE WakeSleeper
  BY <1>0, <1>4 DEF WakeSleeper, ShortSleeps
<1> QED BY <1>1, <1>2, <1>3, <1>4
       DEF Next, SystemCall, Interrupt, KernelLoop, Fork, Exit, Yield, Kill, SetPriority,
           SetTime, ReadBuffered, ReadBlocks, CharWakes, CharBuffered, ClockContinue,
           ClockPreempt, DispatchReap, DispatchRun, DispatchPanic, vars

\* Who leaves the sleep queue was due.
LEMMA OnlyDueWake ==
  ASSUME TimeArgs = {}, TypeOK, Placement, SleepSound, ShortSleeps, Next,
         NEW p \in Pcbs, In(SleepQ, p), ~In(SleepQ, p)'
  PROVE  left[p] = 0 \/ wakeKey[p] < time
<1>1. ASSUME NEW ms \in SleepArgs, Sleep(ms) PROVE FALSE
  <2>1. PICK c \in Pcbs : c = current
    BY DEF TypeOK
  <2>2. \A q \in QueueIds : ~In(q, c)
    BY <1>1, <2>1 DEF Sleep, User, Placement, CurrentPlaced
  <2>3. \E n \in 0 .. Len(queue[SleepQ]) :
          queue' = [queue EXCEPT ![SleepQ] = InsertAt(queue[SleepQ], n + 1, c)]
    BY <1>1, <2>1 DEF Sleep
  <2>4. QueueTyped /\ AtMostOnePlace
    BY DEF TypeOK, Placement, QueueTyped
  <2>5. In(SleepQ, p)' <=> In(SleepQ, p) \/ p = c
    BY <2>2, <2>3, <2>4, QueueIdFacts, AddPlaces
  <2> QED BY <2>5
<1>2. CASE WakeSleeper
  <2>1. PICK h : /\ h = Head(queue[SleepQ]) /\ queue[SleepQ] # <<>> /\ wakeKey[h] <= time
                 /\ queue' = Move(SleepQ, h, ReadyQOf(h))
    BY <1>2 DEF WakeSleeper, Due
  <2>2. h \in Pcbs
    BY <2>1, HeadIsIn, QueueIdFacts DEF Placement
  <2>3. ReadyQOf(h) \in QueueIds /\ ReadyQOf(h) # SleepQ
    BY <2>2, QueueIdFacts DEF TypeOK, ReadyQOf
  <2>4. QueueTyped /\ AtMostOnePlace
    BY DEF TypeOK, Placement, QueueTyped
  <2>5. In(SleepQ, p)' <=> In(SleepQ, p) /\ p # h
    BY <2>1, <2>3, <2>4, QueueIdFacts, MovePlaces
  <2>6. p = h /\ wakeKey[p] <= time
    BY <2>1, <2>5
  <2>7. PICK i \in 1 .. Len(queue[SleepQ]) : queue[SleepQ][i] = p
    BY SleepQTyped
  <2>8. wakeKey[p] = (time + left[p]) % TIME_MOD
    BY <2>7 DEF SleepSound, SleepKeys
  <2>9. /\ wakeKey[p] \in Nat /\ left[p] \in Nat /\ left[p] < TIME_MOD
        /\ time \in 0 .. (TIME_MOD - 1) /\ time \in Nat
    BY SleepQTyped DEF ShortSleeps
  <2>10. wakeKey[p] = time => left[p] = 0
    BY <2>8, <2>9, ClockArithmetic
  <2> QED BY <2>6, <2>9, <2>10
<1>3. CASE ClockTick
  BY <1>3 DEF ClockTick, In
<1>4. CASE ~ClockTick /\ ~WakeSleeper /\ ~(\E ms \in SleepArgs : Sleep(ms))
  BY <1>4, OtherSleeps DEF In
<1> QED BY <1>1, <1>2, <1>3, <1>4

(* A sleeper wakes only when the ticks it asked for have passed, or at the *)
(* next tick when its wake-up time has wrapped to before the time: as long *)
(* as nobody sets the clock or sleeps for more than the clock can count,   *)
(* for every width of the clock.                                           *)
THEOREM NeverTooEarly ==
  ASSUME TimeArgs = {}, \A ms \in SleepArgs : ms < TIME_MOD
  PROVE  Spec => NeverEarly
<1>1. Init => ShortSleeps
  BY ConstantFacts DEF Init, ShortSleeps
<1>2. TypeOK /\ ShortSleeps /\ [Next]_vars => ShortSleeps'
  BY NextShort
<1>3. TypeOK /\ Placement /\ SleepSound /\ [Next]_vars => SleepSound'
  BY NextSleeps
<1>4. TypeOK /\ Placement /\ SleepSound /\ ShortSleeps /\ [Next]_vars =>
        [\A p \in Pcbs : In(SleepQ, p) /\ ~In(SleepQ, p)' =>
           left[p] = 0 \/ wakeKey[p] < time]_vars
  BY OnlyDueWake
<1> QED BY <1>1, <1>2, <1>3, <1>4, InitSleeps, TypeCorrect, PlacementInvariant, PTL
       DEF Spec, NeverEarly

-----------------------------------------------------------------------------
(* The calls of the other modules.  What the proofs about semaphores,      *)
(* locks and messages share: the process core and the ways to wait and to  *)
(* be released keep every PCB in one place, and the process core never     *)
(* touches the wait queues of other modules.                               *)

CoreQs == {FreeQ, SleepQ, ReadQ} \cup ReadyQs

Busy == {"user", "wake", "release"}

\* The invariant of the process core, with the status words.
CallsSound == TypeOK /\ Placement /\ CallsType

LEMMA CoreQsAreQueues == CoreQs \subseteq QueueIds
BY DEF CoreQs, QueueIds

-----------------------------------------------------------------------------
(* Steps of the process core.                                              *)

LEMMA InitCallsSound == Init /\ CallsInit => CallsSound
<1> SUFFICES ASSUME Init, CallsInit PROVE CallsSound
  OBVIOUS
<1>1. CallsType
  BY DEF CallsInit, CallsType, Statuses
<1> QED BY <1>1, InitTypeOK, InitPlacement DEF CallsSound

LEMMA CoreSound ==
  ASSUME CallsSound, Core
  PROVE  CallsSound'
<1>1. TypeOK /\ Placement /\ CallsType /\ Next
  BY DEF CallsSound, Core
<1>2. TypeOK'
  BY <1>1, SystemCallTypeOK, InterruptTypeOK, KernelLoopTypeOK DEF Next
<1>3. Placement'
  BY <1>1, SystemCallPlacement, InterruptPlacement, KernelLoopPlacement DEF Next
<1>4. CallsType'
  <2>1. result' \in Statuses /\ owed' \in BOOLEAN
    BY <1>1 DEF Core, CallsType, Statuses
  <2>2. eax' \in [Pcbs -> {"own", "answered", "stray"} \cup CallNumbers]
    <3>1. CASE mode = "dispatch" /\ mode' = "user"
      BY <1>1, <3>1 DEF Core, CallsType
    <3>2. CASE ~(mode = "dispatch" /\ mode' = "user")
      BY <1>1, <3>2 DEF Core, CallsType
    <3> QED BY <3>1, <3>2
  <2> QED BY <2>1, <2>2 DEF CallsType
<1> QED BY <1>2, <1>3, <1>4 DEF CallsSound

(* The process core neither runs in a handler's loop nor enters one.       *)
LEMMA CoreOutsideLoops ==
  ASSUME Next
  PROVE  mode \in {"user", "wake", "dispatch"} /\ mode' # "release"
BY DEF Next, SystemCall, Interrupt, KernelLoop, Fork, Exit, Yield, Sleep, Kill,
       SetPriority, SetTime, ReadBuffered, ReadBlocks, ClockTick, CharWakes,
       CharBuffered, WakeSleeper, ClockContinue, ClockPreempt, DispatchReap,
       DispatchRun, DispatchPanic, User

(* No step of the process core changes a wait queue.                       *)
LEMMA CoreWaits ==
  ASSUME TypeOK, Next, NEW q \in QueueIds \ CoreQs
  PROVE  queue'[q] = queue[q]
<1>0. /\ queue \in [QueueIds -> Seq(Pcbs)]
      /\ q # FreeQ /\ q # SleepQ /\ q # ReadQ
      /\ \A k \in Prios : q # ReadyQ(k)
      /\ \A p \in Pcbs : q # ReadyQOf(p)
      /\ priority[current] \in Prios /\ current \in Pcbs
  BY DEF TypeOK, CoreQs, ReadyQs, ReadyQOf
<1>1. CASE UNCHANGED queue
  BY <1>1
<1>2. CASE Fork
  <2>1. \/ queue' = Move(FreeQ, Head(queue[FreeQ]), ReadyQ(priority[current]))
        \/ queue' = [queue EXCEPT ![FreeQ] = Tail(@)]
    BY <1>2 DEF Fork
  <2> QED BY <2>1, <1>0 DEF Move
<1>3. CASE Exit
  BY <1>3, <1>0 DEF Exit, Enqueue
<1>4. CASE Yield
  BY <1>4, <1>0 DEF Yield, Enqueue
<1>5. ASSUME NEW ms \in SleepArgs, Sleep(ms) PROVE queue'[q] = queue[q]
  <2>1. \E s : queue' = [queue EXCEPT ![SleepQ] = s]
    BY <1>5 DEF Sleep
  <2> QED BY <2>1, <1>0
<1>6. CASE ReadBlocks
  BY <1>6, <1>0 DEF ReadBlocks, Enqueue
<1>7. CASE CharWakes
  <2>1. \E r, s : queue' = [queue EXCEPT ![ReadQ] = s, ![ReadyQOf(Head(queue[ReadQ]))] = r]
    BY <1>7 DEF CharWakes, Move
  <2>2. Head(queue[ReadQ]) \in Pcbs
    BY <1>0, <1>7, QueueTypes, QueueIdFacts DEF CharWakes, QueueTyped
  <2> QED BY <2>1, <2>2, <1>0
<1>8. CASE WakeSleeper
  <2>1. \E r, s : queue' = [queue EXCEPT ![SleepQ] = s, ![ReadyQOf(Head(queue[SleepQ]))] = r]
    BY <1>8 DEF WakeSleeper, Move
  <2>2. Head(queue[SleepQ]) \in Pcbs
    BY <1>0, <1>8, QueueTypes, QueueIdFacts DEF WakeSleeper, QueueTyped
  <2> QED BY <2>1, <2>2, <1>0
<1>9. CASE ClockPreempt
  BY <1>9, <1>0 DEF ClockPreempt, Enqueue
<1>10. CASE DispatchReap
  <2>1. PICK k \in Prios : queue' = Move(ReadyQ(k), Head(queue[ReadyQ(k)]), FreeQ)
    BY <1>10 DEF DispatchReap
  <2> QED BY <2>1, <1>0 DEF Move
<1>11. CASE DispatchRun
  <2>1. PICK k \in Prios : queue' = [queue EXCEPT ![ReadyQ(k)] = Tail(@)]
    BY <1>11 DEF DispatchRun
  <2> QED BY <2>1, <1>0
<1>12. \/ Fork \/ Exit \/ Yield \/ (\E ms \in SleepArgs : Sleep(ms)) \/ ReadBlocks
       \/ CharWakes \/ WakeSleeper \/ ClockPreempt \/ DispatchReap \/ DispatchRun
       \/ UNCHANGED queue
  BY DEF Next, SystemCall, Interrupt, KernelLoop, Kill, SetPriority, SetTime,
         ReadBuffered, ClockTick, CharBuffered, ClockContinue, DispatchPanic, pcbVars
<1> QED BY <1>1, <1>2, <1>3, <1>4, <1>5, <1>6, <1>7, <1>8, <1>9, <1>10, <1>11, <1>12

-----------------------------------------------------------------------------
(* Steps of the handlers of other modules.                                 *)

LEMMA RetTyped ==
  ASSUME TypeOK, CallsType, (\E v \in Statuses : Ret(v)) \/ NoRet
  PROVE  CallsType'
<1>1. current \in Pcbs
  BY DEF TypeOK
<1>2. CASE NoRet
  BY <1>2 DEF NoRet, CallsType, Statuses
<1>3. ASSUME NEW v \in Statuses, Ret(v) PROVE CallsType'
  BY <1>1, <1>3 DEF Ret, CallsType
<1> QED BY <1>2, <1>3

LEMMA CoreKeptSound ==
  ASSUME CallsSound, CallsType', NEW m, CoreKept(m), mode \in Busy, m \in Busy
  PROVE  CallsSound' /\ UNCHANGED <<queue, current, pid>>
<1>1. TypeOK'
  BY DEF CallsSound, TypeOK, CoreKept, pcbVars, memVars, Modes, Busy
<1>2. Placement'
  BY KeepPlacement DEF CallsSound, CoreKept, pcbVars, Busy
<1> QED BY <1>1, <1>2 DEF CallsSound, CoreKept, pcbVars

(* The current process waits: behind the first n of queue q.               *)
LEMMA BlockAtSound ==
  ASSUME CallsSound, User, NEW q \in QueueIds \ CoreQs, NEW n \in 0 .. Len(queue[q]),
         BlockAt(q, n)
  PROVE  /\ CallsSound' /\ UNCHANGED <<current, pid>>
         /\ \A r \in QueueIds \ {q} : queue'[r] = queue[r]
         /\ \A p \in Pcbs : In(q, p)' <=> In(q, p) \/ p = current
         /\ In(q, current)'
<1>0. TypeOK /\ Placement /\ CallsType /\ current \in Pcbs /\ queue[q] \in Seq(Pcbs)
      /\ queue \in [QueueIds -> Seq(Pcbs)]
  BY DEF CallsSound, TypeOK
<1> DEFINE t == InsertAt(queue[q], n + 1, current)
<1>1. /\ queue' = [queue EXCEPT ![q] = t] /\ mode' = "dispatch"
      /\ UNCHANGED <<pcbVars, wakeKey, current, nextPid, time, memVars, incount, left>>
      /\ eax' = [eax EXCEPT ![current] = q[1]] /\ owed' = TRUE /\ result' = "none"
  BY DEF BlockAt
<1>2. t \in Seq(Pcbs) /\ \A r : Contains(t, r) <=> Contains(queue[q], r) \/ r = current
  <2> DEFINE s == queue[q]
  <2>1. s \in Seq(Pcbs) /\ n \in 0 .. Len(s)
    BY <1>0
  <2> HIDE DEF s
  <2>2. InsertAt(s, n + 1, current) \in Seq(Pcbs)
        /\ \A r : Contains(InsertAt(s, n + 1, current), r) <=> Contains(s, r) \/ r = current
    BY <2>1, <1>0, InsertAtFacts
  <2> QED BY <2>2 DEF s
<1> HIDE DEF t
<1>3. queue' \in [QueueIds -> Seq(Pcbs)]
  BY <1>0, <1>1, <1>2
<1>4. TypeOK'
  BY <1>0, <1>1, <1>3 DEF TypeOK, pcbVars, memVars, Modes
<1>5. Placement'
  <2>1. mode \in {"user", "wake", "release"} /\ mode' = "dispatch" /\ UNCHANGED <<current, state>>
    BY <1>1 DEF User, pcbVars
  <2>2. q \in QueueIds /\ q # FreeQ /\ q \notin {ReadQ} \cup ReadyQs
    BY DEF CoreQs
  <2>3. queue' = [queue EXCEPT ![q] = InsertAt(queue[q], n + 1, current)]
    BY <1>1 DEF t
  <2> QED BY <2>1, <2>2, <2>3, <1>0, QueueCurrentPlacement
<1>6. CallsType'
  <2>1. q[1] \in CallNumbers
    BY DEF CallNumbers, QueueIds, CoreQs
  <2> QED BY <1>0, <1>1, <2>1 DEF CallsType, Statuses
<1>7. queue'[q] = t /\ \A r \in QueueIds \ {q} : queue'[r] = queue[r]
  BY <1>0, <1>1
<1>8. \A p \in Pcbs : In(q, p)' <=> In(q, p) \/ p = current
  BY <1>2, <1>7 DEF In
<1>9. In(q, current)'
  BY <1>0, <1>1, <1>8
<1> QED BY <1>1, <1>4, <1>5, <1>6, <1>7, <1>8, <1>9 DEF CallsSound, pcbVars

(* Process p leaves queue q for a ready queue while the handler goes on.   *)
LEMMA ReleasePlacement ==
  ASSUME TypeOK, Placement, mode \in Busy, mode' \in Busy, UNCHANGED current,
         NEW q \in QueueIds \ CoreQs, NEW p \in Pcbs, In(q, p), NEW to \in ReadyQs,
         AtMostOnePlace', state' = [state EXCEPT ![p] = "READY"],
         \A r \in QueueIds, x \in Pcbs :
           In(r, x)' <=> (In(r, x) /\ x # p) \/ (r = to /\ x = p)
  PROVE  Placement'
<1>1. to \in QueueIds /\ to # FreeQ /\ FreeQ \in QueueIds /\ ReadQ \in QueueIds
      /\ ReadyQs \subseteq QueueIds
  BY QueueIdFacts DEF ReadyQs, QueueIds
<1>2. current \in Pcbs /\ current # p
  BY DEF TypeOK, Placement, CurrentPlaced, Busy
<1>3. CurrentPlaced' /\ NoneLost'
  BY <1>1, <1>2 DEF CurrentPlaced, NoneLost, Placement, Busy
<1>4. FreeMeansFree'
  <2>1. \A r \in Pcbs : state'[r] = IF r = p THEN "READY" ELSE state[r]
    BY DEF TypeOK
  <2> QED BY <2>1, <1>1 DEF FreeMeansFree, Placement
<1> QED BY <1>3, <1>4 DEF Placement

(* _q_remove and _sched of the head.                                       *)
LEMMA SchedHeadSound ==
  ASSUME CallsSound, CallsType', NEW q \in QueueIds \ CoreQs, SchedHead(q),
         mode \in Busy, mode' \in Busy
  PROVE  /\ CallsSound' /\ UNCHANGED <<current, pid>>
         /\ queue'[q] = Tail(queue[q]) /\ queue[q] # <<>>
         /\ \A r \in QueueIds \ ({q} \cup ReadyQs) : queue'[r] = queue[r]
<1> DEFINE p == Head(queue[q])
<1>0. TypeOK /\ Placement /\ QueueTyped /\ AtMostOnePlace
  BY DEF CallsSound, TypeOK, Placement, QueueTyped
<1>1. /\ queue[q] # <<>> /\ queue' = Move(q, p, ReadyQOf(p))
      /\ state' = [state EXCEPT ![p] = "READY"]
      /\ UNCHANGED <<priority, quantum, pid, pageDir, wakeKey, current, nextPid,
                     time, memVars, incount, left>>
  BY DEF SchedHead
<1>2. p \in Pcbs /\ In(q, p)
  BY <1>0, <1>1, HeadIsIn
<1>3. PICK to \in ReadyQs : to = ReadyQOf(p) /\ to \in QueueIds /\ q # to
  <2> HIDE DEF p
  <2>1. priority[p] \in Prios
    BY <1>0, <1>2 DEF TypeOK
  <2>2. ReadyQOf(p) \in ReadyQs /\ ReadyQOf(p) \in QueueIds
    BY <2>1, QueueIdFacts DEF ReadyQOf, ReadyQs
  <2>3. q \notin ReadyQs
    BY DEF CoreQs
  <2> QED BY <2>2, <2>3
<1>4. queue' \in [QueueIds -> Seq(Pcbs)]
  BY <1>0, <1>1, <1>2, <1>3, QueueTypes
<1>5. /\ queue'[q] = Tail(queue[q])
      /\ \A r \in QueueIds \ {q, to} : queue'[r] = queue[r]
  BY <1>0, <1>1, <1>3 DEF Move, QueueTyped
<1> HIDE DEF p
<1>6. TypeOK'
  <2>1. state' \in [Pcbs -> States] /\ mode' \in Modes
    BY <1>0, <1>1, <1>2 DEF TypeOK, States, Modes, Busy
  <2> QED BY <2>1, <1>0, <1>1, <1>4 DEF TypeOK, memVars
<1>7. /\ AtMostOnePlace'
      /\ \A r \in QueueIds, x \in Pcbs :
           In(r, x)' <=> (In(r, x) /\ x # p) \/ (r = to /\ x = p)
  BY <1>0, <1>1, <1>3, MovePlaces DEF p
<1>8. Placement'
  BY <1>0, <1>1, <1>2, <1>7, ReleasePlacement
<1> QED BY <1>1, <1>5, <1>6, <1>8 DEF CallsSound
=============================================================================
