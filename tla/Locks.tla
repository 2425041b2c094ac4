------------------------------- MODULE Locks -------------------------------
(***************************************************************************)
(* Reader/writer locks (locks.c and their four system calls).              *)
(*                                                                         *)
(* The waiters of a lock stand in one queue ordered by mode: writers       *)
(* first, then readers, each kind in the order of the calls.  A lock that  *)
(* is handed over belongs to the waiter at once: the waiter does not try   *)
(* again when it runs.                                                     *)
(*                                                                         *)
(* The code keeps no record of who holds a lock; the history variable      *)
(* `holds' does.  Programs are assumed to pair their calls: a process      *)
(* locks only what it does not hold, unlocks only what it holds, in the    *)
(* mode it holds it in, and does not exit while it holds a lock.           *)
(***************************************************************************)
EXTENDS Calls, FiniteSets

CONSTANTS
  Readers,    \* pids of the processes that lock for reading
  Writers,    \* pids of the processes that lock for writing
  MaxLocks    \* bound: lock_init() is not called after this many

LockIds   == 1 .. MaxLocks
LockQ(l)  == <<"lock", l>>
LockModes == {"LOCK_READ", "LOCK_WRITE"}

LockAssumption ==
  /\ MaxLocks \in Nat
  /\ PID_INIT \notin Readers \cup Writers
  /\ \A l \in LockIds : LockQ(l) \in WaitQueues

ASSUME LockAssumptions == LockAssumption

VARIABLES
  lockCount,          \* _lock_count: the locks are 1 .. lockCount
  readerCount,        \* LockInfo.readerCount
  writerWaitingCount, \* LockInfo.writerWaitingCount
  hasWriter,          \* LockInfo.hasWriter
  wanted,             \* LockWaiter.mode of a process that waits
  flushing,           \* the lock whose readers _lock_unlock is flushing, or 0
  holds               \* history: the mode in which a process holds a lock

lockVars == <<lockCount, readerCount, writerWaitingCount, hasWriter, wanted,
              flushing, holds>>

LockInit ==
  /\ Init /\ CallsInit
  /\ lockCount = 0
  /\ readerCount = [l \in LockIds |-> 0]
  /\ writerWaitingCount = [l \in LockIds |-> 0]
  /\ hasWriter = [l \in LockIds |-> FALSE]
  /\ wanted = [p \in Pcbs |-> "none"]
  /\ flushing = 0
  /\ holds = [l \in LockIds |-> [p \in Pcbs |-> "none"]]

-----------------------------------------------------------------------------
\* _lock_find_by_key
Exists(l) == l \in LockIds /\ l <= lockCount

UnknownLock(l) ==
  /\ User
  /\ ~Exists(l)
  /\ Ret(IF lockCount = 0 THEN "EMPTY_QUEUE" ELSE "NOT_FOUND")
  /\ CoreKept(mode)
  /\ UNCHANGED lockVars

LockNew ==
  /\ User
  /\ lockCount < MaxLocks                              \* bound
  /\ lockCount' = lockCount + 1
  /\ Ret("SUCCESS")
  /\ CoreKept(mode)
  /\ UNCHANGED <<readerCount, writerWaitingCount, hasWriter, wanted, flushing,
                 holds>>

\* _lock_destroy finds the lock and does nothing to it.
LockDestroy(l) ==
  /\ User
  /\ Exists(l)
  /\ Ret("FAILURE")
  /\ CoreKept(mode)
  /\ UNCHANGED lockVars

\* The process may make the call (see above).
MayLock(l, m) ==
  /\ User
  /\ Exists(l)
  /\ holds[l][current] = "none"
  /\ pid[current] \in IF m = "LOCK_READ" THEN Readers ELSE Writers

\* A reader may not overtake a writer, nor a writer anyone.
MustWait_HolderOnly(l, m) ==            \* forgets the waiting: ReadersYield
  \/ hasWriter[l]
  \/ m = "LOCK_WRITE" /\ readerCount[l] > 0

MustWait(l, m) ==
  \/ hasWriter[l]
  \/ writerWaitingCount[l] > 0
  \/ m = "LOCK_WRITE" /\ readerCount[l] > 0

LockLock(l, m) ==
  /\ MayLock(l, m)
  /\ ~MustWait(l, m)
  /\ IF m = "LOCK_READ"
       THEN /\ readerCount' = [readerCount EXCEPT ![l] = @ + 1]
            /\ UNCHANGED hasWriter
       ELSE /\ hasWriter' = [hasWriter EXCEPT ![l] = TRUE]
            /\ UNCHANGED readerCount
  /\ holds' = [holds EXCEPT ![l][current] = m]
  /\ Ret("SUCCESS")
  /\ CoreKept(mode)
  /\ UNCHANGED <<lockCount, writerWaitingCount, wanted, flushing>>

\* The key of a waiter in the ascending wait queue of its lock.
WaitKey(m) == IF m = "LOCK_READ" THEN 1 ELSE 0

BehindEqual_Before(s, n, m) ==          \* before its equals: WriterServed
  /\ \A i \in 1 .. n : WaitKey(wanted[s[i]]) < WaitKey(m)
  /\ n < Len(s) => WaitKey(wanted[s[n + 1]]) >= WaitKey(m)

BehindEqual(s, n, m) ==
  /\ \A i \in 1 .. n : WaitKey(wanted[s[i]]) <= WaitKey(m)
  /\ n < Len(s) => WaitKey(wanted[s[n + 1]]) > WaitKey(m)

\* _lock_insert_waiter.
LockWait(l, m) ==
  /\ MayLock(l, m)
  /\ MustWait(l, m)
  /\ LET s == queue[LockQ(l)] IN
     \E n \in 0 .. Len(s) :
       /\ BehindEqual(s, n, m)
       /\ BlockAt(LockQ(l), n)
  /\ wanted' = [wanted EXCEPT ![current] = m]
  /\ writerWaitingCount' =
       [writerWaitingCount EXCEPT ![l] = @ + (1 - WaitKey(m))]
  /\ UNCHANGED <<lockCount, readerCount, hasWriter, flushing, holds>>

-----------------------------------------------------------------------------
(* _lock_unlock.                                                           *)

MayUnlock(l, m) ==
  /\ User
  /\ Exists(l)
  /\ holds[l][current] = m

\* readerCount[l] once the caller is no longer counted.
ReadersLeft(l, m) == readerCount[l] - WaitKey(m)

\* Nobody holds the lock for writing and no writer waits.
UnlockQuiet(l, m) ==
  /\ MayUnlock(l, m)
  /\ writerWaitingCount[l] = 0 /\ ~hasWriter[l]
  /\ readerCount' = [readerCount EXCEPT ![l] = ReadersLeft(l, m)]
  /\ holds' = [holds EXCEPT ![l][current] = "none"]
  /\ Ret("SUCCESS")
  /\ CoreKept(mode)
  /\ UNCHANGED <<lockCount, writerWaitingCount, hasWriter, wanted, flushing>>

\* There is nobody to hand the lock to.
UnlockEmpty(l, m) ==
  /\ MayUnlock(l, m)
  /\ writerWaitingCount[l] > 0 \/ hasWriter[l]
  /\ queue[LockQ(l)] = <<>>
  /\ readerCount' = [readerCount EXCEPT ![l] = ReadersLeft(l, m)]
  /\ IF m = "LOCK_WRITE"
       THEN hasWriter' = [hasWriter EXCEPT ![l] = FALSE] /\ Ret("SUCCESS")
       ELSE UNCHANGED hasWriter /\ Ret("EMPTY_QUEUE")
  /\ holds' = [holds EXCEPT ![l][current] = "none"]
  /\ CoreKept(mode)
  /\ UNCHANGED <<lockCount, writerWaitingCount, wanted, flushing>>

\* The head of the wait queue gets the lock.
Handover(l, m, p) ==
  /\ wanted' = [wanted EXCEPT ![p] = "none"]
  /\ holds' = [holds EXCEPT ![l][current] = "none", ![l][p] = wanted[p]]

UnlockToWriter(l, m) ==
  /\ MayUnlock(l, m)
  /\ writerWaitingCount[l] > 0 \/ hasWriter[l]
  /\ SchedHead(LockQ(l))
  /\ LET p == Head(queue[LockQ(l)]) IN
     /\ wanted[p] = "LOCK_WRITE"
     /\ Handover(l, m, p)
  /\ readerCount' = [readerCount EXCEPT ![l] = ReadersLeft(l, m)]
  /\ writerWaitingCount' = [writerWaitingCount EXCEPT ![l] = @ - 1]
  /\ hasWriter' = [hasWriter EXCEPT ![l] = TRUE]
  /\ Ret("SUCCESS")
  /\ UNCHANGED <<mode, lockCount, flushing>>

\* A reader at the head: no writer waits, and all the readers get it.
UnlockToReaders(l, m) ==
  /\ MayUnlock(l, m)
  /\ writerWaitingCount[l] > 0 \/ hasWriter[l]
  /\ SchedHead(LockQ(l))
  /\ LET p == Head(queue[LockQ(l)]) IN
     /\ wanted[p] = "LOCK_READ"
     /\ Handover(l, m, p)
  /\ readerCount' = [readerCount EXCEPT ![l] = ReadersLeft(l, m) + 1]
  /\ hasWriter' = [hasWriter EXCEPT ![l] = FALSE]
  /\ flushing' = l
  /\ mode' = "release"
  /\ NoRet
  /\ UNCHANGED <<lockCount, writerWaitingCount>>

FlushMore_One(l) == FALSE               \* wakes one reader only: LockSound
FlushMore(l) == queue[LockQ(l)] # <<>>

FlushReader ==
  LET l == flushing IN
  /\ l # 0
  /\ FlushMore(l)
  /\ ReleaseHead(LockQ(l))
  /\ LET p == Head(queue[LockQ(l)]) IN
     /\ wanted' = [wanted EXCEPT ![p] = "none"]
     /\ holds'  = [holds EXCEPT ![l][p] = wanted[p]]
  /\ readerCount' = [readerCount EXCEPT ![l] = @ + 1]
  /\ NoRet
  /\ UNCHANGED <<lockCount, writerWaitingCount, hasWriter, flushing>>

FlushDone ==
  /\ flushing # 0
  /\ ~FlushMore(flushing)
  /\ flushing' = 0
  /\ Ret("SUCCESS")
  /\ CoreKept("user")
  /\ UNCHANGED <<lockCount, readerCount, writerWaitingCount, hasWriter, wanted,
                 holds>>

-----------------------------------------------------------------------------
LockUnlock(l, m) ==
  \/ UnlockQuiet(l, m)
  \/ UnlockEmpty(l, m)
  \/ UnlockToWriter(l, m)
  \/ UnlockToReaders(l, m)

LockCall ==
  \/ LockNew
  \/ \E l \in LockIds : UnknownLock(l) \/ LockDestroy(l)
  \/ \E l \in LockIds, m \in LockModes :
       LockLock(l, m) \/ LockWait(l, m) \/ LockUnlock(l, m)

LockLoop == FlushReader \/ FlushDone

\* A step of the process core; a process that holds a lock does not exit.
LockCore ==
  /\ Core
  /\ \A l \in LockIds, p \in Pcbs : holds[l][p] # "none" => state'[p] # "FREE"
  /\ UNCHANGED lockVars

LockNext == LockCore \/ LockCall \/ LockLoop

allVars == <<vars, callVars, lockVars>>

LockSpec == LockInit /\ [][LockNext]_allVars

LockFairSpec ==
  /\ LockSpec
  /\ WF_allVars(LockLoop)
  /\ WF_allVars(LockCore /\ KernelLoop)
  /\ SF_allVars(LockCore /\ ClockTick)

-----------------------------------------------------------------------------
(* Properties.                                                             *)

LockType ==
  /\ TypeOK /\ CallsType
  /\ lockCount \in 0 .. MaxLocks
  /\ readerCount \in [LockIds -> Nat]
  /\ writerWaitingCount \in [LockIds -> Nat]
  /\ hasWriter \in [LockIds -> BOOLEAN]
  /\ wanted \in [Pcbs -> LockModes \cup {"none"}]
  /\ flushing \in LockIds \cup {0}
  /\ holds \in [LockIds -> [Pcbs -> LockModes \cup {"none"}]]

Holders(l, m) == {p \in Pcbs : holds[l][p] = m}
Waiters(l, m) == {p \in Pcbs : In(LockQ(l), p) /\ wanted[p] = m}

\* The counters that decide who may pass agree with who holds and who waits,
\* in the middle of a flush too.
CountsAgree ==
  \A l \in LockIds :
    /\ readerCount[l] = Cardinality(Holders(l, "LOCK_READ"))
    /\ writerWaitingCount[l] = Cardinality(Waiters(l, "LOCK_WRITE"))

\* Writing is exclusive (lock_lock.txt:11-12).  The code breaks it with two
\* readers: _lock_unlock of the one hands the lock to a writer although the
\* other still reads.
Exclusion ==
  \A l \in LockIds :
    Holders(l, "LOCK_WRITE") # {} =>
      /\ Cardinality(Holders(l, "LOCK_WRITE")) = 1
      /\ Holders(l, "LOCK_READ") = {}

\* Nobody waits for a lock that nobody holds: nobody would ever hand it over.
NoStuckWaiter ==
  User => \A l \in LockIds : queue[LockQ(l)] # <<>> =>
            \E m \in LockModes : Holders(l, m) # {}

\* The record that locks.c keeps of a lock is true, and no lock is left with
\* waiters that nobody will release.
LockSound == LockType /\ CountsAgree /\ NoStuckWaiter

\* A process gets the lock for reading only while no writer waits for it, from
\* the wait queue as well as by a new call: readers cannot starve a writer.
ReadersYield ==
  [][\A l \in LockIds :
       (\E p \in Pcbs : holds[l][p] # "LOCK_READ" /\ holds'[l][p] = "LOCK_READ")
         => Waiters(l, "LOCK_WRITE") = {}]_allVars

\* A waiting writer is served if the lock is handed over again and again,
\* whatever else the other processes do: writers are first come, first served.
WriterServed ==
  \A l \in LockIds, p \in Pcbs :
    []<><<\E m \in LockModes : LockUnlock(l, m)>>_allVars
      => (p \in Waiters(l, "LOCK_WRITE") ~> ~In(LockQ(l), p))
=============================================================================
