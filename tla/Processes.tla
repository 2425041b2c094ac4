----------------------------- MODULE Processes -----------------------------
(***************************************************************************)
(* The process core of the kernel: the PCB table (pcbs.c), the four-level  *)
(* ready queue and the dispatcher (scheduler.c), the clock interrupt       *)
(* (clock.c), the system calls that create, end, block, delay or kill a    *)
(* process (syscalls.c), the receive side of the serial interrupt as far   *)
(* as it wakes processes (sio.c) and the page directory that is loaded     *)
(* while they run (_cleanup in system.c).                                  *)
(*                                                                         *)
(* Every handler runs with interrupts disabled (the IDT holds interrupt    *)
(* gates), so a handler is one action, except that its two loops -- the    *)
(* wake-up loop of _isr_clock and the loop of _dispatch -- are one action  *)
(* per iteration.  `mode' says where the CPU is:                           *)
(*    "user"      the current process runs, interrupts are enabled;        *)
(*    "wake"      _isr_clock is in its do-while over the sleep queue;      *)
(*    "dispatch"  a handler has called _dispatch, which has not returned;  *)
(*    "release"   a handler of a module that extends this one is in the    *)
(*                loop in which it releases its waiters;                   *)
(*    "panic"     _kpanic: the machine has halted.                         *)
(* Only the loop's own actions are enabled in "wake", "dispatch" and       *)
(* "release", so no other handler can come between a call of _dispatch and *)
(* its return.                                                             *)
(*                                                                         *)
(* Every Queue of PCBs in the kernel is one entry of `queue'.  The queues  *)
(* of WaitQueues belong to the modules that extend this one (semaphores,   *)
(* locks, messages); here they stay empty.                                 *)
(*                                                                         *)
(* A definition named X_Something before a definition X is X with one      *)
(* plausible mistake in the code it stands for.  No specification uses it; *)
(* put in the place of X it must break the property named beside it, which *)
(* shows that the property can fail.                                       *)
(***************************************************************************)
EXTENDS Integers, Sequences, SequencesExt

CONSTANTS
  N_PCBS,         \* size of the PCB table _pcbs[]
  STD_QUANTUM,    \* ticks a process may run after it is dispatched
  TIME_MOD,       \* _system_time and the sleep keys count modulo this (2^32)
  BUF_SIZE,       \* capacity of the serial input buffer
  VIDEO,          \* FALSE in a build with VIDEO_DISABLE: no desktop thread
  WaitQueues,     \* ids of the wait queues of other modules
  Dirs,           \* frames that can hold a page directory
  KernelDir,      \* __virt_kpage_directory
  InitDir,        \* the directory cloned for the initial process
  \* The arguments that user programs pass, and the bounds of the model.
  SleepArgs,      \* milliseconds given to msleep()
  PrioArgs,       \* priorities given to set_priority()
  TimeArgs,       \* times given to set_time()
  KillArgs,       \* pids given to kill()
  InputPids,      \* pids of the processes that read from the serial line
  MaxPid,         \* bound: fork() is not called once this pid is taken
  MaxTime         \* bound: the clock stops here (TIME_MOD or more: never)

KernelAssumption ==
  /\ N_PCBS \in Nat /\ N_PCBS >= 2
  /\ STD_QUANTUM \in Nat
  /\ TIME_MOD \in Nat \ {0}
  /\ BUF_SIZE \in Nat
  /\ VIDEO \in BOOLEAN
  /\ KernelDir \in Dirs /\ InitDir \in Dirs
  /\ SleepArgs \subseteq Nat
  /\ PrioArgs \subseteq Nat
  /\ TimeArgs \subseteq 0 .. (TIME_MOD - 1)
  /\ KillArgs \subseteq Nat

ASSUME Assumptions == KernelAssumption

-----------------------------------------------------------------------------
(* The PCB table and the queues.                                           *)

Pcbs == 1 .. N_PCBS

PRIO_HIGH == 0
PRIO_IDLE == 3
N_PRIOS   == 4
Prios     == 0 .. (N_PRIOS - 1)
PID_INIT  == 1

FreeQ     == <<"free", 0>>       \* _pcb_free_queue
SleepQ    == <<"sleeping", 0>>   \* _sleeping, ascending by wake-up time
ReadQ     == <<"reading", 0>>    \* _reading
ReadyQ(k) == <<"ready", k>>      \* _ready[k]

ReadyQs   == {ReadyQ(k) : k \in Prios}
QueueIds  == {FreeQ, SleepQ, ReadQ} \cup ReadyQs \cup WaitQueues

\* SLEEPING is in the header but no code ever assigns it.
States == {"FREE", "NEW", "READY", "RUNNING", "BLOCKED", "KILLED"}
Modes  == {"user", "wake", "dispatch", "release", "panic"}

VARIABLES
  queue,      \* [QueueIds -> Seq(Pcbs)], heads first
  state,      \* Pcb.state
  priority,   \* Pcb.priority
  quantum,    \* Pcb.quantum
  pid,        \* Pcb.pid
  pageDir,    \* Pcb.page_directory
  wakeKey,    \* the key of the PCB's node in the sleep queue
  current,    \* _current
  nextPid,    \* _next_pid
  time,       \* _system_time
  mode,
  cr3,        \* the page directory the MMU uses
  liveDirs,   \* the frames of Dirs the physical allocator holds as taken
  incount,    \* _incount: characters nobody has read
  left        \* history: ticks each sleeper has still to sleep

pcbVars == <<state, priority, quantum, pid, pageDir>>
memVars == <<cr3, liveDirs>>
vars    == <<queue, pcbVars, wakeKey, current, nextPid, time, mode, memVars,
             incount, left>>

\* _pcb_init puts the whole table into the free queue, in order; this is what
\* is left when the first n have been taken.
FreePcbs(n) == [i \in 1 .. (N_PCBS - n) |-> i + n]

(* _init(): the first PCB becomes the current process without passing      *)
(* through _dispatch, so its state is still FREE and its quantum 0.  With  *)
(* video, _create_kernel_thread has copied that PCB for the desktop thread, *)
(* which shares the page directory, and scheduled it.                      *)
Init ==
  LET desktop(yes, no) == IF VIDEO THEN yes ELSE no
      taken == desktop(2, 1)
  IN
  /\ queue    = [q \in QueueIds |->
                   CASE q = FreeQ -> FreePcbs(taken)
                     [] q = ReadyQ(PRIO_HIGH) -> desktop(<<2>>, <<>>)
                     [] OTHER -> <<>>]
  /\ state    = [p \in Pcbs |-> IF p = 2 THEN desktop("READY", "FREE")
                                         ELSE "FREE"]
  /\ priority = [p \in Pcbs |-> PRIO_HIGH]
  /\ quantum  = [p \in Pcbs |-> 0]
  /\ pid      = [p \in Pcbs |-> IF p <= taken THEN p ELSE 0]
  /\ pageDir  = [p \in Pcbs |-> IF p <= taken THEN InitDir ELSE KernelDir]
  /\ wakeKey  = [p \in Pcbs |-> 0]
  /\ current  = 1
  /\ nextPid  = taken + 1
  /\ time     = 0
  /\ mode     = "user"
  /\ cr3      = InitDir
  /\ liveDirs = {KernelDir, InitDir}
  /\ incount  = 0
  /\ left     = [p \in Pcbs |-> 0]

-----------------------------------------------------------------------------
(* Operators for the routines the handlers call.                           *)

\* The queues after the head of `from' has been removed and `p' added at the
\* tail of `to' (_q_remove; _q_insert without an ordering).
Move_Peek(from, p, to) ==          \* _q_peek for _q_remove: ProcessSound
  [queue EXCEPT ![to] = Append(@, p)]

Move(from, p, to) ==
  [queue EXCEPT ![from] = Tail(@), ![to] = Append(@, p)]

\* The queues after `p', which is in none, has been added at the tail of `to'.
Enqueue_Front(p, to)   == [queue EXCEPT ![to] = <<p>> \o @]
                                   \* last in, first out: HighPriorityRuns
Enqueue(p, to) == [queue EXCEPT ![to] = Append(@, p)]

\* In an ascending queue _q_insert puts the node behind the first n nodes:
\* every one of them has a key not above k, and the next one, if any, has.
InsertionPoint(s, n, k) ==
  /\ n \in 0 .. Len(s)
  /\ \A i \in 1 .. n : wakeKey[s[i]] <= k
  /\ n < Len(s) => wakeKey[s[n + 1]] > k

\* _sched(p): the ready queue of p's priority.  Its two error returns cannot
\* be taken: no caller passes NULL and every priority is valid (TypeOK).
ReadyQOf(p) == ReadyQ(priority[p])

\* _pcb_alloc panics when the PCB that it takes is not FREE.
Allocatable(p) == state[p] = "FREE"

\* The states after _pcb_dealloc(p), which also puts p into the free queue.
Freed(p) == [state EXCEPT ![p] = "FREE"]

\* _cleanup(p) up to the return of the PCB to the free queue.  It frees the
\* directory that is LOADED when p is _current; both callers modelled here
\* pass _current, so its other branch is never taken.
Cleanup_KeepsDirectory(p) ==       \* DirectoriesOwned
  /\ cr3' = KernelDir
  /\ state' = Freed(p)
  /\ UNCHANGED liveDirs

Cleanup(p) ==
  /\ liveDirs' = liveDirs \ {cr3}
  /\ cr3' = KernelDir
  /\ state' = Freed(p)

User == mode = "user"

-----------------------------------------------------------------------------
(* System calls of the current process (syscalls.c).                       *)

\* The initial process only forks, changes its priority and then runs for
\* ever as the idle process; the desktop thread's loop does not end either.
IsInit    == pid[current] = PID_INIT
IsDesktop == VIDEO /\ pid[current] = PID_INIT + 1

\* The child's PCB: a clone of the directory, a new pid, the rest a copy.
ForkChild_SamePid(new) ==          \* PidsUnique
  /\ \E d \in Dirs \ liveDirs :
       /\ pageDir'  = [pageDir EXCEPT ![new] = d]
       /\ liveDirs' = liveDirs \cup {d}
  /\ priority' = [priority EXCEPT ![new] = priority[current]]
  /\ quantum'  = [quantum EXCEPT ![new] = quantum[current]]
  /\ pid'      = [pid EXCEPT ![new] = pid[current]]
  /\ nextPid'  = nextPid + 1

ForkChild(new) ==
  /\ \E d \in Dirs \ liveDirs :
       /\ pageDir'  = [pageDir EXCEPT ![new] = d]
       /\ liveDirs' = liveDirs \cup {d}
  /\ priority' = [priority EXCEPT ![new] = priority[current]]
  /\ quantum'  = [quantum EXCEPT ![new] = quantum[current]]
  /\ pid'      = [pid EXCEPT ![new] = nextPid]
  /\ nextPid'  = nextPid + 1

\* _sys_fork: take a PCB, make it the child, schedule the child, go on with
\* the parent.  Without a free PCB the call fails and changes nothing here.
Fork ==
  /\ User
  /\ nextPid < MaxPid                                  \* bound
  /\ queue[FreeQ] # <<>>
  /\ LET new == Head(queue[FreeQ]) IN
     IF Allocatable(new)
       THEN /\ ForkChild(new)
            /\ queue' = Move(FreeQ, new, ReadyQ(priority[current]))
            /\ state' = [state EXCEPT ![new] = "READY"]
            /\ cr3'   = pageDir[current]
            /\ UNCHANGED mode
       ELSE /\ queue' = [queue EXCEPT ![FreeQ] = Tail(@)]
            /\ mode'  = "panic"
            /\ UNCHANGED <<pcbVars, nextPid, memVars>>
  /\ UNCHANGED <<wakeKey, current, time, incount, left>>

\* _sys_exit, also taken for a system call number that does not exist.
Exit ==
  /\ User
  /\ ~IsInit /\ ~IsDesktop
  /\ Cleanup(current)
  /\ queue' = Enqueue(current, FreeQ)
  /\ mode' = "dispatch"
  /\ UNCHANGED <<priority, quantum, pid, pageDir, wakeKey, current, nextPid,
                 time, incount, left>>

\* _sys_msleep(0) only yields.
Yield ==
  /\ User
  /\ state' = [state EXCEPT ![current] = "READY"]
  /\ queue' = Enqueue(current, ReadyQOf(current))
  /\ mode'  = "dispatch"
  /\ UNCHANGED <<priority, quantum, pid, pageDir, wakeKey, current, nextPid,
                 time, memVars, incount, left>>

\* _sys_msleep(ms): the state stays what it was, the node's key is the
\* wake-up time in the clock's arithmetic.
Sleep(ms) ==
  /\ User
  /\ ~IsInit
  /\ ms > 0
  /\ time + ms <= MaxTime                              \* bound
  /\ LET key == (time + ms) % TIME_MOD
         s   == queue[SleepQ]
     IN  /\ \E n \in 0 .. Len(s) :
              /\ InsertionPoint(s, n, key)
              /\ queue' = [queue EXCEPT ![SleepQ] = InsertAt(s, n + 1, current)]
         /\ wakeKey' = [wakeKey EXCEPT ![current] = key]
  /\ left' = [left EXCEPT ![current] = ms]
  /\ mode' = "dispatch"
  /\ UNCHANGED <<pcbVars, current, nextPid, time, memVars, incount>>

\* _sys_kill: brute-force scan of the table for the pid.  The victim is only
\* marked; nothing moves it and nothing is dispatched.
Kill(victimPid) ==
  LET victims == {p \in Pcbs : pid[p] = victimPid /\ state[p] # "FREE"} IN
  /\ User
  /\ \E v \in victims :
       /\ \A p \in victims : v <= p
       /\ state' = [state EXCEPT ![v] = "KILLED"]
  /\ UNCHANGED <<queue, priority, quantum, pid, pageDir, wakeKey, current,
                 nextPid, time, mode, memVars, incount, left>>

\* _sys_set_priority: only for the caller, only when the value is valid.
SetPriority(prio) ==
  /\ User
  /\ prio < N_PRIOS
  /\ priority' = [priority EXCEPT ![current] = prio]
  /\ UNCHANGED <<queue, state, quantum, pid, pageDir, wakeKey, current,
                 nextPid, time, mode, memVars, incount, left>>

\* _sys_set_time: "extremely simple, but disturbingly powerful".
SetTime(t) ==
  /\ User
  /\ time' = t
  /\ UNCHANGED <<queue, pcbVars, wakeKey, current, nextPid, mode, memVars,
                 incount, left>>

\* _sys_read with a character in the input buffer (_sio_readc).
ReadBuffered ==
  /\ User
  /\ pid[current] \in InputPids
  /\ incount > 0
  /\ incount' = incount - 1
  /\ UNCHANGED <<queue, pcbVars, wakeKey, current, nextPid, time, mode,
                 memVars, left>>

\* _sys_read with an empty input buffer.
InputEmpty_Never == TRUE           \* blocks in any case: ReaderHasNoInput

InputEmpty == incount = 0

ReadBlocks ==
  /\ User
  /\ ~IsInit
  /\ pid[current] \in InputPids
  /\ InputEmpty
  /\ state' = [state EXCEPT ![current] = "BLOCKED"]
  /\ queue' = Enqueue(current, ReadQ)
  /\ mode'  = "dispatch"
  /\ UNCHANGED <<priority, quantum, pid, pageDir, wakeKey, current, nextPid,
                 time, memVars, incount, left>>

-----------------------------------------------------------------------------
(* Interrupts.                                                             *)

Due_Strict(p) == wakeKey[p] < time         \* NeverLate, SleeperWakes
Due_Early(p)  == wakeKey[p] <= time + 1    \* NeverEarly

Due(p) == wakeKey[p] <= time

\* _isr_clock up to its wake-up loop.
ClockTick ==
  /\ User
  /\ time < MaxTime                                    \* bound
  /\ time' = (time + 1) % TIME_MOD
  /\ left' = [p \in Pcbs |-> IF left[p] > 0 THEN left[p] - 1 ELSE 0]
  /\ mode' = "wake"
  /\ UNCHANGED <<queue, pcbVars, wakeKey, current, nextPid, memVars, incount>>

\* One iteration of the loop: the head of the sleep queue is due.
WakeSleeper ==
  /\ mode = "wake"
  /\ queue[SleepQ] # <<>>
  /\ LET p == Head(queue[SleepQ]) IN
     /\ Due(p)
     /\ queue' = Move(SleepQ, p, ReadyQOf(p))
     /\ state' = [state EXCEPT ![p] = "READY"]
     /\ left'  = [left EXCEPT ![p] = 0]
     /\ wakeKey' = [wakeKey EXCEPT ![p] = 0]           \* the node is freed
  /\ UNCHANGED <<priority, quantum, pid, pageDir, current, nextPid, time, mode,
                 memVars, incount>>

NobodyDue == queue[SleepQ] # <<>> => ~Due(Head(queue[SleepQ]))

\* The loop is over and the current process keeps the CPU.
ClockContinue ==
  /\ mode = "wake"
  /\ NobodyDue
  /\ quantum[current] >= 1
  /\ quantum' = [quantum EXCEPT ![current] = @ - 1]
  /\ mode' = "user"
  /\ UNCHANGED <<queue, state, priority, pid, pageDir, wakeKey, current,
                 nextPid, time, memVars, incount, left>>

\* The loop is over and the current process has used its quantum.
ClockPreempt ==
  /\ mode = "wake"
  /\ NobodyDue
  /\ quantum[current] < 1
  /\ state' = [state EXCEPT ![current] = "READY"]
  /\ queue' = Enqueue(current, ReadyQOf(current))
  /\ mode'  = "dispatch"
  /\ UNCHANGED <<priority, quantum, pid, pageDir, wakeKey, current, nextPid,
                 time, memVars, incount, left>>

\* _isr_sio with a received character and a blocked reader: the first reader
\* gets the character.
CharWakes ==
  /\ User
  /\ queue[ReadQ] # <<>>
  /\ LET p == Head(queue[ReadQ]) IN
     /\ queue' = Move(ReadQ, p, ReadyQOf(p))
     /\ state' = [state EXCEPT ![p] = "READY"]
  /\ UNCHANGED <<priority, quantum, pid, pageDir, wakeKey, current, nextPid,
                 time, mode, memVars, incount, left>>

\* _isr_sio with a received character and nobody waiting: kept while there is
\* room, otherwise ignored.
CharBuffered ==
  /\ User
  /\ queue[ReadQ] = <<>>
  /\ incount < BUF_SIZE
  /\ incount' = incount + 1
  /\ UNCHANGED <<queue, pcbVars, wakeKey, current, nextPid, time, mode,
                 memVars, left>>

-----------------------------------------------------------------------------
(* The loop of _dispatch (scheduler.c).                                    *)

\* The first ready queue that is not empty.
TopQueue(k) ==
  /\ queue[ReadyQ(k)] # <<>>
  /\ \A j \in Prios : j < k => queue[ReadyQ(j)] = <<>>

Killed_Ignored(p) == FALSE         \* not looked at: DispatchSound

Killed(p) == state[p] = "KILLED"

\* The process taken is KILLED: it becomes _current, is cleaned up, and the
\* loop goes round again.
DispatchReap ==
  /\ mode = "dispatch"
  /\ \E k \in Prios :
       /\ TopQueue(k)
       /\ LET p == Head(queue[ReadyQ(k)]) IN
          /\ Killed(p)
          /\ Cleanup(p)
          /\ queue'   = Move(ReadyQ(k), p, FreeQ)
          /\ current' = p
  /\ UNCHANGED <<priority, quantum, pid, pageDir, wakeKey, nextPid, time,
                 mode, incount, left>>

\* The process taken runs.
DispatchRun ==
  /\ mode = "dispatch"
  /\ \E k \in Prios :
       /\ TopQueue(k)
       /\ LET p == Head(queue[ReadyQ(k)]) IN
          /\ ~Killed(p)
          /\ queue'   = [queue EXCEPT ![ReadyQ(k)] = Tail(@)]
          /\ state'   = [state EXCEPT ![p] = "RUNNING"]
          /\ quantum' = [quantum EXCEPT ![p] = STD_QUANTUM]
          /\ current' = p
          /\ cr3'     = pageDir[p]
  /\ mode' = "user"
  /\ UNCHANGED <<priority, pid, pageDir, wakeKey, nextPid, time, liveDirs,
                 incount, left>>

\* "no non-empty readyq".
DispatchPanic ==
  /\ mode = "dispatch"
  /\ \A k \in Prios : queue[ReadyQ(k)] = <<>>
  /\ mode' = "panic"
  /\ UNCHANGED <<queue, pcbVars, wakeKey, current, nextPid, time, memVars,
                 incount, left>>

-----------------------------------------------------------------------------
SystemCall ==
  \/ Fork
  \/ Exit
  \/ Yield
  \/ \E ms \in SleepArgs : Sleep(ms)
  \/ \E victimPid \in KillArgs : Kill(victimPid)
  \/ \E prio \in PrioArgs : SetPriority(prio)
  \/ \E t \in TimeArgs : SetTime(t)
  \/ ReadBuffered
  \/ ReadBlocks

Interrupt ==
  \/ ClockTick
  \/ CharWakes
  \/ CharBuffered

KernelLoop ==
  \/ WakeSleeper
  \/ ClockContinue
  \/ ClockPreempt
  \/ DispatchReap
  \/ DispatchRun
  \/ DispatchPanic

Next == SystemCall \/ Interrupt \/ KernelLoop

Spec == Init /\ [][Next]_vars

(* A handler always runs to its end.  The timer interrupt stays pending in *)
(* the interrupt controller until the CPU enables interrupts again, so it  *)
(* is taken whenever it is possible again and again.  Programs and the     *)
(* serial line owe nothing.                                                *)
Fairness == WF_vars(KernelLoop) /\ SF_vars(ClockTick)

FairSpec == Spec /\ Fairness
=============================================================================
