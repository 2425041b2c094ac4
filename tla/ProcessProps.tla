--------------------------- MODULE ProcessProps ---------------------------
(***************************************************************************)
(* What the process core must guarantee.                                   *)
(***************************************************************************)
EXTENDS Processes

TypeOK ==
  /\ queue    \in [QueueIds -> Seq(Pcbs)]
  /\ state    \in [Pcbs -> States]
  /\ priority \in [Pcbs -> Prios]
  /\ quantum  \in [Pcbs -> Nat]
  /\ pid      \in [Pcbs -> Nat]
  /\ pageDir  \in [Pcbs -> Dirs]
  /\ wakeKey  \in [Pcbs -> 0 .. (TIME_MOD - 1)]
  /\ current  \in Pcbs
  /\ nextPid  \in Nat
  /\ time     \in 0 .. (TIME_MOD - 1)
  /\ mode     \in Modes
  /\ cr3      \in Dirs
  /\ liveDirs \subseteq Dirs
  /\ incount  \in 0 .. BUF_SIZE
  /\ left     \in [Pcbs -> Nat]

\* PCB p stands in queue q.
In(q, p) == Contains(queue[q], p)

\* A PCB is never in two queues, nor twice in one: each _q_remove, _sched and
\* _pcb_dealloc moves the only node that holds it.  Otherwise a process would
\* run twice, or its PCB be handed to fork() while it still waits.
AtMostOnePlace ==
  /\ \A q \in QueueIds : IsInjective(queue[q])
  /\ \A q1, q2 \in QueueIds : \A p \in Pcbs :
       In(q1, p) /\ In(q2, p) => q1 = q2

\* The current process is in no queue while it runs and while a
\* handler wakes sleepers or releases waiters; once a handler has called _dispatch, it has
\* already been put into one.  Queueing it twice, or dispatching before it is
\* queued, would lose or duplicate it.
CurrentPlaced ==
  /\ mode \in {"user", "wake", "release"} => \A q \in QueueIds : ~In(q, current)
  /\ mode = "dispatch" => \E q \in QueueIds : In(q, current)

\* No PCB is ever lost: what is not in a queue is the current process.
NoneLost == \A p \in Pcbs : p = current \/ \E q \in QueueIds : In(q, p)

\* The free queue holds FREE PCBs only, and what waits anywhere else is not
\* FREE (a KILLED process stays allocated until _dispatch meets it); the one
\* PCB that is FREE and in use is the initial process before it is first
\* scheduled.  _pcb_alloc panics and fork() hands out a live PCB otherwise.
FreeMeansFree ==
  /\ \A p \in Pcbs : In(FreeQ, p) => state[p] = "FREE"
  /\ \A p \in Pcbs : \A q \in {ReadQ} \cup ReadyQs :
       In(q, p) => state[p] # "FREE"

\* A process waits in the ready queue of its own priority: set_priority()
\* reaches only the caller, which is in no queue.
ReadyByPriority ==
  \A k \in Prios, p \in Pcbs : In(ReadyQ(k), p) => priority[p] = k

\* The PCB table and the queues agree, whatever is killed, forked, delayed or
\* interrupted and in the middle of every loop: each PCB is in exactly one
\* place, the free queue holds exactly what is free, and a ready process waits
\* where its priority says (_q_insert, _q_remove, _sched, _dispatch, _cleanup).
ProcessSound ==
  /\ TypeOK
  /\ AtMostOnePlace
  /\ CurrentPlaced
  /\ NoneLost
  /\ FreeMeansFree
  /\ ReadyByPriority

\* The PCB is allocated: it is not in the free queue.
InUse(p) == ~In(FreeQ, p)

\* Two processes that are alive never have the same pid, and the next pid is
\* new: _next_pid only grows (within the bound MaxPid, far below the 2^16 at
\* which the 16-bit counter starts again).  kill() and the message queues find
\* their process by pid alone.
PidsUnique ==
  /\ \A p, q \in Pcbs : InUse(p) /\ InUse(q) /\ pid[p] = pid[q] => p = q
  /\ \A p \in Pcbs : InUse(p) => pid[p] < nextPid

\* When no handler runs, nobody is still asleep whose time has run out: one
\* tick wakes every sleeper that is due, not only the first.
NeverLate ==
  User => \A p \in Pcbs : In(SleepQ, p) => left[p] > 0

\* A sleeper is woken only when the ticks it asked for have passed -- or when
\* its wake-up time lies behind the clock: the sum in _sys_msleep has wrapped
\* around, and the sleep ends at the next tick.
NeverEarly ==
  [][\A p \in Pcbs : In(SleepQ, p) /\ ~In(SleepQ, p)' =>
       left[p] = 0 \/ wakeKey[p] < time]_vars

\* While nobody is killed: every process in use owns a page directory that is
\* allocated, no two share one except the initial process and the desktop
\* thread, a running process runs in its own, and no directory is left behind
\* by a process that has exited.
DirectoriesOwned ==
  LET used == {p \in Pcbs : InUse(p)} IN
  /\ \A p, q \in used : pageDir[p] = pageDir[q] =>
       p = q \/ (VIDEO /\ {pid[p], pid[q]} = {PID_INIT, PID_INIT + 1})
  /\ User => cr3 = pageDir[current]
  /\ liveDirs = {KernelDir} \cup {pageDir[p] : p \in used}
  /\ \A p \in used : pageDir[p] # KernelDir

\* No lost wake-up on the serial line: a process that waits for input never
\* waits beside a character that is already there.
ReaderHasNoInput == \A p \in Pcbs : In(ReadQ, p) => incount = 0

\* _dispatch gives the CPU to a process of the highest priority that has one.
HighestPriorityRuns ==
  [][mode = "dispatch" /\ mode' = "user" =>
       \A k \in Prios, p \in Pcbs :
         In(ReadyQ(k), p)' => k >= priority'[current']]_vars

\* A process that is killed while it stands in a ready queue never runs again.
KilledWhenReadyIsFinal ==
  [][\A p \in Pcbs :
       state[p] = "KILLED" /\ (\E k \in Prios : In(ReadyQ(k), p)) =>
         state'[p] \in {"KILLED", "FREE"}]_vars

\* Whom _dispatch picks: a process of the highest priority that has one, and
\* never one that was killed while it was ready.
DispatchSound == HighestPriorityRuns /\ KilledWhenReadyIsFinal

\* kill() promises to "terminate a process with extreme prejudice"
\* (syscalls.c:300): a process marked KILLED should only ever become FREE.
\* The code breaks this for every victim that is not in a ready queue.
KillIsFinal ==
  [][\A p \in Pcbs :
       state[p] = "KILLED" => state'[p] \in {"KILLED", "FREE"}]_vars

\* _cleanup promises to "deallocate a pcb and associated data structures"
\* (system.c:77): the directory that goes with a PCB is the one the PCB owns.
\* The code breaks this when _dispatch cleans up a killed process.
CleanupFreesOwn ==
  [][\A p \in Pcbs :
       ~In(FreeQ, p) /\ In(FreeQ, p)' =>
         liveDirs' = liveDirs \ {pageDir[p]}]_vars

\* A sleeping process is eventually woken, also across the wrap of the clock.
SleeperWakes == \A p \in Pcbs : In(SleepQ, p) ~> ~In(SleepQ, p)

\* A ready process of the highest priority eventually gets the CPU, whatever
\* the others do: the quantum ends every turn and the queue is first come,
\* first served.
HighPriorityRuns ==
  \A p \in Pcbs : In(ReadyQ(PRIO_HIGH), p) ~> (current = p /\ User)

=============================================================================
