------------------------------- MODULE Calls -------------------------------
(***************************************************************************)
(* What the blocking system calls of the inter-process communication have  *)
(* in common: how a call waits, and how its status reaches the caller.     *)
(*                                                                         *)
(* A handler returns a status by writing it to RET(pcb), the EAX slot of   *)
(* the context that the interrupt has saved on the caller's own stack, at  *)
(* a virtual address of the caller's page directory.  A handler that waits *)
(* calls _dispatch in its middle: the status it returns is written after   *)
(* _dispatch has loaded the page directory of another process, so it never *)
(* reaches the caller.  What it reaches is whatever the process dispatched *)
(* has at that address: its own EAX slot, when the two contexts lie at the *)
(* same address (all stacks are copies of one), or some other word.        *)
(***************************************************************************)
EXTENDS ProcessProps

VARIABLES
  eax,        \* the EAX slot of each process: "own", what the process or its
              \* last call has left there; the name of a kind of queue, still
              \* the number of a call that waits in such a queue, or has
              \* waited there; "answered", the status that the
              \* process which ended the wait has written for it, until it
              \* runs; "stray", the status of another's call
  owed,       \* the handler inside _dispatch has yet to write its status
  result      \* what the last step has written to RET(_current); "none" when
              \* it has returned from no call of the modules that extend this

callVars == <<eax, owed, result>>

\* The calls that wait, by the first component of their queue's name.
CallNumbers == {q[1] : q \in WaitQueues}

Statuses == {"none", "SUCCESS", "FAILURE", "NOT_FOUND", "EMPTY_QUEUE"}

CallsType ==
  /\ eax \in [Pcbs -> {"own", "answered", "stray"} \cup CallNumbers]
  /\ owed \in BOOLEAN
  /\ result \in Statuses

CallsInit ==
  /\ eax = [p \in Pcbs |-> "own"]
  /\ owed = FALSE
  /\ result = "none"

\* RET(_current) = v, in a handler that has not called _dispatch.
Ret(v) ==
  /\ eax' = [eax EXCEPT ![current] = "own"]
  /\ result' = v
  /\ UNCHANGED owed

\* The handler goes on.
NoRet == result' = "none" /\ UNCHANGED <<eax, owed>>

\* _q_insert(q, _current) behind the first n nodes, then _dispatch().  The
\* state of the PCB is not touched.
BlockAt(q, n) ==
  /\ queue' = [queue EXCEPT ![q] = InsertAt(@, n + 1, current)]
  /\ mode'  = "dispatch"
  /\ eax'   = [eax EXCEPT ![current] = q[1]]
  /\ owed'  = TRUE
  /\ result' = "none"
  /\ UNCHANGED <<pcbVars, wakeKey, current, nextPid, time, memVars, incount,
                 left>>

Block(q) == BlockAt(q, Len(queue[q]))

\* _q_remove(q, &p), then _sched(p).
SchedHead_Last(q) ==            \* the wrong end: PostedWaiterReleased
  LET p == Last(queue[q]) IN
  /\ queue[q] # <<>>
  /\ queue' = [queue EXCEPT ![q] = Front(@), ![ReadyQOf(p)] = Append(@, p)]
  /\ state' = [state EXCEPT ![p] = "READY"]
  /\ UNCHANGED <<priority, quantum, pid, pageDir, wakeKey, current, nextPid,
                 time, memVars, incount, left>>

SchedHead(q) ==
  LET p == Head(queue[q]) IN
  /\ queue[q] # <<>>
  /\ queue' = Move(q, p, ReadyQOf(p))
  /\ state' = [state EXCEPT ![p] = "READY"]
  /\ UNCHANGED <<priority, quantum, pid, pageDir, wakeKey, current, nextPid,
                 time, memVars, incount, left>>

\* The same in a loop that releases waiters.
ReleaseHead(q) ==
  /\ mode = "release"
  /\ SchedHead(q)
  /\ UNCHANGED mode

\* A step of the handler that changes nothing of the process core but, at
\* most, where the CPU is.
CoreKept(m) ==
  /\ mode' = m
  /\ UNCHANGED <<queue, pcbVars, wakeKey, current, nextPid, time, memVars,
                 incount, left>>

\* A step of the process core.  When _dispatch returns into a handler that
\* owes a status, that status may land in the EAX slot of the process that
\* has been dispatched.  A process starts with an EAX of its own.
Core ==
  /\ Next
  /\ result' = "none"
  /\ IF mode = "dispatch" /\ mode' = "user"
       THEN /\ \/ eax' = [eax EXCEPT ![current'] =
                                IF @ = "answered" THEN "own" ELSE @]
               \/ owed /\ eax' = [eax EXCEPT ![current'] = "stray"]
            /\ owed' = FALSE
       ELSE /\ eax' = [p \in Pcbs |-> IF state'[p] = "FREE" THEN "own"
                                                            ELSE eax[p]]
            /\ UNCHANGED owed
=============================================================================
