----------------------------- MODULE Semaphores -----------------------------
(***************************************************************************)
(* Counting semaphores (semaphores.c and their five system calls).         *)
(*                                                                         *)
(* A fixed table of MAX_SEMAPHORES slots is divided between the queue of   *)
(* the available and the queue of the live semaphores; a new semaphore is  *)
(* named by a counter, so a slot that is used again has another name.      *)
(* Processes wait on a semaphore in the order of their calls.              *)
(*                                                                         *)
(* The loops of _sem_sched_waiting and _sem_destroy are one action per     *)
(* process they release; `loop' says which of them runs and on which slot. *)
(***************************************************************************)
EXTENDS Calls, FiniteSets

CONSTANTS
  MAX_SEMAPHORES,
  MaxSems,        \* bound: sem_init() is not called after this many
  MaxValue        \* bound: sem_post() is not called at this value

Slots   == 1 .. MAX_SEMAPHORES
SemQ(i) == <<"semaphore", i>>

SemAssumption ==
  /\ MAX_SEMAPHORES \in Nat
  /\ \A i \in Slots : SemQ(i) \in WaitQueues

ASSUME SemAssumptions == SemAssumption

VARIABLES
  available,  \* _available_semaphores: a queue of slots
  semaphores, \* _semaphores: the slots of the live semaphores
  sem,        \* Semaphore.sem, the name of the semaphore in the slot
  value,      \* Semaphore.value
  semCount,   \* _sem_count
  loop,       \* <<which loop, on which slot>>
  tokens      \* history: posts minus the waits that have been let through

semVars == <<available, semaphores, sem, value, semCount, loop, tokens>>

NoLoop == <<"none", 0>>

SemInit ==
  /\ Init /\ CallsInit
  /\ available  = [i \in 1 .. MAX_SEMAPHORES |-> i]
  /\ semaphores = {}
  /\ sem        = [i \in Slots |-> 0]
  /\ value      = [i \in Slots |-> 0]
  /\ semCount   = 0
  /\ loop       = NoLoop
  /\ tokens     = [i \in Slots |-> 0]

-----------------------------------------------------------------------------
(* The system calls.                                                       *)

\* _q_get_by_key(_semaphores, ..., id)
Named(i, id) == i \in semaphores /\ sem[i] = id

\* What the four calls on a semaphore that does not exist return.
UnknownSem(id) ==
  /\ User
  /\ \A i \in Slots : ~Named(i, id)
  /\ Ret(IF semaphores = {} THEN "EMPTY_QUEUE" ELSE "NOT_FOUND")
  /\ CoreKept(mode)
  /\ UNCHANGED semVars

\* _sys_sem_init: the caller learns of a full table only from the id -1 it is
\* given; the status is SUCCESS in every case.
NewName(i) == sem' = [sem EXCEPT ![i] = semCount + 1]

SemNew ==
  /\ User
  /\ available # <<>>
  /\ semCount < MaxSems                                \* bound
  /\ LET i == Head(available) IN
     /\ NewName(i)
     /\ semaphores' = semaphores \cup {i}
     /\ value'  = [value EXCEPT ![i] = 0]
     /\ tokens' = [tokens EXCEPT ![i] = 0]
  /\ available' = Tail(available)
  /\ semCount' = semCount + 1
  /\ Ret("SUCCESS")
  /\ CoreKept(mode)
  /\ UNCHANGED loop

SemNewFull ==
  /\ User
  /\ available = <<>>
  /\ Ret("SUCCESS")
  /\ CoreKept(mode)
  /\ UNCHANGED semVars

\* _sem_wait on a semaphore with a positive value; _sem_try_wait is the same.
TakeToken(i) ==
  /\ value[i] > 0
  /\ value'  = [value EXCEPT ![i] = @ - 1]
  /\ tokens' = [tokens EXCEPT ![i] = @ - 1]
  /\ Ret("SUCCESS")
  /\ CoreKept(mode)
  /\ UNCHANGED <<available, semaphores, sem, semCount, loop>>

SemWait(id) ==
  /\ User
  /\ \E i \in Slots :
       /\ Named(i, id)
       /\ \/ TakeToken(i)
          \/ /\ value[i] = 0
             /\ ~IsInit
             /\ Block(SemQ(i))
             /\ UNCHANGED semVars

SemTryWait(id) ==
  /\ User
  /\ \E i \in Slots :
       /\ Named(i, id)
       /\ \/ TakeToken(i)
          \/ /\ value[i] = 0
             /\ Ret("FAILURE")
             /\ CoreKept(mode)
             /\ UNCHANGED semVars

\* _sem_post up to the loop of _sem_sched_waiting.
SemPost(id) ==
  /\ User
  /\ \E i \in Slots :
       /\ Named(i, id)
       /\ value[i] < MaxValue                          \* bound
       /\ value'  = [value EXCEPT ![i] = @ + 1]
       /\ tokens' = [tokens EXCEPT ![i] = @ + 1]
       /\ loop'   = <<"post", i>>
  /\ NoRet
  /\ CoreKept("release")
  /\ UNCHANGED <<available, semaphores, sem, semCount>>

\* One iteration: a waiter is scheduled and takes the token.
SpendToken_Keep(i) == value' = value   \* forgets value--: TokensSound
SpendToken(i) == value' = [value EXCEPT ![i] = @ - 1]

PostMore(i) == value[i] > 0 /\ queue[SemQ(i)] # <<>>

PostRelease ==
  /\ loop[1] = "post"
  /\ LET i == loop[2] IN
     /\ PostMore(i)
     /\ ReleaseHead(SemQ(i))
     /\ SpendToken(i)
     /\ tokens' = [tokens EXCEPT ![i] = @ - 1]
  /\ NoRet
  /\ UNCHANGED <<available, semaphores, sem, semCount, loop>>

PostDone ==
  /\ loop[1] = "post"
  /\ ~PostMore(loop[2])
  /\ loop' = NoLoop
  /\ Ret("SUCCESS")
  /\ CoreKept("user")
  /\ UNCHANGED <<available, semaphores, sem, value, semCount, tokens>>

\* _sem_destroy up to its loop.
SemDestroy(id) ==
  /\ User
  /\ \E i \in Slots : Named(i, id) /\ loop' = <<"destroy", i>>
  /\ NoRet
  /\ CoreKept("release")
  /\ UNCHANGED <<available, semaphores, sem, value, semCount, tokens>>

\* One iteration.  RET(pcb) = FAILURE is written through the page directory
\* of the process that destroys the semaphore, not of the one released: to
\* that process it is lost.  If it lands in the EAX slot of the destroyer, the
\* call's own SUCCESS soon overwrites it.
DestroyRelease ==
  /\ loop[1] = "destroy"
  /\ ReleaseHead(SemQ(loop[2]))
  /\ NoRet
  /\ UNCHANGED semVars

\* The rest of _sem_destroy.
DestroyEmpty(i) == queue[SemQ(i)] = <<>>

Retire_KeepsLive(i) ==                  \* not taken off the list: SlotsSound
  /\ available' = Append(available, i)
  /\ UNCHANGED semaphores

Retire(i) ==
  /\ available'  = Append(available, i)
  /\ semaphores' = semaphores \ {i}

DestroyDone ==
  /\ loop[1] = "destroy"
  /\ DestroyEmpty(loop[2])
  /\ Retire(loop[2])
  /\ loop' = NoLoop
  /\ Ret("SUCCESS")
  /\ CoreKept("user")
  /\ UNCHANGED <<sem, value, semCount, tokens>>

-----------------------------------------------------------------------------
SemIds == 1 .. MaxSems

SemCall ==
  \/ SemNew
  \/ SemNewFull
  \/ \E id \in SemIds :
       SemWait(id) \/ SemTryWait(id) \/ SemPost(id) \/ SemDestroy(id)
         \/ UnknownSem(id)

SemLoop == PostRelease \/ PostDone \/ DestroyRelease \/ DestroyDone

SemNext ==
  \/ Core /\ UNCHANGED semVars
  \/ SemCall
  \/ SemLoop

allVars == <<vars, callVars, semVars>>

SemSpec == SemInit /\ [][SemNext]_allVars

(* As in the process core: handlers run to their end, the timer interrupt  *)
(* is taken again and again.                                               *)
SemFairSpec ==
  /\ SemSpec
  /\ WF_allVars(SemLoop)
  /\ WF_allVars(KernelLoop /\ Core /\ UNCHANGED semVars)
  /\ SF_allVars(ClockTick /\ Core /\ UNCHANGED semVars)

-----------------------------------------------------------------------------
(* Properties.                                                             *)

SemType ==
  /\ TypeOK /\ CallsType
  /\ available  \in Seq(Slots)
  /\ semaphores \subseteq Slots
  /\ sem        \in [Slots -> Nat]
  /\ value      \in [Slots -> Nat]
  /\ semCount   \in Nat
  /\ loop       \in {NoLoop} \cup {"post", "destroy"} \X Slots
  /\ tokens     \in [Slots -> Int]

\* Every slot is available once or live, never both and never neither: a
\* program that creates and destroys semaphores for ever does not run out of
\* them.
SlotsConserved ==
  /\ IsInjective(available)
  /\ \A i \in Slots : Contains(available, i) <=> i \notin semaphores

\* Two live semaphores never have the same name, and the next name is new: a
\* process that still holds the name of a destroyed semaphore gets an error,
\* not the stranger's semaphore that has its slot now.
NamesUnique ==
  /\ \A i, j \in semaphores : sem[i] = sem[j] => i = j
  /\ \A i \in semaphores : sem[i] \in 1 .. semCount

\* Processes wait on live semaphores only: sem_destroy() leaves nobody behind
\* in a queue that it deallocates.
WaitersOnLive == \A i \in Slots : queue[SemQ(i)] # <<>> => i \in semaphores

\* The table of semaphores is sound for every order of sem_init(),
\* sem_destroy() and the releases in between.
SlotsSound == SemType /\ SlotsConserved /\ NamesUnique /\ WaitersOnLive

\* The value is exactly the number of posts that no wait has used, for every
\* order of posts, waits and tries and at every step of the release loop.
TokensAccounted == \A i \in semaphores : value[i] = tokens[i]

\* No lost wake-up: outside a handler, nobody waits on a semaphore that has a
\* token left.
NoIdleToken ==
  User => \A i \in Slots : value[i] > 0 => queue[SemQ(i)] = <<>>

\* Whatever the order of posts, waits and tries, the tokens are accounted for and
\* none lies idle beside a process that waits for it.
TokensSound == TokensAccounted /\ NoIdleToken

\* A process that waits is eventually released, or the semaphore is
\* posted only finitely often, whatever the other processes do: the queue is
\* first come, first served and try_wait cannot steal a token from it.
PostedWaiterReleased ==
  \A i \in Slots, p \in Pcbs :
    []<><<SemLoop /\ loop = <<"post", i>> /\ loop' = NoLoop>>_allVars
      => (In(SemQ(i), p) ~> ~In(SemQ(i), p))
=============================================================================
